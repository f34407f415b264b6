---------------------------- MODULE InputProofs ----------------------------
(***************************************************************************)
(* Theorems about a client's input, with their proofs.                     *)
(*                                                                         *)
(* InputButtons, for every set of keys, every number of packets and of     *)
(* sessions: only one key repeats at a time, and once the reset of a       *)
(* closed session has run no key is down.                                  *)
(*                                                                         *)
(* Gamepads, for any clients, controllers, slots and packets: every slot   *)
(* has one owner, a paused client's pads are neutral, and a pause unplugs  *)
(* none of them.                                                           *)
(*                                                                         *)
(* InputQueue, for any devices, bit masks and number of packets, and any   *)
(* range of the deltas: no packet is left without a task, no transition of *)
(* a device is hidden or overtaken, and no content is lost by batching.    *)
(***************************************************************************)
EXTENDS InputButtons, Gamepads, InputQueue, FoldLemmas, SequenceTheorems, TLAPS

-----------------------------------------------------------------------------
(* Buttons and keys.                                                       *)

(* The one repeat that is armed has its id in key_press_repeat_id, or is   *)
(* about to; by then a reset() that remembers the address may have         *)
(* cancelled it.                                                           *)
RepeatInv ==
    \A i \in Ids : timers[i] \in Keys =>
        IF storing[2] \in Keys THEN i = storing[1] ELSE i = repeatId

(* The reset of a closed session is the last task in the queue, or has run *)
(* and left nothing pressed.                                               *)
ResetInv ==
    buttonSession = "closed" =>
        \/ buttonQueue # <<>> /\ buttonQueue[Len(buttonQueue)] = Reset
        \/ buttonQueue = <<>> /\ \A k \in Keys : ~keyPress[k]

ButtonsInv == ButtonsTypeOK /\ RepeatInv /\ ResetInv /\ osKey = keyPress

(* The initial states satisfy the invariant: nothing is queued or armed.   *)
LEMMA ButtonsInitInv == ButtonsInit => ButtonsInv
BY ButtonsAssumption
DEF ButtonsInit, ButtonsInv, ButtonsTypeOK, RepeatInv, ResetInv, Buttons,
    ButtonPackets, Reset

(* Taking a task off the queue leaves a queue, and unless it was the last  *)
(* task it leaves the last one where it was.                               *)
LEMMA TakeLeaves ==
    ASSUME ButtonsTypeOK, NEW p, TakeButton(p)
    PROVE  /\ buttonQueue' \in Seq(ButtonPackets \cup {Reset})
           /\ buttonQueue' # <<>> =>
                 /\ buttonQueue # <<>>
                 /\ buttonQueue'[Len(buttonQueue')]
                      = buttonQueue[Len(buttonQueue)]
           /\ buttonQueue' = <<>> => buttonQueue[Len(buttonQueue)] = p
           /\ buttonQueue # <<>>
           /\ storing = Nothing /\ storing[2] \notin Keys
<1>0. storing = Nothing => storing[2] \notin Keys
  BY ButtonsAssumption DEF Nothing
<1>1. /\ buttonQueue \in Seq(ButtonPackets \cup {Reset})
      /\ buttonQueue # <<>> /\ Head(buttonQueue) = p /\ storing = Nothing
      /\ buttonQueue' = Tail(buttonQueue)
  BY DEF ButtonsTypeOK, TakeButton
<1> buttonQueue[1] = p
  BY <1>1
<1>2. /\ buttonQueue' \in Seq(ButtonPackets \cup {Reset})
      /\ Len(buttonQueue') = Len(buttonQueue) - 1
      /\ \A i \in 1 .. Len(buttonQueue') : buttonQueue'[i] = buttonQueue[i + 1]
      /\ Len(buttonQueue) \in Nat /\ Len(buttonQueue) # 0
  BY <1>1
<1>3. CASE Len(buttonQueue') = 0
  BY <1>0, <1>1, <1>2, <1>3
<1>4. CASE Len(buttonQueue') # 0
  <2>1. Len(buttonQueue') \in 1 .. Len(buttonQueue')
    BY <1>2, <1>4
  <2>2. buttonQueue'[Len(buttonQueue')] = buttonQueue[Len(buttonQueue)]
    BY <1>2, <2>1
  <2> QED BY <1>0, <1>1, <1>2, <1>4, <2>2
<1> QED BY <1>3, <1>4

(* A packet is no reset.                                                   *)
LEMMA PacketIsNoReset == Reset \notin ButtonPackets
<1>1. \A q \in ButtonPackets : q.kind # "reset"
  BY DEF ButtonPackets, Move, Button, Key
<1>2. Reset.kind = "reset"
  BY DEF Reset
<1> QED BY <1>1, <1>2

USE DEF ButtonsInv, RepeatInv, ResetInv

(* Packets that neither arm nor end a repeat.                              *)
LEMMA PlainStep ==
    ASSUME ButtonsInv, NEW p \in ButtonPackets, TakeButton(p),
           UNCHANGED <<buttonSession, sessions, buttonsSent, timers, storing,
                       repeatId>>,
           osKey' = keyPress', keyPress' \in [Keys -> BOOLEAN],
           \A k \in Keys : keyPress'[k] => keyPress[k],
           UNCHANGED <<mouseVars>> \/
             (/\ mousePress' \in [Buttons -> BOOLEAN]
              /\ osButton' \in [Buttons -> BOOLEAN]
              /\ leftTimeout' \in Ids \cup {"disable", "null"})
    PROVE  ButtonsInv'
<1>1. ButtonsTypeOK'
  BY TakeLeaves DEF ButtonsTypeOK, mouseVars
<1>2. RepeatInv'
  BY TakeLeaves
<1>3. ResetInv'
  BY TakeLeaves, PacketIsNoReset
<1> QED BY <1>1, <1>2, <1>3

(* Packets the batch of plain steps handles.                               *)
LEMMA PlainPackets ==
    /\ \A kind \in {"abs", "rel"} : Move(kind) \in ButtonPackets
    /\ \A b \in Buttons, r \in BOOLEAN : Button(b, r) \in ButtonPackets
    /\ \A k \in Keys, r \in BOOLEAN : Key(k, r) \in ButtonPackets
BY DEF ButtonPackets

(* A relative move disables the delay and arms nothing.                    *)
LEMMA RelMoveStep == ASSUME ButtonsInv, RelMove PROVE ButtonsInv'
BY PlainStep, PlainPackets
DEF RelMove, sessionVars, keyVars, mouseVars, ButtonsTypeOK

(* An absolute move enables the delay and arms nothing.                    *)
LEMMA AbsMoveStep == ASSUME ButtonsInv, AbsMove PROVE ButtonsInv'
BY PlainStep, PlainPackets
DEF AbsMove, sessionVars, keyVars, mouseVars, ButtonsTypeOK

(* A button that already is as wanted changes only the queue.              *)
LEMMA ButtonIdleStep ==
    ASSUME ButtonsInv, NEW b \in Buttons, NEW r \in BOOLEAN, ButtonIdle(b, r)
    PROVE  ButtonsInv'
BY PlainStep, PlainPackets
DEF ButtonIdle, sessionVars, keyVars, mouseVars, ButtonsTypeOK

(* A right click made in place of a press concerns no key.                 *)
LEMMA ClickRightStep == ASSUME ButtonsInv, ClickRight PROVE ButtonsInv'
BY PlainStep, PlainPackets
DEF ClickRight, sessionVars, keyVars, mouseVars, ButtonsTypeOK, Buttons

(* A button passed to the platform concerns no key and no timer.           *)
LEMMA PassButtonStep ==
    ASSUME ButtonsInv, NEW b \in Buttons, NEW r \in BOOLEAN, PassButton(b, r)
    PROVE  ButtonsInv'
BY PlainStep, PlainPackets
DEF PassButton, sessionVars, keyVars, mouseVars, ButtonsTypeOK

(* A key that already is as wanted changes only the queue.                 *)
LEMMA KeyIdleStep ==
    ASSUME ButtonsInv, NEW k \in Keys, NEW r \in BOOLEAN, KeyIdle(k, r)
    PROVE  ButtonsInv'
BY PlainStep, PlainPackets
DEF KeyIdle, sessionVars, keyVars, mouseVars, ButtonsTypeOK

(* Releasing a key tells the platform what is tracked.                     *)
LEMMA ReleaseKeyStep ==
    ASSUME ButtonsInv, NEW k \in Keys, ReleaseKey(k)
    PROVE  ButtonsInv'
BY PlainStep, PlainPackets
DEF ReleaseKey, sessionVars, keyVars, mouseVars, ButtonsTypeOK

(* What a task stores is an id and what the timed task is for.             *)
LEMMA StoringTyped ==
    ASSUME NEW i \in Ids, NEW what \in Keys \cup {"left"}
    PROVE  <<i, what>> \in (Ids \X (Keys \cup {"left"})) \cup {Nothing}
OBVIOUS

(* A task that is about to store something stores an id.                   *)
LEMMA StoringKnown ==
    ASSUME ButtonsTypeOK, storing[2] \in Keys \cup {"left"}
    PROVE  storing[1] \in Ids
<1>1. CASE storing = Nothing
  <2>1. Unset \notin Keys \cup {"left"}
    BY ButtonsAssumption
  <2> QED BY <1>1, <2>1 DEF Nothing
<1>2. CASE storing \in Ids \X (Keys \cup {"left"})
  <2>1. PICK i \in Ids, what \in Keys \cup {"left"} : storing = <<i, what>>
    BY <1>2
  <2> QED BY <2>1
<1> QED BY <1>1, <1>2 DEF ButtonsTypeOK

(* A delayed release takes an id that no armed repeat has.                 *)
LEMMA DelayLeftStep == ASSUME ButtonsInv, DelayLeft PROVE ButtonsInv'
<1>1. Button("left", TRUE) \in ButtonPackets
  BY PlainPackets DEF Buttons
<1>2. PICK i \in {j \in Ids : timers[j] = Unset} \ {Unset} :
        timers' = [timers EXCEPT ![i] = "left"] /\ storing' = <<i, "left">>
  BY DEF DelayLeft, Arm
<1>3. ButtonsTypeOK'
  BY <1>1, <1>2, TakeLeaves, StoringTyped
  DEF DelayLeft, ButtonsTypeOK, sessionVars, keyVars, Buttons
<1>4. RepeatInv'
  <2>1. storing[2] \notin Keys /\ storing'[2] \notin Keys /\ repeatId' = repeatId
    BY <1>2, TakeLeaves, ButtonsAssumption DEF DelayLeft, keyVars
  <2>2. \A j \in Ids : timers'[j] \in Keys => timers[j] \in Keys
    BY <1>2, ButtonsAssumption DEF ButtonsTypeOK
  <2> QED BY <2>1, <2>2
<1>5. ResetInv' /\ osKey' = keyPress'
  BY <1>1, TakeLeaves, PacketIsNoReset DEF DelayLeft, sessionVars, keyVars
<1> QED BY <1>3, <1>4, <1>5

(* Storing the id of a delayed release concerns no repeat.                 *)
LEMMA StoreLeftStep == ASSUME ButtonsInv, StoreLeft PROVE ButtonsInv'
<1>0. storing[1] \in Ids /\ storing[2] \notin Keys /\ storing'[2] \notin Keys
  BY StoringKnown, ButtonsAssumption DEF StoreLeft, Nothing
<1>1. ButtonsTypeOK'
  <2>1. /\ leftTimeout' \in Ids /\ storing' = Nothing
        /\ UNCHANGED <<sessionVars, buttonQueue, timers, mousePress, osButton,
                       keyVars>>
    BY <1>0 DEF StoreLeft
  <2> QED BY <2>1 DEF ButtonsTypeOK, sessionVars, keyVars
<1>2. RepeatInv'
  BY <1>0 DEF StoreLeft, keyVars
<1>3. ResetInv' /\ osKey' = keyPress'
  BY DEF StoreLeft, sessionVars, keyVars
<1> QED BY <1>1, <1>2, <1>3

(* The id stored for a repeat is that of the only one armed.               *)
LEMMA StoreRepeatStep == ASSUME ButtonsInv, StoreRepeat PROVE ButtonsInv'
<1>0. storing[1] \in Ids /\ storing[2] \in Keys /\ storing'[2] \notin Keys
  BY StoringKnown, ButtonsAssumption DEF StoreRepeat, Nothing
<1>1. ButtonsTypeOK'
  <2>1. /\ repeatId' \in Ids /\ storing' = Nothing
        /\ UNCHANGED <<sessionVars, buttonQueue, timers, mouseVars, keyPress,
                       osKey>>
    BY <1>0 DEF StoreRepeat
  <2> QED BY <2>1 DEF ButtonsTypeOK, sessionVars, mouseVars
<1>2. RepeatInv'
  BY <1>0 DEF StoreRepeat
<1>3. ResetInv' /\ osKey' = keyPress'
  BY DEF StoreRepeat, sessionVars
<1> QED BY <1>1, <1>2, <1>3

(* A table without one id, or with a new task under a free one.            *)
LEMMA WithoutTable ==
    ASSUME ButtonsTypeOK, NEW id
    PROVE  /\ Without(id) \in [Ids -> Keys \cup {"left", Unset}]
           /\ \A i \in Ids :
                 Without(id)[i] = IF i = id THEN Unset ELSE timers[i]
BY DEF ButtonsTypeOK, Without

(* Pressing a key cancels the only repeat there can be, then arms one.     *)
LEMMA PressKeyStep ==
    ASSUME ButtonsInv, NEW k \in Keys, PressKey(k)
    PROVE  ButtonsInv'
<1>1. Key(k, FALSE) \in ButtonPackets /\ TakeButton(Key(k, FALSE))
  BY PlainPackets DEF PressKey
<1>2. PICK i \in Ids :
        timers' = [Without(repeatId) EXCEPT ![i] = k] /\ storing' = <<i, k>>
  BY DEF PressKey, Arm
<1>3. timers' \in [Ids -> Keys \cup {"left", Unset}]
  BY <1>2, WithoutTable
<1>4. ButtonsTypeOK'
  BY <1>1, <1>2, <1>3, TakeLeaves, StoringTyped
  DEF PressKey, ButtonsTypeOK, sessionVars, mouseVars
<1>5. RepeatInv'
  <2>1. \A j \in Ids : timers'[j] = IF j = i THEN k
                         ELSE IF j = repeatId THEN Unset ELSE timers[j]
    BY <1>2, WithoutTable
  <2>2. storing[2] \notin Keys
    BY <1>1, TakeLeaves
  <2>3. \A j \in Ids : timers'[j] \in Keys => j = i
    BY <2>1, <2>2, ButtonsAssumption
  <2>4. storing'[2] \in Keys /\ storing'[1] = i
    BY <1>2
  <2> QED BY <2>3, <2>4
<1>6. ResetInv'
  BY <1>1, TakeLeaves, PacketIsNoReset DEF PressKey, sessionVars
<1>7. osKey' = keyPress'
  BY DEF PressKey
<1> QED BY <1>4, <1>5, <1>6, <1>7

(* The reset releases every key, tracked and told.                         *)
LEMMA ResetInputStateStep ==
    ASSUME ButtonsInv, ResetInputState PROVE ButtonsInv'
<1>1. TakeButton(Reset)
  BY DEF ResetInputState
<1>2. ButtonsTypeOK'
  BY <1>1, TakeLeaves DEF ResetInputState, ButtonsTypeOK, sessionVars
<1>3. RepeatInv'
  BY <1>1, TakeLeaves DEF ResetInputState
<1>4. ResetInv'
  BY <1>1, TakeLeaves DEF ResetInputState, sessionVars
<1>5. osKey' = keyPress'
  BY DEF ResetInputState, ButtonsTypeOK
<1> QED BY <1>2, <1>3, <1>4, <1>5

(* The delayed release takes only its own timer away.                      *)
LEMMA LeftTimerStep ==
    ASSUME ButtonsInv, NEW i \in Ids, LeftTimer(i)
    PROVE  ButtonsInv'
<1>1. ButtonsTypeOK'
  BY WithoutTable DEF LeftTimer, ButtonsTypeOK, sessionVars, keyVars, Buttons
<1>2. RepeatInv'
  BY WithoutTable, ButtonsAssumption
  DEF LeftTimer, Fire, ButtonsTypeOK, keyVars
<1>3. ResetInv' /\ osKey' = keyPress'
  BY DEF LeftTimer, sessionVars, keyVars
<1> QED BY <1>1, <1>2, <1>3

(* A repeat either arms its successor, when no other repeat is armed, or   *)
(* ends. It sends only a key that is pressed.                              *)
LEMMA RepeatKeyStep ==
    ASSUME ButtonsInv, NEW i \in Ids, NEW k \in Keys, RepeatKey(i, k)
    PROVE  ButtonsInv'
<1>1. storing[2] \notin Keys /\ timers[i] = k
  BY ButtonsAssumption DEF RepeatKey, Fire, Nothing
<1>2. i = repeatId
  BY <1>1, ButtonsAssumption
<1>3. ResetInv'
  BY DEF RepeatKey, sessionVars
<1>4. CASE keyPress[k] /\ Arm(Without(i), k, i) /\ UNCHANGED repeatId
                /\ osKey' = [osKey EXCEPT ![k] = TRUE]
  <2>1. PICK n \in Ids :
          timers' = [Without(i) EXCEPT ![n] = k] /\ storing' = <<n, k>>
    BY <1>4 DEF Arm
  <2>2. timers' \in [Ids -> Keys \cup {"left", Unset}]
    BY <2>1, WithoutTable
  <2>3. \A j \in Ids : timers'[j] = IF j = n THEN k
                         ELSE IF j = i THEN Unset ELSE timers[j]
    BY <2>1, WithoutTable
  <2>4. ButtonsTypeOK'
    BY <1>4, <2>1, <2>2, StoringTyped
    DEF RepeatKey, ButtonsTypeOK, sessionVars, mouseVars
  <2>5. RepeatInv'
    <3>1. \A j \in Ids : timers'[j] \in Keys => j = n
      BY <1>1, <1>2, <2>3, ButtonsAssumption
    <3>2. storing'[2] \in Keys /\ storing'[1] = n
      BY <2>1
    <3> QED BY <3>1, <3>2
  <2>6. osKey' = keyPress'
    BY <1>4 DEF RepeatKey, ButtonsTypeOK
  <2> QED BY <1>3, <2>4, <2>5, <2>6
<1>5. CASE /\ repeatId' = Unset /\ timers' = Without(i)
           /\ UNCHANGED <<storing, osKey>>
  <2>1. ButtonsTypeOK'
    BY <1>5, WithoutTable DEF RepeatKey, ButtonsTypeOK, sessionVars, mouseVars
  <2>2. RepeatInv'
    BY <1>1, <1>2, <1>5, WithoutTable, ButtonsAssumption DEF ButtonsTypeOK
  <2>3. osKey' = keyPress'
    BY <1>5 DEF RepeatKey
  <2> QED BY <1>3, <2>1, <2>2, <2>3
<1> QED BY <1>4, <1>5 DEF RepeatKey

(* The client and the joining thread: packets are queued only while the    *)
(* session is open, and reset() pushes its task last.                      *)
LEMMA ReceiveStep ==
    ASSUME ButtonsInv, NEW p \in ButtonPackets, ReceiveButton(p)
    PROVE  ButtonsInv'
<1>1. ButtonsTypeOK'
  BY ButtonsAssumption DEF ReceiveButton, ButtonsTypeOK, mouseVars, keyVars
<1> QED BY <1>1 DEF ReceiveButton, mouseVars, keyVars

(* A join begins a reset, whose task is still to come.                     *)
LEMMA JoinStep == ASSUME ButtonsInv, JoinButtons PROVE ButtonsInv'
<1>1. ButtonsTypeOK'
  BY DEF JoinButtons, ButtonsTypeOK, mouseVars, keyVars
<1> QED BY <1>1 DEF JoinButtons, mouseVars, keyVars

(* A resumed session is open, so that nothing is settled.                  *)
LEMMA ResumeStep == ASSUME ButtonsInv, Resume PROVE ButtonsInv'
<1>1. sessions' \in 1 .. MaxButtonSessions
  BY ButtonsAssumption DEF Resume, ButtonsTypeOK
<1>2. ButtonsTypeOK'
  BY <1>1 DEF Resume, ButtonsTypeOK, mouseVars, keyVars
<1> QED BY <1>2 DEF Resume, mouseVars, keyVars

(* A cancelled timer, whosever it is, is no repeat any more.               *)
LEMMA CancelStep ==
    ASSUME ButtonsInv, ResetCancelsRepeat \/ ResetCancelsLeft
    PROVE  ButtonsInv'
<1>1. PICK id \in {repeatId, leftTimeout} : timers' = Without(id)
  BY DEF ResetCancelsRepeat, ResetCancelsLeft
<1>2. ButtonsTypeOK'
  BY <1>1, WithoutTable
  DEF ResetCancelsRepeat, ResetCancelsLeft, ButtonsTypeOK, mouseVars, keyVars
<1>3. \A i \in Ids : timers'[i] = IF i = id THEN Unset ELSE timers[i]
  BY <1>1, WithoutTable
<1>4. RepeatInv'
  BY <1>1, <1>3, ButtonsAssumption
  DEF ResetCancelsRepeat, ResetCancelsLeft, mouseVars, keyVars, ButtonsTypeOK
<1>5. ResetInv' /\ osKey' = keyPress'
  BY DEF ResetCancelsRepeat, ResetCancelsLeft, keyVars
<1> QED BY <1>2, <1>4, <1>5

(* reset() ends by queueing its task behind all packets.                   *)
LEMMA ResetPushesStep == ASSUME ButtonsInv, ResetPushes PROVE ButtonsInv'
<1>1. /\ buttonQueue \in Seq(ButtonPackets \cup {Reset})
      /\ buttonQueue' = Append(buttonQueue, Reset)
  BY DEF ResetPushes, ButtonsTypeOK
<1>2. /\ buttonQueue' \in Seq(ButtonPackets \cup {Reset})
      /\ buttonQueue' # <<>> /\ buttonQueue'[Len(buttonQueue')] = Reset
  BY <1>1
<1>3. ButtonsTypeOK'
  BY <1>2 DEF ResetPushes, ButtonsTypeOK, mouseVars, keyVars
<1> QED BY <1>2, <1>3 DEF ResetPushes, mouseVars, keyVars

-----------------------------------------------------------------------------
(* Every step preserves the invariant.                                     *)
LEMMA ButtonsNextInv == ButtonsInv /\ [ButtonsNext]_buttonsVars => ButtonsInv'
<1> SUFFICES ASSUME ButtonsInv, [ButtonsNext]_buttonsVars PROVE ButtonsInv'
  OBVIOUS
<1>1. CASE Client
  BY <1>1, ReceiveStep, JoinStep, ResumeStep DEF Client
<1>2. CASE Joiner
  BY <1>2, CancelStep, ResetPushesStep DEF Joiner
<1>3. CASE Queued
  BY <1>3, RelMoveStep, AbsMoveStep, DelayLeftStep, ClickRightStep,
     ResetInputStateStep, ButtonIdleStep, PassButtonStep, PressKeyStep,
     ReleaseKeyStep, KeyIdleStep
  DEF Queued
<1>4. CASE Stored
  BY <1>4, StoreLeftStep, StoreRepeatStep DEF Stored
<1>5. ASSUME NEW i \in Ids, LeftTimer(i) PROVE ButtonsInv'
  BY <1>5, LeftTimerStep
<1>6. ASSUME NEW i \in Ids, NEW k \in Keys, RepeatKey(i, k) PROVE ButtonsInv'
  BY <1>6, RepeatKeyStep
<1>7. CASE UNCHANGED buttonsVars
  BY <1>7 DEF buttonsVars, sessionVars, mouseVars, keyVars, ButtonsTypeOK
<1> QED BY <1>1, <1>2, <1>3, <1>4, <1>5, <1>6, <1>7 DEF ButtonsNext

(* The invariant holds in every reachable state.                           *)
THEOREM ButtonsSpecInv == ButtonsSpec => []ButtonsInv
<1>1. ButtonsInit => ButtonsInv
  BY ButtonsInitInv
<1>2. ButtonsInv /\ [ButtonsNext]_buttonsVars => ButtonsInv'
  BY ButtonsNextInv
<1> QED BY <1>1, <1>2, PTL DEF ButtonsSpec

(* Type correctness of every behaviour.                                    *)
THEOREM ButtonsTypeCorrect == ButtonsSpec => []ButtonsTypeOK
<1>1. ButtonsInv => ButtonsTypeOK
  OBVIOUS
<1> QED BY <1>1, ButtonsSpecInv, PTL

(* At most one key repeats, whatever resets, resumes and reused ids did.   *)
THEOREM RepeatsOnce == ButtonsSpec => []OneRepeat
<1>1. ButtonsInv => OneRepeat
  BY ButtonsAssumption DEF OneRepeat
<1> QED BY <1>1, ButtonsSpecInv, PTL

(* After the reset of a closed session no key is down at the platform.     *)
THEOREM KeysReleased == ButtonsSpec => []NoKeyLeftDown
<1>1. ButtonsInv => NoKeyLeftDown
  <2> SUFFICES ASSUME ButtonsInv, Settled, NEW k \in Keys PROVE ~osKey[k]
    BY DEF NoKeyLeftDown
  <2> QED BY DEF Settled
<1> QED BY <1>1, ButtonsSpecInv, PTL

HIDE DEF ButtonsInv, RepeatInv, ResetInv

-----------------------------------------------------------------------------
(* Gamepads. The invariant speaks of a queue, pads, homes and bits as     *)
(* arguments, so that the lemmas can follow them through a step.           *)

Untouched(q, i) == \A n \in DOMAIN q : i \notin q[n].inputs

(* The last task of the queue that has the input_t resets it.              *)
ResetLast(q, i) ==
    \E n \in DOMAIN q :
        /\ q[n].kind = "reset"
        /\ i \in q[n].inputs
        /\ \A m \in DOMAIN q : m > n => i \notin q[m].inputs

Neutral(i, homes, pads, pressed) ==
    \A k \in Controllers :
        <<i, k>> \notin homes /\ pads[<<i, k>>] \notin pressed

(* A timer is armed only by Back going down in the state that is kept.     *)
TimersHold == \A p \in timer : held[p] /\ ~forcedUp[p]

(* A paused client: its reset is the last task for its input_t, or has run.*)
PausesReset ==
    \A c \in Clients : Paused(c) =>
        \/ ResetLast(queue, retained[c])
        \/ /\ Untouched(queue, retained[c])
           /\ Neutral(retained[c], timer, pad, told)

(* An input_t is of one client, and retained while its session lasts.      *)
OwnInputs ==
    /\ open \subseteq {c \in Clients : session[c] # None}
    /\ \A c \in Clients :
          session[c] # None => retained[c] \in {None, session[c]}
    /\ \A c, d \in Clients : c # d =>
          {retained[c], session[c]} \cap {retained[d], session[d]}
              \subseteq {None}

(* What is to be destroyed is not retained any more.                       *)
DestroysLetGo ==
    \A n \in DOMAIN queue, c \in Clients :
        queue[n].kind = "destroy" => retained[c] \notin queue[n].inputs

(* SlotsAccounted, of any living input_t objects A.                        *)
OwnedBy(A, pads) == {p \in Each : p[1] \in A /\ pads[p] # None}

FreesOf(q) == {n \in DOMAIN q : q[n].kind = "free"}

Accounted(A, pads, q, bits) ==
    /\ \A s : s \in bits <=> \/ \E p \in OwnedBy(A, pads) : s = pads[p]
                             \/ \E n \in FreesOf(q) : s \in q[n].slots
    /\ \A p, r \in OwnedBy(A, pads) : pads[p] = pads[r] => p = r
    /\ \A m, n \in FreesOf(q) : m # n => q[m].slots \cap q[n].slots = {}
    /\ \A p \in OwnedBy(A, pads), n \in FreesOf(q) :
          pads[p] \notin q[n].slots

GamepadsInv ==
    /\ TypeOK
    /\ Accounted(Alive, pad, queue, mask)
    /\ TimersHold
    /\ OwnInputs
    /\ DestroysLetGo
    /\ PausesReset

(* What a task has, by its kind.                                           *)
LEMMA TaskTyped ==
    ASSUME NEW x \in Tasks
    PROVE  /\ x.inputs \subseteq Inputs
           /\ x.kind = "free" => x.inputs = {} /\ x.slots \subseteq Slots
           /\ x.kind \in {"arrival", "state"} => x.ctrl \in Controllers
BY DEF Tasks, Packets

(* Positions in the queue once a task is pushed.                           *)
LEMMA PushedAt ==
    ASSUME NEW q \in Seq(Tasks), NEW x \in Tasks
    PROVE  /\ Append(q, x) \in Seq(Tasks)
           /\ DOMAIN Append(q, x) = DOMAIN q \cup {Len(q) + 1}
           /\ Append(q, x)[Len(q) + 1] = x
           /\ \A n \in DOMAIN q :
                 n \in Int /\ n < Len(q) + 1 /\ Append(q, x)[n] = q[n]
<1>1. /\ Append(q, x) \in Seq(Tasks)
      /\ Len(Append(q, x)) = Len(q) + 1
      /\ Len(q) \in Nat
      /\ DOMAIN q = 1 .. Len(q)
  OBVIOUS
<1>2. DOMAIN Append(q, x) = 1 .. Len(q) + 1
  BY <1>1
<1>3. DOMAIN Append(q, x) = DOMAIN q \cup {Len(q) + 1}
  BY <1>1, <1>2
<1>4. /\ Append(q, x)[Len(q) + 1] = x
      /\ \A n \in DOMAIN q :
            n \in Int /\ n < Len(q) + 1 /\ Append(q, x)[n] = q[n]
  OBVIOUS
<1> QED BY <1>1, <1>3, <1>4

(* Positions in the queue once its first task is taken.                    *)
LEMMA TakenAt ==
    ASSUME NEW q \in Seq(Tasks), q # <<>>
    PROVE  /\ Tail(q) \in Seq(Tasks)
           /\ Head(q) \in Tasks
           /\ 1 \in DOMAIN q /\ q[1] = Head(q)
           /\ DOMAIN Tail(q) \subseteq Int
           /\ DOMAIN q \subseteq Int
           /\ \A n \in DOMAIN Tail(q) :
                 n > 0 /\ n + 1 \in DOMAIN q /\ Tail(q)[n] = q[n + 1]
           /\ \A n \in DOMAIN q :
                 n # 1 => n - 1 \in DOMAIN Tail(q) /\ q[n] = Tail(q)[n - 1]
<1>1. /\ Head(q) \in Tasks
      /\ Tail(q) \in Seq(Tasks)
      /\ Len(Tail(q)) = Len(q) - 1
      /\ \A n \in 1 .. Len(Tail(q)) : Tail(q)[n] = q[n + 1]
  BY HeadTailProperties
<1>2. /\ DOMAIN q = 1 .. Len(q) /\ Len(q) \in Nat /\ Len(q) # 0
      /\ q[1] = Head(q)
  OBVIOUS
<1>3. DOMAIN Tail(q) = 1 .. Len(q) - 1
  BY <1>1, <1>2
<1> HIDE DEF Tasks
<1>4. /\ 1 \in DOMAIN q
      /\ DOMAIN Tail(q) \subseteq Int
      /\ DOMAIN q \subseteq Int
      /\ \A n \in DOMAIN Tail(q) : n > 0 /\ n + 1 \in DOMAIN q
      /\ \A n \in DOMAIN q : n # 1 => n - 1 \in DOMAIN Tail(q)
  BY <1>2, <1>3
<1>5. \A n \in DOMAIN q : n # 1 => q[n] = Tail(q)[n - 1]
  <2> SUFFICES ASSUME NEW n \in DOMAIN q, n # 1 PROVE q[n] = Tail(q)[n - 1]
    OBVIOUS
  <2>1. n - 1 \in 1 .. Len(Tail(q)) /\ (n - 1) + 1 = n
    BY <1>1, <1>2
  <2> QED BY <1>1, <2>1
<1>6. \A n \in DOMAIN Tail(q) : Tail(q)[n] = q[n + 1]
  BY <1>1, <1>2, <1>3
<1> QED BY <1>1, <1>2, <1>4, <1>5, <1>6

(* Pushing a task: who is held, and whose reset comes last.                *)
LEMMA Pushing ==
    ASSUME NEW q \in Seq(Tasks), NEW x \in Tasks
    PROVE  /\ \A m, s, t, i : i \in Held(Append(q, x), m, s, t)
                             <=> i \in Held(q, m, s, t) \/ i \in x.inputs
           /\ \A i \in Inputs : x.kind = "reset" /\ i \in x.inputs
                             => ResetLast(Append(q, x), i)
           /\ \A i \in Inputs : i \notin x.inputs =>
                 /\ ResetLast(q, i) => ResetLast(Append(q, x), i)
                 /\ Untouched(q, i) => Untouched(Append(q, x), i)
           /\ x.kind # "free" => \A A, pads, bits :
                 Accounted(A, pads, q, bits)
                     => Accounted(A, pads, Append(q, x), bits)
<1> DEFINE r == Append(q, x)
<1>1. /\ DOMAIN r = DOMAIN q \cup {Len(q) + 1}
      /\ r[Len(q) + 1] = x
      /\ \A n \in DOMAIN q : n \in Int /\ n < Len(q) + 1 /\ r[n] = q[n]
      /\ Len(q) \in Int
  BY PushedAt
<1> HIDE DEF r
<1>2. ASSUME NEW m, NEW s, NEW t, NEW i
      PROVE  i \in Held(r, m, s, t)
                 <=> i \in Held(q, m, s, t) \/ i \in x.inputs
  BY <1>1 DEF Held
<1>3. ASSUME NEW i \in Inputs, x.kind = "reset", i \in x.inputs
      PROVE  ResetLast(r, i)
  BY <1>1, <1>3 DEF ResetLast
<1>4. ASSUME NEW i \in Inputs, i \notin x.inputs
      PROVE  /\ ResetLast(q, i) => ResetLast(r, i)
             /\ Untouched(q, i) => Untouched(r, i)
  BY <1>1, <1>4 DEF ResetLast, Untouched
<1>5. ASSUME x.kind # "free", NEW A, NEW pads, NEW bits,
             Accounted(A, pads, q, bits)
      PROVE  Accounted(A, pads, r, bits)
  <2>1. FreesOf(r) = FreesOf(q) /\ \A n \in FreesOf(q) : r[n] = q[n]
    BY <1>1, <1>5 DEF FreesOf
  <2> QED BY <1>5, <2>1 DEF Accounted
<1> QED BY <1>2, <1>3, <1>4, <1>5 DEF r

(* Taking the first task: who is held no longer by it, whose reset has     *)
(* come, and which bits it frees.                                          *)
LEMMA Taking ==
    ASSUME NEW q \in Seq(Tasks), q # <<>>
    PROVE  /\ \A m, s, t, i : i \in Held(q, m, s, t)
                   <=> i \in Held(Tail(q), m, s, t) \/ i \in Head(q).inputs
           /\ \A i : ResetLast(q, i) =>
                 \/ ResetLast(Tail(q), i)
                 \/ /\ Head(q).kind = "reset"
                    /\ i \in Head(q).inputs
                    /\ Untouched(Tail(q), i)
           /\ \A i : Untouched(q, i) =>
                 i \notin Head(q).inputs /\ Untouched(Tail(q), i)
<1> DEFINE r == Tail(q)
<1> DEFINE h == Head(q)
<1>1. /\ 1 \in DOMAIN q /\ q[1] = h
      /\ DOMAIN r \subseteq Int /\ DOMAIN q \subseteq Int
      /\ \A n \in DOMAIN r : n > 0 /\ n + 1 \in DOMAIN q /\ r[n] = q[n + 1]
      /\ \A n \in DOMAIN q : n # 1 => n - 1 \in DOMAIN r /\ q[n] = r[n - 1]
  BY TakenAt
<1> HIDE DEF r, h
<1>2. ASSUME NEW m, NEW s, NEW t, NEW i
      PROVE  i \in Held(q, m, s, t)
                 <=> i \in Held(r, m, s, t) \/ i \in h.inputs
  <2>1. (\E n \in DOMAIN q : i \in q[n].inputs)
            <=> (\E n \in DOMAIN r : i \in r[n].inputs) \/ i \in h.inputs
    BY <1>1
  <2> QED BY <2>1 DEF Held
<1>3. ASSUME NEW i, ResetLast(q, i)
      PROVE  \/ ResetLast(r, i)
             \/ h.kind = "reset" /\ i \in h.inputs /\ Untouched(r, i)
  <2>1. PICK n \in DOMAIN q :
            /\ q[n].kind = "reset"
            /\ i \in q[n].inputs
            /\ \A m \in DOMAIN q : m > n => i \notin q[m].inputs
    BY <1>3 DEF ResetLast
  <2>2. \A m \in DOMAIN r : m > n - 1 => i \notin r[m].inputs
    BY <1>1, <2>1
  <2>3. CASE n = 1
    BY <1>1, <2>1, <2>2, <2>3 DEF Untouched
  <2>4. CASE n # 1
    BY <1>1, <2>1, <2>2, <2>4 DEF ResetLast
  <2> QED BY <2>3, <2>4
<1>4. ASSUME NEW i, Untouched(q, i)
      PROVE  i \notin h.inputs /\ Untouched(r, i)
  BY <1>1, <1>4 DEF Untouched
<1> QED BY <1>2, <1>3, <1>4 DEF r, h

(* The bits that are accounted for once the first task is taken: a task    *)
(* that frees its slots must have done so.                                 *)
LEMMA TakingBits ==
    ASSUME NEW q \in Seq(Tasks), q # <<>>, NEW A, NEW pads, NEW bits,
           Accounted(A, pads, q, bits)
    PROVE  /\ Head(q).kind # "free" => Accounted(A, pads, Tail(q), bits)
           /\ Head(q).kind = "free"
                 => Accounted(A, pads, Tail(q), bits \ Head(q).slots)
<1> DEFINE r == Tail(q)
<1> DEFINE h == Head(q)
<1> DEFINE rest == IF h.kind = "free" THEN bits \ h.slots ELSE bits
<1>1. /\ 1 \in DOMAIN q /\ q[1] = h
      /\ DOMAIN r \subseteq Int /\ DOMAIN q \subseteq Int
      /\ \A n \in DOMAIN r : n > 0 /\ n + 1 \in DOMAIN q /\ r[n] = q[n + 1]
      /\ \A n \in DOMAIN q : n # 1 => n - 1 \in DOMAIN r /\ q[n] = r[n - 1]
  BY TakenAt
<1> HIDE DEF r, h
<1>2. /\ \A n \in FreesOf(r) : n + 1 \in FreesOf(q) /\ r[n] = q[n + 1]
      /\ \A n \in FreesOf(q) :
            n # 1 => n - 1 \in FreesOf(r) /\ q[n] = r[n - 1]
      /\ 1 \in FreesOf(q) <=> h.kind = "free"
      /\ FreesOf(r) \subseteq Int /\ FreesOf(q) \subseteq Int
      /\ \A n \in FreesOf(r) : n > 0
  BY <1>1 DEF FreesOf
<1>0. \A s : s \in bits <=> \/ \E p \in OwnedBy(A, pads) : s = pads[p]
                            \/ \E n \in FreesOf(q) : s \in q[n].slots
  BY DEF Accounted
<1>3. ASSUME NEW s
      PROVE  s \in rest <=> \/ \E p \in OwnedBy(A, pads) : s = pads[p]
                            \/ \E n \in FreesOf(r) : s \in r[n].slots
  <2>1. s \in bits <=> \/ \E p \in OwnedBy(A, pads) : s = pads[p]
                       \/ \E n \in FreesOf(q) : s \in q[n].slots
    BY <1>0
  <2>2. (\E n \in FreesOf(q) : s \in q[n].slots)
            <=> \/ h.kind = "free" /\ s \in h.slots
                \/ \E n \in FreesOf(r) : s \in r[n].slots
    BY <1>1, <1>2
  <2>3. ASSUME h.kind = "free", s \in h.slots
        PROVE  /\ \A p \in OwnedBy(A, pads) : s # pads[p]
               /\ \A n \in FreesOf(r) : s \notin r[n].slots
    <3>1. ASSUME NEW n \in FreesOf(r) PROVE s \notin r[n].slots
      <4>1. n + 1 \in FreesOf(q) /\ n + 1 # 1 /\ 1 \in FreesOf(q)
        BY <1>2, <2>3
      <4>2. q[n + 1].slots \cap q[1].slots = {}
        BY <4>1 DEF Accounted
      <4> QED BY <1>1, <1>2, <2>3, <4>2
    <3> QED BY <1>1, <1>2, <2>3, <3>1 DEF Accounted
  <2>4. s \in rest <=> s \in bits /\ ~(h.kind = "free" /\ s \in h.slots)
    OBVIOUS
  <2> HIDE DEF rest
  <2> QED BY <2>1, <2>2, <2>3, <2>4
<1>4. \A m, n \in FreesOf(r) : m # n => r[m].slots \cap r[n].slots = {}
  <2> SUFFICES ASSUME NEW m \in FreesOf(r), NEW n \in FreesOf(r), m # n
               PROVE  r[m].slots \cap r[n].slots = {}
    OBVIOUS
  <2>1. m + 1 \in FreesOf(q) /\ n + 1 \in FreesOf(q) /\ m + 1 # n + 1
    BY <1>2
  <2>2. q[m + 1].slots \cap q[n + 1].slots = {}
    BY <2>1 DEF Accounted
  <2> QED BY <1>2, <2>2
<1>5. \A p \in OwnedBy(A, pads), n \in FreesOf(r) : pads[p] \notin r[n].slots
  BY <1>2 DEF Accounted
<1>6. \A p, t \in OwnedBy(A, pads) : pads[p] = pads[t] => p = t
  BY DEF Accounted
<1>7. Accounted(A, pads, r, rest)
  <2> HIDE DEF rest
  <2> QED BY <1>3, <1>4, <1>5, <1>6 DEF Accounted
<1> QED BY <1>7 DEF r, h

(* The slots of some input_t objects are those of the pads they own.       *)
LEMMA PadsOwned ==
    ASSUME NEW I \in SUBSET Inputs, NEW pads
    PROVE  \A s : s \in PadsOf(I, pads)
                     <=> \E p \in OwnedBy(I, pads) : s = pads[p]
<1>1. I \X Controllers = {p \in Each : p[1] \in I}
  BY DEF Each
<1> QED BY <1>1 DEF PadsOf, OwnedBy

(* No pad is at None.                                                      *)
LEMMA NoneIsNoSlot == None \notin Slots
<1> SUFFICES ASSUME NEW s \in Slots PROVE s # None
  OBVIOUS
<1> QED BY GamepadsAssumption DEF Slots

(* Plugging a pad in, at a slot whose bit is clear.                        *)
LEMMA PluggingBits ==
    ASSUME NEW A, NEW q, NEW bits, NEW pads \in [Each -> Slots \cup {None}],
           Accounted(A, pads, q, bits),
           NEW p \in Each, p[1] \in A, pads[p] = None,
           NEW s \in Slots \ bits
    PROVE  Accounted(A, [pads EXCEPT ![p] = s], q, bits \cup {s})
<1> DEFINE after == [pads EXCEPT ![p] = s]
<1>1. /\ after[p] = s
      /\ \A r \in Each : r # p => after[r] = pads[r]
  OBVIOUS
<1>2. s # None
  BY NoneIsNoSlot
<1> HIDE DEF after
<1>3. /\ \A r : r \in OwnedBy(A, after) <=> r = p \/ r \in OwnedBy(A, pads)
      /\ p \notin OwnedBy(A, pads)
      /\ \A r \in OwnedBy(A, pads) : after[r] = pads[r]
  BY <1>1, <1>2 DEF OwnedBy
<1>4. /\ \A r \in OwnedBy(A, pads) : pads[r] # s
      /\ \A n \in FreesOf(q) : s \notin q[n].slots
  BY DEF Accounted
<1>5. ASSUME NEW t
      PROVE  t \in bits \cup {s}
                 <=> \/ \E r \in OwnedBy(A, after) : t = after[r]
                     \/ \E n \in FreesOf(q) : t \in q[n].slots
  BY <1>1, <1>3 DEF Accounted
<1>6. \A r, u \in OwnedBy(A, after) : after[r] = after[u] => r = u
  BY <1>1, <1>3, <1>4 DEF Accounted
<1>7. \A r \in OwnedBy(A, after), n \in FreesOf(q) : after[r] \notin q[n].slots
  BY <1>1, <1>3, <1>4 DEF Accounted
<1>8. \A m, n \in FreesOf(q) : m # n => q[m].slots \cap q[n].slots = {}
  BY DEF Accounted
<1>9. Accounted(A, after, q, bits \cup {s})
  BY <1>5, <1>6, <1>7, <1>8 DEF Accounted
<1> QED BY <1>9 DEF after

(* Unplugging pads, and clearing their bits.                               *)
LEMMA UnpluggingBits ==
    ASSUME NEW A, NEW q, NEW bits, NEW pads,
           Accounted(A, pads, q, bits),
           NEW L \in SUBSET OwnedBy(A, pads), NEW after, NEW rest,
           \A p \in Each : after[p] = IF p \in L THEN None ELSE pads[p],
           \A s : s \in rest <=> s \in bits /\ \A p \in L : s # pads[p]
    PROVE  Accounted(A, after, q, rest)
<1>1. /\ \A p : p \in OwnedBy(A, after) <=> p \in OwnedBy(A, pads) /\ p \notin L
      /\ \A p \in OwnedBy(A, after) : after[p] = pads[p]
  BY DEF OwnedBy
<1>2. /\ \A s : s \in bits <=> \/ \E p \in OwnedBy(A, pads) : s = pads[p]
                               \/ \E n \in FreesOf(q) : s \in q[n].slots
      /\ \A p, r \in OwnedBy(A, pads) : pads[p] = pads[r] => p = r
      /\ \A p \in OwnedBy(A, pads), n \in FreesOf(q) :
            pads[p] \notin q[n].slots
      /\ \A m, n \in FreesOf(q) : m # n => q[m].slots \cap q[n].slots = {}
  BY DEF Accounted
<1>3. ASSUME NEW s
      PROVE  s \in rest <=> \/ \E p \in OwnedBy(A, after) : s = after[p]
                            \/ \E n \in FreesOf(q) : s \in q[n].slots
  BY <1>1, <1>2
<1>4. /\ \A p, r \in OwnedBy(A, after) : after[p] = after[r] => p = r
      /\ \A p \in OwnedBy(A, after), n \in FreesOf(q) :
            after[p] \notin q[n].slots
  BY <1>1, <1>2
<1> QED BY <1>2, <1>3, <1>4 DEF Accounted

(* Letting go of input_t objects, with the task that frees their pads.     *)
LEMMA LettingGoBits ==
    ASSUME NEW A \in SUBSET Inputs, NEW B \in SUBSET A,
           NEW q \in Seq(Tasks), NEW bits,
           NEW pads \in [Each -> Slots \cup {None}],
           Accounted(A, pads, q, bits),
           NEW free \in Tasks, free.kind = "free",
           free.slots = PadsOf(A \ B, pads)
    PROVE  /\ PadsOf(A \ B, pads) = {} => Accounted(B, pads, q, bits)
           /\ Accounted(B, pads, Append(q, free), bits)
<1> DEFINE slots == PadsOf(A \ B, pads)
<1>1. \A s : s \in slots <=> \E p \in OwnedBy(A \ B, pads) : s = pads[p]
  <2>1. A \ B \in SUBSET Inputs
    OBVIOUS
  <2> QED BY <2>1, PadsOwned
<1>2. free.kind = "free" /\ free.slots = slots
  OBVIOUS
<1> HIDE DEF slots
<1> DEFINE r == Append(q, free)
<1>4. /\ DOMAIN r = DOMAIN q \cup {Len(q) + 1}
      /\ r[Len(q) + 1] = free
      /\ \A n \in DOMAIN q : n \in Int /\ n < Len(q) + 1 /\ r[n] = q[n]
      /\ Len(q) \in Int
  BY PushedAt
<1> HIDE DEF r
<1>5. /\ \A n : n \in FreesOf(r) <=> n = Len(q) + 1 \/ n \in FreesOf(q)
      /\ Len(q) + 1 \notin FreesOf(q)
      /\ \A n \in FreesOf(q) : r[n].slots = q[n].slots
      /\ r[Len(q) + 1].slots = slots
  BY <1>2, <1>4 DEF FreesOf
<1>6. /\ \A p : p \in OwnedBy(A, pads)
              <=> p \in OwnedBy(B, pads) \/ p \in OwnedBy(A \ B, pads)
      /\ \A p \in OwnedBy(B, pads) : p \notin OwnedBy(A \ B, pads)
  BY DEF OwnedBy
<1>7. /\ \A s : s \in bits <=> \/ \E p \in OwnedBy(A, pads) : s = pads[p]
                               \/ \E n \in FreesOf(q) : s \in q[n].slots
      /\ \A p, t \in OwnedBy(A, pads) : pads[p] = pads[t] => p = t
      /\ \A p \in OwnedBy(A, pads), n \in FreesOf(q) :
            pads[p] \notin q[n].slots
      /\ \A m, n \in FreesOf(q) : m # n => q[m].slots \cap q[n].slots = {}
  BY DEF Accounted
<1>8. ASSUME slots = {} PROVE Accounted(B, pads, q, bits)
  <2>1. \A p : p \in OwnedBy(A, pads) <=> p \in OwnedBy(B, pads)
    BY <1>1, <1>6, <1>8
  <2>2. \A s : s \in bits <=> \/ \E p \in OwnedBy(B, pads) : s = pads[p]
                              \/ \E n \in FreesOf(q) : s \in q[n].slots
    BY <1>7, <2>1
  <2> QED BY <1>7, <2>1, <2>2 DEF Accounted
<1>9. Accounted(B, pads, r, bits)
  <2>1. \A s : s \in bits <=> \/ \E p \in OwnedBy(B, pads) : s = pads[p]
                              \/ \E n \in FreesOf(r) : s \in r[n].slots
    <3> SUFFICES ASSUME NEW s
                 PROVE  s \in bits
                            <=> \/ \E p \in OwnedBy(B, pads) : s = pads[p]
                                \/ \E n \in FreesOf(r) : s \in r[n].slots
      OBVIOUS
    <3>1. (\E p \in OwnedBy(A, pads) : s = pads[p])
              <=> (\E p \in OwnedBy(B, pads) : s = pads[p]) \/ s \in slots
      BY <1>1, <1>6
    <3>2. (\E n \in FreesOf(r) : s \in r[n].slots)
              <=> (\E n \in FreesOf(q) : s \in q[n].slots) \/ s \in slots
      BY <1>5
    <3>3. s \in bits <=> \/ \E p \in OwnedBy(A, pads) : s = pads[p]
                         \/ \E n \in FreesOf(q) : s \in q[n].slots
      BY <1>7
    <3> QED BY <3>1, <3>2, <3>3
  <2>2. \A p, t \in OwnedBy(B, pads) : pads[p] = pads[t] => p = t
    BY <1>6, <1>7
  <2>3. \A p \in OwnedBy(B, pads), n \in FreesOf(r) : pads[p] \notin r[n].slots
    <3>1. ASSUME NEW p \in OwnedBy(B, pads), pads[p] \in slots PROVE FALSE
      <4>1. PICK t \in OwnedBy(A \ B, pads) : pads[p] = pads[t]
        BY <1>1, <3>1
      <4>2. p = t
        BY <1>6, <1>7, <4>1
      <4> QED BY <1>6, <4>2
    <3>2. \A p \in OwnedBy(B, pads), n \in FreesOf(q) :
              pads[p] \notin q[n].slots
      BY <1>6, <1>7
    <3> QED BY <1>5, <3>1, <3>2
  <2>4. \A n \in FreesOf(q) : slots \cap q[n].slots = {}
    <3> SUFFICES ASSUME NEW n \in FreesOf(q), NEW s \in slots
                 PROVE  s \notin q[n].slots
      OBVIOUS
    <3>1. PICK p \in OwnedBy(A \ B, pads) : s = pads[p]
      BY <1>1
    <3> QED BY <1>6, <1>7, <3>1
  <2>5. \A m, n \in FreesOf(r) : m # n => r[m].slots \cap r[n].slots = {}
    BY <1>5, <1>7, <2>4
  <2> QED BY <2>1, <2>2, <2>3, <2>5 DEF Accounted
<1> QED BY <1>8, <1>9 DEF slots, r

(* TypeOK without the queue.                                               *)
StateTyped ==
    /\ retained \in [Clients -> Inputs \cup {None}]
    /\ session \in [Clients -> Inputs \cup {None}]
    /\ open \in SUBSET Clients
    /\ started \in 0 .. MaxSessions
    /\ sent \in 0 .. MaxPackets
    /\ timer \in SUBSET Each
    /\ pad \in [Each -> Slots \cup {None}]
    /\ held \in [Each -> BOOLEAN]
    /\ forcedUp \in [Each -> BOOLEAN]
    /\ mask \in SUBSET Slots
    /\ told \in SUBSET Slots

(* Who holds an input_t.                                                   *)
LEMMA HeldBy ==
    ASSUME NEW q, NEW m, NEW s, NEW t, NEW i
    PROVE  i \in Held(q, m, s, t) <=>
               \/ \E n \in DOMAIN q : i \in q[n].inputs
               \/ i \in Inputs /\ \E c \in Clients : i = m[c] \/ i = s[c]
               \/ \E p \in t : i = p[1]
<1> DEFINE X == UNION {q[n].inputs : n \in DOMAIN q}
<1> DEFINE Y == {j \in Inputs : \E c \in Clients : j \in {m[c], s[c]}}
<1> DEFINE Z == {p[1] : p \in t}
<1>1. i \in X <=> \E n \in DOMAIN q : i \in q[n].inputs
  OBVIOUS
<1>2. i \in Y <=> i \in Inputs /\ \E c \in Clients : i = m[c] \/ i = s[c]
  OBVIOUS
<1>3. i \in Z <=> \E p \in t : i = p[1]
  OBVIOUS
<1>4. Held(q, m, s, t) = X \cup Y \cup Z
  BY DEF Held
<1> HIDE DEF X, Y, Z
<1> QED BY <1>1, <1>2, <1>3, <1>4

(* The living input_t objects.                                             *)
LEMMA AliveInputs ==
    ASSUME TypeOK
    PROVE  /\ Alive \subseteq Inputs
           /\ \A c \in Clients : /\ retained[c] # None => retained[c] \in Alive
                                 /\ session[c] # None => session[c] \in Alive
           /\ \A p \in timer : p[1] \in Alive
           /\ \A n \in DOMAIN queue : queue[n].inputs \subseteq Alive
<1>1. \A n \in DOMAIN queue : queue[n] \in Tasks
  BY DEF TypeOK
<1>2. \A n \in DOMAIN queue : queue[n].inputs \subseteq Inputs
  BY <1>1, TaskTyped
<1>3. \A p \in timer : p[1] \in Inputs
  BY DEF TypeOK, Each
<1>4. \A i : i \in Alive <=>
          \/ \E n \in DOMAIN queue : i \in queue[n].inputs
          \/ i \in Inputs /\ \E c \in Clients : i = retained[c] \/ i = session[c]
          \/ \E p \in timer : i = p[1]
  BY HeldBy DEF Alive
<1>5. Alive \subseteq Inputs
  BY <1>2, <1>3, <1>4
<1>6. ASSUME NEW c \in Clients
      PROVE  /\ retained[c] # None => retained[c] \in Alive
             /\ session[c] # None => session[c] \in Alive
  <2>1. retained[c] \in Inputs \cup {None} /\ session[c] \in Inputs \cup {None}
    BY DEF TypeOK
  <2> QED BY <1>4, <2>1
<1>7. /\ \A p \in timer : p[1] \in Alive
      /\ \A n \in DOMAIN queue : queue[n].inputs \subseteq Alive
  BY <1>4
<1> QED BY <1>5, <1>6, <1>7

(* The destructors that a step may run push one task, which holds nothing. *)
LEMMA SettlePushes ==
    ASSUME TypeOK, NEW q \in Seq(Tasks), Settle(q),
           pad' \in [Each -> Slots \cup {None}],
           Held(q, retained', session', timer') \subseteq Alive,
           Accounted(Alive, pad', q, mask')
    PROVE  /\ queue' \in Seq(Tasks)
           /\ Alive' = Held(q, retained', session', timer')
           /\ Accounted(Alive', pad', queue', mask')
           /\ \A i \in Inputs : /\ ResetLast(q, i) => ResetLast(queue', i)
                                /\ Untouched(q, i) => Untouched(queue', i)
           /\ \A n \in DOMAIN queue' : queue'[n].kind = "destroy" =>
                 \E m \in DOMAIN q : queue'[n] = q[m]
<1> DEFINE B == Held(q, retained', session', timer')
<1> DEFINE free == [kind |-> "free", inputs |-> {},
                    slots |-> PadsOf(Alive \ B, pad')]
<1>1. queue' = IF PadsOf(Alive \ B, pad') = {} THEN q ELSE Append(q, free)
  BY DEF Settle
<1>2. Alive' = Held(queue', retained', session', timer')
  BY DEF Alive
<1>3. /\ free \in Tasks
      /\ PadsOf(Alive \ B, pad') = {} => Accounted(B, pad', q, mask')
      /\ Accounted(B, pad', Append(q, free), mask')
  <2>1. Alive \in SUBSET Inputs /\ B \in SUBSET Alive
    BY AliveInputs
  <2>2. PadsOf(Alive \ B, pad') \subseteq Slots
    <3>1. Alive \ B \in SUBSET Inputs
      BY <2>1
    <3>2. \A s : s \in PadsOf(Alive \ B, pad') <=>
              \E p \in OwnedBy(Alive \ B, pad') : s = pad'[p]
      BY <3>1, PadsOwned
    <3> QED BY <3>2 DEF OwnedBy
  <2>3. /\ free \in Tasks
        /\ free.kind = "free"
        /\ free.slots = PadsOf(Alive \ B, pad')
    BY <2>2 DEF Tasks
  <2> HIDE DEF B, free
  <2> QED BY <2>1, <2>3, LettingGoBits
<1>4. free.kind = "free" /\ free.inputs = {}
  OBVIOUS
<1> HIDE DEF free
<1>5. CASE queue' = q
  <2>1. Accounted(B, pad', q, mask')
    <3>1. CASE PadsOf(Alive \ B, pad') = {}
      BY <1>3, <3>1
    <3>2. CASE PadsOf(Alive \ B, pad') # {}
      <4>1. q = Append(q, free)
        BY <1>1, <1>5, <3>2
      <4> QED BY <1>3, <4>1
    <3> QED BY <3>1, <3>2
  <2> QED BY <1>2, <1>5, <2>1
<1>6. CASE queue' = Append(q, free)
  <2>1. Alive' = B
    <3>1. \A i : i \in Held(Append(q, free), retained', session', timer')
                    <=> i \in B \/ i \in free.inputs
      BY <1>3, Pushing
    <3> HIDE DEF B
    <3> QED BY <1>2, <1>4, <1>6, <3>1
  <2>2. /\ queue' \in Seq(Tasks)
        /\ DOMAIN queue' = DOMAIN q \cup {Len(q) + 1}
        /\ queue'[Len(q) + 1] = free
        /\ \A n \in DOMAIN q : queue'[n] = q[n]
    BY <1>3, <1>6, PushedAt
  <2>3. \A n \in DOMAIN queue' : queue'[n].kind = "destroy" =>
            \E m \in DOMAIN q : queue'[n] = q[m]
    BY <1>4, <2>2
  <2>4. \A i \in Inputs : /\ ResetLast(q, i) => ResetLast(queue', i)
                          /\ Untouched(q, i) => Untouched(queue', i)
    BY <1>3, <1>4, <1>6, Pushing
  <2> QED BY <1>3, <1>6, <2>1, <2>2, <2>3, <2>4
<1> QED BY <1>1, <1>5, <1>6

(* Steps of the worker and of the threads that let go of input_t objects:  *)
(* what is left to show of a handler that leaves q queued.                 *)
LEMMA SettleStep ==
    ASSUME GamepadsInv, NEW q \in Seq(Tasks), Settle(q), StateTyped',
           Held(q, retained', session', timer') \subseteq Alive,
           Accounted(Alive, pad', q, mask'),
           TimersHold', OwnInputs',
           \A n \in DOMAIN q, c \in Clients :
               q[n].kind = "destroy" => retained'[c] \notin q[n].inputs,
           \A c \in Clients : Paused(c)' =>
               \/ ResetLast(q, retained'[c])
               \/ /\ Untouched(q, retained'[c])
                  /\ Neutral(retained'[c], timer', pad', told')
    PROVE  GamepadsInv'
<1>1. /\ queue' \in Seq(Tasks)
      /\ Accounted(Alive', pad', queue', mask')
      /\ \A i \in Inputs : /\ ResetLast(q, i) => ResetLast(queue', i)
                           /\ Untouched(q, i) => Untouched(queue', i)
      /\ \A n \in DOMAIN queue' : queue'[n].kind = "destroy" =>
            \E m \in DOMAIN q : queue'[n] = q[m]
  BY SettlePushes DEF GamepadsInv, StateTyped
<1>2. TypeOK'
  BY <1>1 DEF TypeOK, StateTyped
<1>3. DestroysLetGo'
  BY <1>1 DEF DestroysLetGo
<1>4. PausesReset'
  <2> SUFFICES ASSUME NEW c \in Clients, Paused(c)'
               PROVE  \/ ResetLast(queue', retained'[c])
                      \/ /\ Untouched(queue', retained'[c])
                         /\ Neutral(retained'[c], timer', pad', told')
    BY DEF PausesReset
  <2>1. retained'[c] \in Inputs
    BY <1>2 DEF TypeOK, Paused
  <2>2. \/ ResetLast(q, retained'[c])
        \/ /\ Untouched(q, retained'[c])
           /\ Neutral(retained'[c], timer', pad', told')
    BY Zenon
  <2> QED BY <1>1, <2>1, <2>2
<1> QED BY <1>1, <1>2, <1>3, <1>4 DEF GamepadsInv

(* A step of the worker, which changes no session. It resets the input_t   *)
(* objects of a reset, and leaves the living ones that are not the task's  *)
(* as they were.                                                           *)
LEMMA WorkerStep ==
    ASSUME GamepadsInv, queue # <<>>, Done, StateTyped',
           UNCHANGED <<retained, session, open>>,
           timer' \subseteq timer \cup (task.inputs \X Controllers),
           Accounted(Alive, pad', Tail(queue), mask'),
           TimersHold',
           \A i \in Alive \ task.inputs, k \in Controllers :
               /\ pad'[<<i, k>>] = pad[<<i, k>>]
               /\ pad[<<i, k>>] \in told' => pad[<<i, k>>] \in told,
           task.kind = "reset" =>
               \A i \in task.inputs : Neutral(i, timer', pad', told')
    PROVE  GamepadsInv'
<1> DEFINE q == Tail(queue)
<1>1. TypeOK /\ q \in Seq(Tasks) /\ queue \in Seq(Tasks)
  BY TakenAt DEF GamepadsInv, TypeOK
<1>2. /\ Settle(q)
      /\ retained' = retained /\ session' = session /\ open' = open
  BY DEF Done
<1>3. /\ \A i : i \in Alive <=> i \in Held(q, retained, session, timer)
                              \/ i \in task.inputs
      /\ \A i : ResetLast(queue, i) =>
            \/ ResetLast(q, i)
            \/ task.kind = "reset" /\ i \in task.inputs /\ Untouched(q, i)
      /\ \A i : Untouched(queue, i) => i \notin task.inputs /\ Untouched(q, i)
  BY <1>1, Taking DEF Alive, task
<1>4. \A n \in DOMAIN q : n + 1 \in DOMAIN queue /\ q[n] = queue[n + 1]
  BY <1>1, TakenAt
<1> HIDE DEF q
<1>5. Held(q, retained', session', timer') \subseteq Alive
  <2>1. \A i : i \in Held(q, retained', session', timer') =>
            \/ i \in Held(q, retained, session, timer)
            \/ \E p \in timer' : i = p[1]
    <3> SUFFICES ASSUME NEW i, i \in Held(q, retained', session', timer')
                 PROVE  \/ i \in Held(q, retained, session, timer)
                        \/ \E p \in timer' : i = p[1]
      OBVIOUS
    <3>1. \/ \E n \in DOMAIN q : i \in q[n].inputs
          \/ i \in Inputs /\ \E c \in Clients : i = retained[c] \/ i = session[c]
          \/ \E p \in timer' : i = p[1]
      BY <1>2, HeldBy
    <3> QED BY <3>1, HeldBy
  <2>2. \A p \in timer' : p[1] \in Alive
    <3>1. \A p \in timer : p[1] \in Alive
      BY <1>1, AliveInputs
    <3>2. \A p \in task.inputs \X Controllers : p[1] \in Alive
      BY <1>3
    <3> QED BY <3>1, <3>2
  <2> QED BY <1>3, <2>1, <2>2
<1>6. OwnInputs'
  BY DEF GamepadsInv, OwnInputs
<1>7. \A n \in DOMAIN q, c \in Clients :
          q[n].kind = "destroy" => retained'[c] \notin q[n].inputs
  BY <1>4 DEF GamepadsInv, DestroysLetGo
<1>8. ASSUME NEW c \in Clients, Paused(c)'
      PROVE  \/ ResetLast(q, retained'[c])
             \/ /\ Untouched(q, retained'[c])
                /\ Neutral(retained'[c], timer', pad', told')
  <2> DEFINE i == retained[c]
  <2>1. retained'[c] = i /\ i \in Alive
    BY <1>1, <1>2, <1>8, AliveInputs DEF Paused
  <2>2. \/ ResetLast(queue, i)
        \/ Untouched(queue, i) /\ Neutral(i, timer, pad, told)
    <3>1. Paused(c)
      BY <1>2, <1>8 DEF Paused
    <3> QED BY <3>1 DEF GamepadsInv, PausesReset
  <2> HIDE DEF i
  <2>3. CASE ResetLast(queue, i)
    BY <1>3, <2>1, <2>3
  <2>4. CASE Untouched(queue, i) /\ Neutral(i, timer, pad, told)
    <3>1. i \notin task.inputs /\ Untouched(q, i)
      BY <1>3, <2>4
    <3>2. Neutral(i, timer', pad', told')
      BY <2>1, <2>4, <3>1 DEF Neutral
    <3> QED BY <2>1, <3>1, <3>2
  <2> QED BY <2>2, <2>3, <2>4
<1>9. Accounted(Alive, pad', q, mask')
  BY DEF q
<1> QED BY <1>1, <1>2, <1>5, <1>6, <1>7, <1>8, <1>9, SettleStep

(* What a handler of the worker finds: its task, whose input_t objects     *)
(* live, and pads that share no slot.                                      *)
LEMMA TaskFound ==
    ASSUME GamepadsInv, queue # <<>>
    PROVE  /\ task.inputs \subseteq Alive
           /\ task.inputs \subseteq Inputs
           /\ task.kind = "free" => task.inputs = {} /\ task.slots \subseteq Slots
           /\ task.kind \in {"arrival", "state"} => task.ctrl \in Controllers
           /\ task.kind # "free" => Accounted(Alive, pad, Tail(queue), mask)
           /\ task.kind = "free" =>
                 Accounted(Alive, pad, Tail(queue), mask \ task.slots)
           /\ \A p, r \in Each :
                 p[1] \in Alive /\ r[1] \in Alive /\ pad[p] # None
                     /\ pad[p] = pad[r] => p = r
           /\ \A p \in Each : p[1] \in Alive /\ pad[p] # None => pad[p] \in mask
<1>1. queue \in Seq(Tasks) /\ TypeOK /\ Accounted(Alive, pad, queue, mask)
  BY DEF GamepadsInv, TypeOK
<1>2. task \in Tasks /\ 1 \in DOMAIN queue /\ queue[1] = task
  BY <1>1, TakenAt DEF task
<1>3. task.inputs \subseteq Alive /\ Alive \subseteq Inputs
  BY <1>1, <1>2, AliveInputs
<1>4. /\ task.kind # "free" => Accounted(Alive, pad, Tail(queue), mask)
      /\ task.kind = "free" =>
            Accounted(Alive, pad, Tail(queue), mask \ task.slots)
  BY <1>1, TakingBits DEF task
<1>5. /\ \A p, r \in OwnedBy(Alive, pad) : pad[p] = pad[r] => p = r
      /\ \A p \in OwnedBy(Alive, pad) : pad[p] \in mask
  BY <1>1 DEF Accounted
<1> QED BY <1>2, <1>3, <1>4, <1>5, TaskTyped DEF OwnedBy

(* arrival: a pad that is plugged in has a slot of its own.                *)
LEMMA ArrivalStep == ASSUME GamepadsInv, Arrival PROVE GamepadsInv'
<1>1. /\ queue # <<>> /\ task.kind = "arrival" /\ Done
      /\ UNCHANGED <<retained, session, open, started, sent, timer, held,
                     forcedUp>>
  BY DEF Arrival, Take, clientVars
<1>2. /\ task.inputs \subseteq Alive
      /\ task.inputs \subseteq Inputs
      /\ task.ctrl \in Controllers
      /\ Accounted(Alive, pad, Tail(queue), mask)
  BY <1>1, TaskFound
<1>3. TypeOK /\ TimersHold
  BY DEF GamepadsInv
<1>4. TimersHold'
  BY <1>1, <1>3 DEF TimersHold
<1>5. CASE UNCHANGED <<pad, mask, told>>
  <2>1. StateTyped'
    BY <1>1, <1>3, <1>5 DEF TypeOK, StateTyped
  <2>2. Accounted(Alive, pad', Tail(queue), mask')
    BY <1>2, <1>5
  <2> QED BY <1>1, <1>4, <1>5, <2>1, <2>2, WorkerStep
<1>6. ASSUME NEW i \in task.inputs, NEW s \in Slots,
             Allocated(<<i, task.ctrl>>, s), told' = told \ {s}
      PROVE  GamepadsInv'
  <2> DEFINE p == <<i, task.ctrl>>
  <2>1. /\ p \in Each /\ p[1] = i /\ i \in Alive
        /\ \A j, k : j \notin task.inputs => <<j, k>> # p
    BY <1>2, <1>6 DEF Each
  <2>2. /\ s \in Slots \ mask /\ pad[p] = None
        /\ pad' = [pad EXCEPT ![p] = s] /\ mask' = mask \cup {s}
    BY <1>6 DEF Allocated, AllocId
  <2> HIDE DEF p
  <2>3. pad \in [Each -> Slots \cup {None}]
    BY <1>3 DEF TypeOK
  <2>4. Accounted(Alive, pad', Tail(queue), mask')
    BY <1>2, <2>1, <2>2, <2>3, PluggingBits
  <2>5. StateTyped'
    BY <1>1, <1>3, <1>6, <2>2 DEF TypeOK, StateTyped
  <2>6. \A r \in Each : r # p => pad'[r] = pad[r]
    BY <2>2, <2>3
  <2>7. \A j \in Alive \ task.inputs, k \in Controllers :
            /\ pad'[<<j, k>>] = pad[<<j, k>>]
            /\ pad[<<j, k>>] \in told' => pad[<<j, k>>] \in told
    <3>1. Alive \subseteq Inputs
      BY <1>3, AliveInputs
    <3> QED BY <1>6, <2>1, <2>6, <3>1 DEF Each
  <2> QED BY <1>1, <1>4, <2>4, <2>5, <2>7, WorkerStep
<1> QED BY <1>5, <1>6 DEF Arrival

(* A packet with the controller in its mask: the pad it updates is its own,*)
(* and Home is armed only while Back is held.                              *)
LEMMA ActiveStateStep == ASSUME GamepadsInv, ActiveState PROVE GamepadsInv'
<1>1. /\ queue # <<>> /\ task.kind = "state" /\ Done
      /\ UNCHANGED <<retained, session, open, started, sent>>
  BY DEF ActiveState, Take, clientVars
<1>2. /\ task.inputs \subseteq Alive
      /\ task.inputs \subseteq Inputs
      /\ task.ctrl \in Controllers
      /\ Accounted(Alive, pad, Tail(queue), mask)
      /\ \A p, r \in Each :
            p[1] \in Alive /\ r[1] \in Alive /\ pad[p] # None
                /\ pad[p] = pad[r] => p = r
      /\ \A p \in Each : p[1] \in Alive /\ pad[p] # None => pad[p] \in mask
  BY <1>1, TaskFound
<1>3. TypeOK /\ TimersHold /\ Alive \subseteq Inputs
  BY AliveInputs DEF GamepadsInv
<1>4. PICK i \in task.inputs, s \in Slots :
          /\ \/ pad[<<i, task.ctrl>>] = s /\ UNCHANGED <<pad, mask>>
             \/ Allocated(<<i, task.ctrl>>, s)
          /\ Update(<<i, task.ctrl>>, s, task.back)
  BY DEF ActiveState
<1> DEFINE p == <<i, task.ctrl>>
<1> DEFINE now == Effective(p, task.back)
<1>5. /\ p \in Each /\ p[1] = i /\ i \in Alive
      /\ \A j, k : j \notin task.inputs => <<j, k>> # p
  BY <1>2, <1>4 DEF Each
<1>6. /\ timer' = IF now = held[p] THEN timer
                  ELSE IF now THEN timer \cup {p} ELSE timer \ {p}
      /\ forcedUp' = [forcedUp EXCEPT ![p] = @ /\ task.back]
      /\ held' = [held EXCEPT ![p] = now]
      /\ told' = IF now THEN told \cup {s} ELSE told \ {s}
  BY <1>4 DEF Update, BackTimer
<1>7. now <=> task.back /\ ~forcedUp[p]
  BY DEF Effective
<1>8. /\ now \in BOOLEAN
      /\ (forcedUp[p] /\ task.back) \in BOOLEAN
  BY DEF Effective
<1>9. \/ pad[p] = s /\ UNCHANGED <<pad, mask>>
      \/ /\ s \in Slots \ mask /\ pad[p] = None
         /\ pad' = [pad EXCEPT ![p] = s] /\ mask' = mask \cup {s}
  BY <1>4 DEF Allocated, AllocId
<1> HIDE DEF p, now
<1>10. /\ pad \in [Each -> Slots \cup {None}]
       /\ held \in [Each -> BOOLEAN] /\ forcedUp \in [Each -> BOOLEAN]
  BY <1>3 DEF TypeOK
<1>11. Accounted(Alive, pad', Tail(queue), mask')
  BY <1>2, <1>5, <1>9, <1>10, PluggingBits
<1>12. StateTyped'
  <2>1. /\ pad' \in [Each -> Slots \cup {None}] /\ mask' \in SUBSET Slots
    BY <1>3, <1>9, <1>10 DEF TypeOK
  <2>2. /\ held' \in [Each -> BOOLEAN]
    BY <1>6, <1>8, <1>10
  <2>3. forcedUp' \in [Each -> BOOLEAN]
    BY <1>6, <1>8, <1>10
  <2>4. timer' \in SUBSET Each /\ told' \in SUBSET Slots
    BY <1>3, <1>5, <1>6 DEF TypeOK
  <2> QED BY <1>1, <1>3, <2>1, <2>2, <2>3, <2>4 DEF TypeOK, StateTyped
<1>13. TimersHold'
  <2> SUFFICES ASSUME NEW r \in timer' PROVE held'[r] /\ ~forcedUp'[r]
    BY DEF TimersHold
  <2>1. CASE r # p
    <3>1. r \in timer /\ held'[r] = held[r] /\ forcedUp'[r] = forcedUp[r]
      BY <1>3, <1>6, <1>10, <2>1 DEF TypeOK
    <3> QED BY <1>3, <3>1 DEF TimersHold
  <2>2. CASE r = p
    <3>1. /\ held'[p] = now
          /\ forcedUp'[p] = (forcedUp[p] /\ task.back)
      BY <1>5, <1>6, <1>10
    <3>2. now
      <4>1. CASE now = held[p]
        BY <1>3, <1>6, <2>2, <4>1 DEF TimersHold
      <4>2. CASE now # held[p]
        BY <1>6, <2>2, <4>2
      <4> QED BY <4>1, <4>2
    <3> QED BY <1>7, <2>2, <3>1, <3>2
  <2> QED BY <2>1, <2>2
<1>14. \A j \in Alive \ task.inputs, k \in Controllers :
           /\ pad'[<<j, k>>] = pad[<<j, k>>]
           /\ pad[<<j, k>>] \in told' => pad[<<j, k>>] \in told
  <2> SUFFICES ASSUME NEW j \in Alive \ task.inputs, NEW k \in Controllers
               PROVE  /\ pad'[<<j, k>>] = pad[<<j, k>>]
                      /\ pad[<<j, k>>] \in told' => pad[<<j, k>>] \in told
    OBVIOUS
  <2> DEFINE r == <<j, k>>
  <2>1. r \in Each /\ r # p /\ r[1] \in Alive
    BY <1>3, <1>5 DEF Each
  <2> HIDE DEF r
  <2>2. pad'[r] = pad[r]
    BY <1>9, <1>10, <2>1
  <2>3. pad[r] # s
    BY <1>2, <1>5, <1>9, <2>1, NoneIsNoSlot
  <2>4. pad'[r] = pad[r] /\ (pad[r] \in told' => pad[r] \in told)
    BY <1>6, <2>2, <2>3
  <2> QED BY <2>4 DEF r
<1>15. timer' \subseteq timer \cup (task.inputs \X Controllers)
  BY <1>2, <1>4, <1>6 DEF p
<1> QED BY <1>1, <1>11, <1>12, <1>13, <1>14, <1>15, WorkerStep

(* A packet that finds no pad changes nothing.                             *)
LEMMA IdleStateStep == ASSUME GamepadsInv, IdleState PROVE GamepadsInv'
<1>1. /\ queue # <<>> /\ task.kind = "state" /\ Done
      /\ UNCHANGED <<retained, session, open, started, sent, timer, pad, held,
                     forcedUp, mask, told>>
  BY DEF IdleState, Take, clientVars, padVars
<1>2. Accounted(Alive, pad', Tail(queue), mask')
  BY <1>1, TaskFound
<1>3. StateTyped' /\ TimersHold'
  BY <1>1 DEF GamepadsInv, TypeOK, StateTyped, TimersHold
<1> QED BY <1>1, <1>2, <1>3, WorkerStep

(* The last packet of a controller unplugs its pad.                        *)
LEMMA RemovePadStep == ASSUME GamepadsInv, RemovePad PROVE GamepadsInv'
<1>1. /\ queue # <<>> /\ task.kind = "state" /\ Done
      /\ UNCHANGED <<retained, session, open, started, sent, timer, held,
                     forcedUp>>
  BY DEF RemovePad, Take, clientVars
<1>2. /\ task.inputs \subseteq Alive
      /\ task.inputs \subseteq Inputs
      /\ task.ctrl \in Controllers
      /\ Accounted(Alive, pad, Tail(queue), mask)
  BY <1>1, TaskFound
<1>3. TypeOK /\ TimersHold /\ Alive \subseteq Inputs
  BY AliveInputs DEF GamepadsInv
<1>4. PICK i \in task.inputs :
          /\ pad[<<i, task.ctrl>>] # None
          /\ pad' = [pad EXCEPT ![<<i, task.ctrl>>] = None]
          /\ mask' = mask \ {pad[<<i, task.ctrl>>]}
          /\ told' = told \ {pad[<<i, task.ctrl>>]}
  BY DEF RemovePad
<1> DEFINE p == <<i, task.ctrl>>
<1>5. /\ p \in Each /\ p[1] \in Alive
      /\ \A j, k : j \notin task.inputs => <<j, k>> # p
  BY <1>2, <1>4 DEF Each
<1>6. /\ pad[p] # None
      /\ pad' = [pad EXCEPT ![p] = None]
      /\ mask' = mask \ {pad[p]}
      /\ told' = told \ {pad[p]}
  BY <1>4
<1> HIDE DEF p
<1>7. pad \in [Each -> Slots \cup {None}]
  BY <1>3 DEF TypeOK
<1>8. Accounted(Alive, pad', Tail(queue), mask')
  <2> DEFINE L == {p}
  <2>1. L \in SUBSET OwnedBy(Alive, pad)
    BY <1>5, <1>6 DEF OwnedBy
  <2>2. \A r \in Each : pad'[r] = IF r \in L THEN None ELSE pad[r]
    BY <1>6, <1>7
  <2>3. \A s : s \in mask' <=> s \in mask /\ \A r \in L : s # pad[r]
    BY <1>6
  <2> HIDE DEF L
  <2> QED BY <1>2, <2>1, <2>2, <2>3, UnpluggingBits
<1>9. StateTyped' /\ TimersHold'
  <2>1. pad' \in [Each -> Slots \cup {None}]
    BY <1>6, <1>7
  <2> QED BY <1>1, <1>3, <1>6, <2>1 DEF TypeOK, StateTyped, TimersHold
<1>10. \A j \in Alive \ task.inputs, k \in Controllers :
           /\ pad'[<<j, k>>] = pad[<<j, k>>]
           /\ pad[<<j, k>>] \in told' => pad[<<j, k>>] \in told
  <2>1. \A r \in Each : r # p => pad'[r] = pad[r]
    BY <1>6, <1>7
  <2> QED BY <1>3, <1>5, <1>6, <2>1 DEF Each
<1> QED BY <1>1, <1>8, <1>9, <1>10, WorkerStep

(* Making the pads of a task's input_t objects neutral.                    *)
LEMMA Neutralizing ==
    ASSUME GamepadsInv, queue # <<>>, Neutralize(task.inputs)
    PROVE  /\ timer' \in SUBSET Each /\ timer' \subseteq timer
           /\ held' \in [Each -> BOOLEAN]
           /\ forcedUp' \in [Each -> BOOLEAN]
           /\ told' \in SUBSET Slots /\ told' \subseteq told
           /\ TimersHold'
           /\ \A i \in task.inputs, k \in Controllers :
                 <<i, k>> \notin timer' /\ pad[<<i, k>>] \notin told'
<1>1. /\ timer' = timer \ (task.inputs \X Controllers)
      /\ held' = Cleared(held, task.inputs, FALSE)
      /\ forcedUp' = Cleared(forcedUp, task.inputs, FALSE)
      /\ told' = told \ PadsOf(task.inputs, pad)
  BY DEF Neutralize
<1>2. TypeOK /\ TimersHold /\ task.inputs \subseteq Inputs
  BY TaskFound DEF GamepadsInv
<1>3. /\ held' \in [Each -> BOOLEAN]
      /\ forcedUp' \in [Each -> BOOLEAN]
      /\ \A p \in Each : p[1] \notin task.inputs =>
            held'[p] = held[p] /\ forcedUp'[p] = forcedUp[p]
  <2>1. /\ held \in [Each -> BOOLEAN] /\ forcedUp \in [Each -> BOOLEAN]
    BY <1>2 DEF TypeOK
  <2>2. /\ held' \in [Each -> BOOLEAN]
        /\ \A p \in Each : p[1] \notin task.inputs => held'[p] = held[p]
    BY <1>1, <2>1 DEF Cleared
  <2>3. /\ forcedUp' \in [Each -> BOOLEAN]
        /\ \A p \in Each :
              p[1] \notin task.inputs => forcedUp'[p] = forcedUp[p]
    BY <1>1, <2>1 DEF Cleared
  <2> QED BY <2>2, <2>3
<1>4. /\ timer' \in SUBSET Each /\ timer' \subseteq timer
      /\ \A p \in timer' : p[1] \notin task.inputs
  BY <1>1, <1>2 DEF TypeOK, Each
<1>5. TimersHold'
  BY <1>2, <1>3, <1>4 DEF TimersHold
<1>6. told' \in SUBSET Slots /\ told' \subseteq told
  BY <1>1, <1>2 DEF TypeOK
<1>7. ASSUME NEW i \in task.inputs, NEW k \in Controllers
      PROVE  pad[<<i, k>>] \notin told'
  <2>1. <<i, k>> \in task.inputs \X Controllers
    OBVIOUS
  <2>2. CASE pad[<<i, k>>] = None
    BY <1>6, <2>2, NoneIsNoSlot
  <2>3. CASE pad[<<i, k>>] # None
    BY <1>1, <2>1, <2>3 DEF PadsOf
  <2> QED BY <2>2, <2>3
<1> QED BY <1>3, <1>4, <1>5, <1>6, <1>7

(* reset: the pads of the client are neutral from here on.                 *)
LEMMA ResetGamepadsStep == ASSUME GamepadsInv, ResetGamepads PROVE GamepadsInv'
<1>1. /\ queue # <<>> /\ task.kind = "reset" /\ Done
      /\ Neutralize(task.inputs)
      /\ UNCHANGED <<retained, session, open, started, sent, pad, mask>>
  BY DEF ResetGamepads, Take, clientVars
<1>2. /\ timer' \in SUBSET Each /\ timer' \subseteq timer
      /\ held' \in [Each -> BOOLEAN]
      /\ forcedUp' \in [Each -> BOOLEAN]
      /\ told' \in SUBSET Slots /\ told' \subseteq told
      /\ TimersHold'
      /\ \A i \in task.inputs, k \in Controllers :
            <<i, k>> \notin timer' /\ pad[<<i, k>>] \notin told'
  BY <1>1, Neutralizing
<1>3. Accounted(Alive, pad', Tail(queue), mask')
  BY <1>1, TaskFound
<1>4. StateTyped'
  BY <1>1, <1>2 DEF GamepadsInv, TypeOK, StateTyped
<1>5. \A i \in task.inputs : Neutral(i, timer', pad', told')
  BY <1>1, <1>2 DEF Neutral
<1> QED BY <1>1, <1>2, <1>3, <1>4, <1>5, WorkerStep

(* The pads of the terminated input_t objects are unplugged.               *)
LEMMA DestroyGamepadsStep ==
    ASSUME GamepadsInv, DestroyGamepads PROVE GamepadsInv'
<1>1. /\ queue # <<>> /\ task.kind = "destroy" /\ Done
      /\ Neutralize(task.inputs)
      /\ pad' = Cleared(pad, task.inputs, None)
      /\ mask' = mask \ PadsOf(task.inputs, pad)
      /\ UNCHANGED <<retained, session, open, started, sent>>
  BY DEF DestroyGamepads, Take, clientVars
<1>2. /\ timer' \in SUBSET Each /\ timer' \subseteq timer
      /\ held' \in [Each -> BOOLEAN]
      /\ forcedUp' \in [Each -> BOOLEAN]
      /\ told' \in SUBSET Slots /\ told' \subseteq told
      /\ TimersHold'
  BY <1>1, Neutralizing
<1>3. /\ task.inputs \subseteq Alive
      /\ task.inputs \in SUBSET Inputs
      /\ Accounted(Alive, pad, Tail(queue), mask)
  BY <1>1, TaskFound
<1>4. TypeOK /\ Alive \subseteq Inputs
  BY AliveInputs DEF GamepadsInv
<1>5. /\ pad' \in [Each -> Slots \cup {None}]
      /\ \A p \in Each :
            pad'[p] = IF p[1] \in task.inputs THEN None ELSE pad[p]
  BY <1>1, <1>4 DEF Cleared, TypeOK
<1>6. Accounted(Alive, pad', Tail(queue), mask')
  <2> DEFINE L == OwnedBy(task.inputs, pad)
  <2>1. L \in SUBSET OwnedBy(Alive, pad)
    BY <1>3 DEF OwnedBy
  <2>2. \A p \in Each : pad'[p] = IF p \in L THEN None ELSE pad[p]
    BY <1>5 DEF OwnedBy
  <2>3. \A s : s \in PadsOf(task.inputs, pad) <=> \E p \in L : s = pad[p]
    BY <1>3, PadsOwned
  <2> HIDE DEF L
  <2>4. \A s : s \in mask' <=> s \in mask /\ \A p \in L : s # pad[p]
    BY <1>1, <2>3
  <2> QED BY <1>3, <2>1, <2>2, <2>4, UnpluggingBits
<1>7. StateTyped'
  BY <1>1, <1>2, <1>4, <1>5 DEF TypeOK, StateTyped
<1>8. \A j \in Alive \ task.inputs, k \in Controllers :
          pad'[<<j, k>>] = pad[<<j, k>>]
  BY <1>4, <1>5 DEF Each
<1> QED BY <1>1, <1>2, <1>6, <1>7, <1>8, WorkerStep

(* rebind: pads the platform has lost are unplugged.                       *)
LEMMA RebindInputStep == ASSUME GamepadsInv, RebindInput PROVE GamepadsInv'
<1>1. PICK lost \in SUBSET {p \in task.inputs \X Controllers : pad[p] # None} :
          /\ pad' = [p \in Each |-> IF p \in lost THEN None ELSE pad[p]]
          /\ mask' = mask \ {pad[p] : p \in lost}
          /\ UNCHANGED <<retained, session, clientVars, timer, held, forcedUp,
                         told>>
          /\ Done
  BY DEF RebindInput
<1>2. /\ queue # <<>> /\ task.kind = "rebind" /\ Done
      /\ UNCHANGED <<retained, session, open, started, sent, timer, held,
                     forcedUp, told>>
  BY <1>1 DEF RebindInput, Take, clientVars
<1>3. /\ task.inputs \subseteq Alive
      /\ task.inputs \subseteq Inputs
      /\ Accounted(Alive, pad, Tail(queue), mask)
  BY <1>2, TaskFound
<1>4. TypeOK /\ TimersHold /\ Alive \subseteq Inputs
  BY AliveInputs DEF GamepadsInv
<1>5. /\ pad' \in [Each -> Slots \cup {None}]
      /\ \A p \in Each : pad'[p] = IF p \in lost THEN None ELSE pad[p]
  BY <1>1, <1>4 DEF TypeOK
<1>6. Accounted(Alive, pad', Tail(queue), mask')
  <2>1. lost \in SUBSET OwnedBy(Alive, pad)
    BY <1>3, <1>4 DEF OwnedBy, Each
  <2>2. \A s : s \in mask' <=> s \in mask /\ \A p \in lost : s # pad[p]
    BY <1>1
  <2> QED BY <1>3, <1>5, <2>1, <2>2, UnpluggingBits
<1>7. StateTyped' /\ TimersHold'
  <2>1. mask' \in SUBSET Slots
    BY <1>1, <1>4 DEF TypeOK
  <2> QED BY <1>2, <1>4, <1>5, <2>1 DEF TypeOK, StateTyped, TimersHold
<1>8. \A j \in Alive \ task.inputs, k \in Controllers :
          pad'[<<j, k>>] = pad[<<j, k>>]
  BY <1>4, <1>5 DEF Each
<1> QED BY <1>2, <1>6, <1>7, <1>8, WorkerStep

(* The bits of the pads of a destroyed input_t are cleared.                *)
LEMMA FreePadsStep == ASSUME GamepadsInv, FreePads PROVE GamepadsInv'
<1>1. /\ queue # <<>> /\ task.kind = "free" /\ Done
      /\ mask' = mask \ task.slots
      /\ told' = told \ task.slots
      /\ UNCHANGED <<retained, session, open, started, sent, timer, pad, held,
                     forcedUp>>
  BY DEF FreePads, Take, clientVars, padVars
<1>2. Accounted(Alive, pad', Tail(queue), mask')
  BY <1>1, TaskFound
<1>3. StateTyped' /\ TimersHold'
  BY <1>1 DEF GamepadsInv, TypeOK, StateTyped, TimersHold
<1> QED BY <1>1, <1>2, <1>3, WorkerStep

(* Home is emulated: its timer has gone off with no task queued.           *)
LEMMA HomeStep ==
    ASSUME GamepadsInv, NEW p \in Each, Home(p) PROVE GamepadsInv'
<1>1. /\ queue = <<>> /\ p \in timer /\ Settle(queue)
      /\ timer' = timer \ {p}
      /\ forcedUp' = [forcedUp EXCEPT ![p] = TRUE]
      /\ held' = [held EXCEPT ![p] = FALSE]
      /\ told' = told \ {pad[p]}
      /\ retained' = retained /\ session' = session /\ open' = open
      /\ started' = started /\ sent' = sent /\ pad' = pad /\ mask' = mask
  BY DEF Home, clientVars
<1>2. TypeOK /\ TimersHold
  BY DEF GamepadsInv
<1>3. queue \in Seq(Tasks) /\ Accounted(Alive, pad', queue, mask')
  BY <1>1 DEF GamepadsInv, TypeOK
<1>4. Held(queue, retained', session', timer') \subseteq Alive
  <2> SUFFICES ASSUME NEW i, i \in Held(queue, retained, session, timer')
               PROVE  i \in Held(queue, retained, session, timer)
    BY <1>1 DEF Alive
  <2>1. \/ \E n \in DOMAIN queue : i \in queue[n].inputs
        \/ i \in Inputs /\ \E c \in Clients : i = retained[c] \/ i = session[c]
        \/ \E r \in timer' : i = r[1]
    BY HeldBy
  <2>2. timer' \subseteq timer
    BY <1>1
  <2> QED BY <2>1, <2>2, HeldBy
<1>5. StateTyped'
  BY <1>1, <1>2 DEF TypeOK, StateTyped
<1>6. TimersHold'
  BY <1>1, <1>2 DEF TimersHold, TypeOK
<1>7. OwnInputs'
  BY <1>1 DEF GamepadsInv, OwnInputs
<1>8. \A n \in DOMAIN queue, c \in Clients :
          queue[n].kind = "destroy" => retained'[c] \notin queue[n].inputs
  BY <1>1 DEF GamepadsInv, DestroysLetGo
<1>9. ASSUME NEW c \in Clients, Paused(c)'
      PROVE  \/ ResetLast(queue, retained'[c])
             \/ /\ Untouched(queue, retained'[c])
                /\ Neutral(retained'[c], timer', pad', told')
  <2>1. Paused(c)
    BY <1>1, <1>9 DEF Paused
  <2>2. \/ ResetLast(queue, retained[c])
        \/ Untouched(queue, retained[c]) /\ Neutral(retained[c], timer, pad, told)
    BY <2>1 DEF GamepadsInv, PausesReset
  <2>3. Neutral(retained[c], timer, pad, told)
            => Neutral(retained[c], timer', pad', told')
    BY <1>1 DEF Neutral
  <2> QED BY <1>1, <2>2, <2>3
<1> QED BY <1>1, <1>3, <1>4, <1>5, <1>6, <1>7, <1>8, <1>9, SettleStep

(* The session's slot is erased: it lets go of its input_t.                *)
LEMMA EraseStep ==
    ASSUME GamepadsInv, NEW c \in Clients, Erase(c) PROVE GamepadsInv'
<1>1. /\ c \notin open /\ Settle(queue)
      /\ session' = [session EXCEPT ![c] = None]
      /\ retained' = retained /\ open' = open /\ started' = started
      /\ sent' = sent /\ timer' = timer /\ pad' = pad /\ held' = held
      /\ forcedUp' = forcedUp /\ mask' = mask /\ told' = told
  BY DEF Erase, clientVars, padVars
<1>2. TypeOK /\ TimersHold /\ OwnInputs
  BY DEF GamepadsInv
<1>3. queue \in Seq(Tasks) /\ Accounted(Alive, pad', queue, mask')
  BY <1>1 DEF GamepadsInv, TypeOK
<1>4. /\ session' \in [Clients -> Inputs \cup {None}]
      /\ session'[c] = None
      /\ \A d \in Clients : d # c => session'[d] = session[d]
  BY <1>1, <1>2 DEF TypeOK
<1>5. Held(queue, retained', session', timer') \subseteq Alive
  <2> SUFFICES ASSUME NEW i, i \in Held(queue, retained, session', timer)
               PROVE  i \in Held(queue, retained, session, timer)
    BY <1>1 DEF Alive
  <2>1. \/ \E n \in DOMAIN queue : i \in queue[n].inputs
        \/ i \in Inputs /\ \E d \in Clients : i = retained[d] \/ i = session'[d]
        \/ \E r \in timer : i = r[1]
    BY HeldBy
  <2>2. i \in Inputs => i # None
    BY GamepadsAssumption
  <2> QED BY <1>4, <2>1, <2>2, HeldBy
<1>6. StateTyped' /\ TimersHold'
  BY <1>1, <1>2, <1>4 DEF TypeOK, StateTyped, TimersHold
<1>7. OwnInputs'
  BY <1>1, <1>2, <1>4 DEF OwnInputs
<1>8. \A n \in DOMAIN queue, d \in Clients :
          queue[n].kind = "destroy" => retained'[d] \notin queue[n].inputs
  BY <1>1 DEF GamepadsInv, DestroysLetGo
<1>9. ASSUME NEW d \in Clients, Paused(d)'
      PROVE  \/ ResetLast(queue, retained'[d])
             \/ /\ Untouched(queue, retained'[d])
                /\ Neutral(retained'[d], timer', pad', told')
  <2>1. Paused(d)
    BY <1>1, <1>4, <1>9 DEF Paused
  <2> QED BY <1>1, <2>1 DEF GamepadsInv, PausesReset
<1> QED BY <1>1, <1>3, <1>5, <1>6, <1>7, <1>8, <1>9, SettleStep

(* Steps that push a task, for input_t objects that live, and let go of    *)
(* none that the task does not hold.                                       *)
LEMMA PushStep ==
    ASSUME GamepadsInv, NEW x \in Tasks, x.kind # "free",
           x.inputs \subseteq Alive,
           queue' = Append(queue, x), StateTyped', OwnInputs',
           UNCHANGED <<timer, pad, held, forcedUp, mask, told>>,
           \A i \in Inputs \ x.inputs :
               (\E c \in Clients : i = retained'[c] \/ i = session'[c])
                   <=> \E c \in Clients : i = retained[c] \/ i = session[c],
           \A c \in Clients : retained'[c] \in {None, retained[c]},
           x.kind = "destroy" =>
               \A c \in Clients : retained'[c] \notin x.inputs,
           \A c \in Clients : Paused(c)' =>
               \/ x.kind = "reset" /\ retained'[c] \in x.inputs
               \/ /\ Paused(c) /\ retained'[c] = retained[c]
                  /\ retained[c] \notin x.inputs
    PROVE  GamepadsInv'
<1>1. TypeOK /\ queue \in Seq(Tasks) /\ Alive \subseteq Inputs
  BY AliveInputs DEF GamepadsInv, TypeOK
<1>2. /\ timer' = timer /\ pad' = pad /\ held' = held
      /\ forcedUp' = forcedUp /\ mask' = mask /\ told' = told
  OBVIOUS
<1>3. /\ queue' \in Seq(Tasks)
      /\ DOMAIN queue' = DOMAIN queue \cup {Len(queue) + 1}
      /\ queue'[Len(queue) + 1] = x
      /\ \A n \in DOMAIN queue : queue'[n] = queue[n]
  BY <1>1, PushedAt
<1>4. /\ \A m, s, t, i : i \in Held(queue', m, s, t)
                        <=> i \in Held(queue, m, s, t) \/ i \in x.inputs
      /\ \A i \in Inputs : x.kind = "reset" /\ i \in x.inputs
                        => ResetLast(queue', i)
      /\ \A i \in Inputs : i \notin x.inputs =>
            /\ ResetLast(queue, i) => ResetLast(queue', i)
            /\ Untouched(queue, i) => Untouched(queue', i)
      /\ Accounted(Alive, pad, queue', mask)
  <2>1. Accounted(Alive, pad, queue, mask)
    BY DEF GamepadsInv
  <2> QED BY <1>1, <2>1, Pushing
<1>5. TypeOK'
  BY <1>3 DEF TypeOK, StateTyped
<1>6. ASSUME NEW i
      PROVE  i \in Held(queue', retained', session', timer)
                 <=> i \in Held(queue, retained, session, timer)
  <2>1. i \in x.inputs => i \in Held(queue, retained, session, timer)
    BY DEF Alive
  <2>2. i \in Held(queue', retained', session', timer)
            <=> i \in Held(queue, retained', session', timer) \/ i \in x.inputs
    BY <1>4
  <2>3. i \in Held(queue, retained', session', timer) <=>
            \/ \E n \in DOMAIN queue : i \in queue[n].inputs
            \/ /\ i \in Inputs
               /\ \E c \in Clients : i = retained'[c] \/ i = session'[c]
            \/ \E p \in timer : i = p[1]
    BY HeldBy
  <2>4. i \in Held(queue, retained, session, timer) <=>
            \/ \E n \in DOMAIN queue : i \in queue[n].inputs
            \/ /\ i \in Inputs
               /\ \E c \in Clients : i = retained[c] \/ i = session[c]
            \/ \E p \in timer : i = p[1]
    BY HeldBy
  <2>5. i \in Inputs \ x.inputs =>
            ((\E c \in Clients : i = retained'[c] \/ i = session'[c])
                 <=> \E c \in Clients : i = retained[c] \/ i = session[c])
    OBVIOUS
  <2> QED BY <2>1, <2>2, <2>3, <2>4, <2>5
<1>7. Alive' = Alive
  BY <1>2, <1>6 DEF Alive
<1>8. Accounted(Alive', pad', queue', mask')
  BY <1>2, <1>4, <1>7
<1>9. TimersHold'
  BY <1>2 DEF GamepadsInv, TimersHold
<1>10. DestroysLetGo'
  <2> SUFFICES ASSUME NEW n \in DOMAIN queue', NEW c \in Clients,
                      queue'[n].kind = "destroy"
               PROVE  retained'[c] \notin queue'[n].inputs
    BY DEF DestroysLetGo
  <2>1. CASE n = Len(queue) + 1
    BY <1>3, <2>1
  <2>2. CASE n \in DOMAIN queue
    <3>1. retained[c] \notin queue[n].inputs
      BY <1>3, <2>2 DEF GamepadsInv, DestroysLetGo
    <3>2. None \notin queue[n].inputs
      BY <1>1, <2>2, AliveInputs, GamepadsAssumption
    <3> QED BY <1>3, <2>2, <3>1, <3>2
  <2> QED BY <1>3, <2>1, <2>2
<1>11. PausesReset'
  <2> SUFFICES ASSUME NEW c \in Clients, Paused(c)'
               PROVE  \/ ResetLast(queue', retained'[c])
                      \/ /\ Untouched(queue', retained'[c])
                         /\ Neutral(retained'[c], timer', pad', told')
    BY DEF PausesReset
  <2>1. retained'[c] \in Inputs
    BY <1>5 DEF TypeOK, Paused
  <2>2. CASE x.kind = "reset" /\ retained'[c] \in x.inputs
    BY <1>4, <2>1, <2>2
  <2>3. CASE /\ Paused(c) /\ retained'[c] = retained[c]
             /\ retained[c] \notin x.inputs
    <3>1. \/ ResetLast(queue, retained[c])
          \/ /\ Untouched(queue, retained[c])
             /\ Neutral(retained[c], timer, pad, told)
      BY <2>3 DEF GamepadsInv, PausesReset
    <3> QED BY <1>2, <1>4, <2>1, <2>3, <3>1
  <2> QED BY <2>2, <2>3
<1> QED BY <1>5, <1>8, <1>9, <1>10, <1>11 DEF GamepadsInv

(* A packet for an open session.                                           *)
LEMMA ReceivePacketStep ==
    ASSUME GamepadsInv, NEW c \in Clients, NEW p \in Packets, Receive(c, p)
    PROVE  GamepadsInv'
<1>1. /\ c \in open /\ p.inputs = {session[c]} /\ sent < MaxPackets
      /\ sent' = sent + 1 /\ queue' = Append(queue, p)
      /\ retained' = retained /\ session' = session /\ open' = open
      /\ started' = started
      /\ UNCHANGED <<timer, pad, held, forcedUp, mask, told>>
  BY DEF Receive, padVars
<1>2. TypeOK /\ OwnInputs
  BY DEF GamepadsInv
<1>3. session[c] # None
  BY <1>1, <1>2 DEF OwnInputs
<1>4. p \in Tasks /\ p.kind \in {"arrival", "state"}
  BY DEF Tasks, Packets
<1>5. p.inputs \subseteq Alive
  BY <1>1, <1>2, <1>3, AliveInputs
<1>6. StateTyped'
  <2>1. sent' \in 0 .. MaxPackets
    BY <1>1, <1>2, GamepadsAssumption DEF TypeOK
  <2> QED BY <1>1, <1>2, <2>1 DEF TypeOK, StateTyped
<1>7. OwnInputs'
  BY <1>1, <1>2 DEF OwnInputs
<1>8. ASSUME NEW d \in Clients, Paused(d)'
      PROVE  Paused(d) /\ retained'[d] = retained[d] /\ retained[d] \notin p.inputs
  <2>1. Paused(d) /\ d # c
    BY <1>1, <1>8 DEF Paused
  <2>2. retained[d] # session[c]
    BY <1>2, <1>3, <2>1 DEF OwnInputs, Paused
  <2> QED BY <1>1, <2>1, <2>2
<1> QED BY <1>1, <1>4, <1>5, <1>6, <1>7, <1>8, PushStep

(* The session is joined, and its reset queued.                            *)
LEMMA SessionJoinStep ==
    ASSUME GamepadsInv, NEW c \in Clients, Join(c) PROVE GamepadsInv'
<1> DEFINE x == Lifecycle("reset", {session[c]})
<1>1. /\ c \in open /\ open' = open \ {c} /\ queue' = Append(queue, x)
      /\ retained' = retained /\ session' = session
      /\ started' = started /\ sent' = sent
      /\ UNCHANGED <<timer, pad, held, forcedUp, mask, told>>
  BY DEF Join, padVars
<1>2. TypeOK /\ OwnInputs
  BY DEF GamepadsInv
<1>3. session[c] # None /\ session[c] \in Inputs
  BY <1>1, <1>2 DEF OwnInputs, TypeOK
<1>4. x \in Tasks /\ x.kind = "reset" /\ x.inputs = {session[c]}
  BY <1>3 DEF Tasks, Lifecycle
<1> HIDE DEF x
<1>5. x.inputs \subseteq Alive
  BY <1>2, <1>3, <1>4, AliveInputs
<1>6. StateTyped' /\ OwnInputs'
  BY <1>1, <1>2 DEF TypeOK, StateTyped, OwnInputs
<1>7. ASSUME NEW d \in Clients, Paused(d)'
      PROVE  \/ x.kind = "reset" /\ retained'[d] \in x.inputs
             \/ /\ Paused(d) /\ retained'[d] = retained[d]
                /\ retained[d] \notin x.inputs
  <2>1. retained[d] # None
    BY <1>1, <1>7 DEF Paused
  <2>2. CASE d = c
    BY <1>1, <1>2, <1>3, <1>4, <2>1, <2>2 DEF OwnInputs
  <2>3. CASE d # c
    <3>1. Paused(d)
      BY <1>1, <1>7, <2>3 DEF Paused
    <3>2. retained[d] # session[c]
      BY <1>2, <1>3, <2>3 DEF OwnInputs
    <3> QED BY <1>1, <1>4, <3>1, <3>2
  <2> QED BY <2>2, <2>3
<1> QED BY <1>1, <1>4, <1>5, <1>6, <1>7, PushStep

(* terminate_gamepads: what is to be destroyed is retained no more.        *)
LEMMA TerminateStep ==
    ASSUME GamepadsInv, NEW C \in SUBSET Clients, TerminateGamepads(C)
    PROVE  GamepadsInv'
<1> DEFINE x == Lifecycle("destroy", Terminated(C))
<1>1. /\ queue' = Append(queue, x)
      /\ retained' = [c \in Clients |-> IF c \in C THEN None ELSE retained[c]]
      /\ session' = session /\ open' = open
      /\ started' = started /\ sent' = sent
      /\ UNCHANGED <<timer, pad, held, forcedUp, mask, told>>
  BY DEF TerminateGamepads, padVars, clientVars
<1>2. TypeOK /\ OwnInputs
  BY DEF GamepadsInv
<1>3. Terminated(C) \subseteq Inputs
  BY <1>2 DEF Terminated, TypeOK
<1>4. x \in Tasks /\ x.kind = "destroy" /\ x.inputs = Terminated(C)
  BY <1>3 DEF Tasks, Lifecycle
<1> HIDE DEF x
<1>5. \A i : i \in x.inputs <=> i # None /\ \E c \in C : i = retained[c]
  BY <1>4 DEF Terminated
<1>6. x.inputs \subseteq Alive
  BY <1>2, <1>5, AliveInputs
<1>7. \A c \in Clients : retained'[c] = IF c \in C THEN None ELSE retained[c]
  BY <1>1
<1>8. StateTyped'
  <2>1. retained' \in [Clients -> Inputs \cup {None}]
    BY <1>1, <1>2 DEF TypeOK
  <2> QED BY <1>1, <1>2, <2>1 DEF TypeOK, StateTyped
<1>9. OwnInputs'
  <2>1. open' \subseteq {c \in Clients : session'[c] # None}
    BY <1>1, <1>2 DEF OwnInputs
  <2>2. \A c \in Clients :
            session'[c] # None => retained'[c] \in {None, session'[c]}
    BY <1>1, <1>2, <1>7 DEF OwnInputs
  <2>3. ASSUME NEW c \in Clients, NEW d \in Clients, c # d
        PROVE  {retained'[c], session'[c]} \cap {retained'[d], session'[d]}
                   \subseteq {None}
    <3>1. {retained[c], session[c]} \cap {retained[d], session[d]}
              \subseteq {None}
      BY <1>2, <2>3 DEF OwnInputs
    <3> QED BY <1>1, <1>7, <3>1
  <2> QED BY <2>1, <2>2, <2>3 DEF OwnInputs
<1>10. ASSUME NEW c \in Clients, NEW d \in C,
              retained'[c] # None, retained[d] = retained'[c]
       PROVE  FALSE
  <2>1. c # d /\ retained'[c] = retained[c]
    BY <1>7, <1>10
  <2> QED BY <1>2, <1>10, <2>1 DEF OwnInputs
<1>11. \A c \in Clients : retained'[c] \notin x.inputs
  BY <1>5, <1>10
<1>12. ASSUME NEW i \in Inputs \ x.inputs
       PROVE  (\E c \in Clients : i = retained'[c] \/ i = session'[c])
                  <=> \E c \in Clients : i = retained[c] \/ i = session[c]
  <2>1. i # None
    BY GamepadsAssumption
  <2>2. \A c \in Clients : i = retained'[c] <=> i = retained[c]
    BY <1>5, <1>7, <1>12, <2>1
  <2> QED BY <1>1, <2>2
<1>13. ASSUME NEW c \in Clients, Paused(c)'
       PROVE  Paused(c) /\ retained'[c] = retained[c] /\ retained[c] \notin x.inputs
  <2>1. retained'[c] # None
    BY <1>13 DEF Paused
  <2> QED BY <1>1, <1>7, <1>11, <1>13, <2>1 DEF Paused
<1> QED BY <1>1, <1>4, <1>6, <1>7, <1>8, <1>9, <1>11, <1>12, <1>13, PushStep

(* alloc: a client that was here before takes up its input_t.              *)
LEMMA StartAgainStep ==
    ASSUME GamepadsInv, NEW c \in Clients, Start(c), retained[c] # None
    PROVE  GamepadsInv'
<1> DEFINE x == Lifecycle("rebind", {retained[c]})
<1>1. /\ session[c] = None /\ started < MaxSessions
      /\ started' = started + 1 /\ open' = open \cup {c}
      /\ session' = [session EXCEPT ![c] = retained[c]]
      /\ queue' = Append(queue, x)
      /\ retained' = retained /\ sent' = sent
      /\ UNCHANGED <<timer, pad, held, forcedUp, mask, told>>
  BY DEF Start, padVars
<1>2. TypeOK /\ OwnInputs
  BY DEF GamepadsInv
<1>3. retained[c] \in Inputs
  BY <1>2 DEF TypeOK
<1>4. x \in Tasks /\ x.kind = "rebind" /\ x.inputs = {retained[c]}
  BY <1>3 DEF Tasks, Lifecycle
<1> HIDE DEF x
<1>5. x.inputs \subseteq Alive
  BY <1>2, <1>4, AliveInputs
<1>6. /\ session' \in [Clients -> Inputs \cup {None}]
      /\ session'[c] = retained[c]
      /\ \A d \in Clients : d # c => session'[d] = session[d]
  BY <1>1, <1>2 DEF TypeOK
<1>7. StateTyped'
  <2>1. started' \in 0 .. MaxSessions
    BY <1>1, <1>2, GamepadsAssumption DEF TypeOK
  <2> QED BY <1>1, <1>2, <1>6, <2>1 DEF TypeOK, StateTyped
<1>8. OwnInputs'
  <2>1. open' \subseteq {d \in Clients : session'[d] # None}
    BY <1>1, <1>2, <1>6 DEF OwnInputs
  <2>2. \A d \in Clients :
            session'[d] # None => retained'[d] \in {None, session'[d]}
    BY <1>1, <1>2, <1>6 DEF OwnInputs
  <2>3. ASSUME NEW d \in Clients, NEW e \in Clients, d # e
        PROVE  {retained'[d], session'[d]} \cap {retained'[e], session'[e]}
                   \subseteq {None}
    <3>1. {retained[d], session[d]} \cap {retained[e], session[e]}
              \subseteq {None}
      BY <1>2, <2>3 DEF OwnInputs
    <3> QED BY <1>1, <1>6, <2>3, <3>1
  <2> QED BY <2>1, <2>2, <2>3 DEF OwnInputs
<1>9. ASSUME NEW i \in Inputs \ x.inputs
      PROVE  (\E d \in Clients : i = retained'[d] \/ i = session'[d])
                 <=> \E d \in Clients : i = retained[d] \/ i = session[d]
  <2>1. i # None /\ i # retained[c]
    BY <1>4, <1>9, GamepadsAssumption
  <2>2. \A d \in Clients : i = session'[d] <=> i = session[d]
    BY <1>1, <1>6, <2>1
  <2> QED BY <1>1, <2>2
<1>10. ASSUME NEW d \in Clients, Paused(d)'
       PROVE  Paused(d) /\ retained'[d] = retained[d] /\ retained[d] \notin x.inputs
  <2>1. Paused(d) /\ d # c
    BY <1>1, <1>6, <1>10 DEF Paused
  <2>2. retained[d] # retained[c]
    BY <1>2, <1>3, <2>1 DEF OwnInputs, Paused
  <2> QED BY <1>1, <1>4, <2>1, <2>2
<1> QED BY <1>1, <1>4, <1>5, <1>7, <1>8, <1>9, <1>10, PushStep

(* alloc: a new input_t, which nobody holds and which has no pads.         *)
LEMMA StartFreshStep ==
    ASSUME GamepadsInv, NEW c \in Clients, Start(c), retained[c] = None
    PROVE  GamepadsInv'
<1>1. PICK i \in Inputs \ Alive :
          /\ session' = [session EXCEPT ![c] = i]
          /\ retained' = [retained EXCEPT ![c] = i]
          /\ pad' = Cleared(pad, {i}, None)
          /\ held' = Cleared(held, {i}, FALSE)
          /\ forcedUp' = Cleared(forcedUp, {i}, FALSE)
  BY DEF Start
<1>2. /\ session[c] = None /\ started < MaxSessions
      /\ started' = started + 1 /\ open' = open \cup {c}
      /\ queue' = queue /\ sent' = sent /\ timer' = timer
      /\ mask' = mask /\ told' = told
  BY DEF Start
<1>3. /\ TypeOK /\ OwnInputs /\ TimersHold
      /\ Accounted(Alive, pad, queue, mask)
  BY DEF GamepadsInv
<1>4. /\ Alive \subseteq Inputs
      /\ \A d \in Clients : /\ retained[d] # None => retained[d] \in Alive
                            /\ session[d] # None => session[d] \in Alive
      /\ \A p \in timer : p[1] \in Alive
      /\ \A n \in DOMAIN queue : queue[n].inputs \subseteq Alive
  BY <1>3, AliveInputs
<1>5. /\ session' \in [Clients -> Inputs \cup {None}]
      /\ retained' \in [Clients -> Inputs \cup {None}]
      /\ session'[c] = i /\ retained'[c] = i
      /\ \A d \in Clients : d # c => /\ session'[d] = session[d]
                                     /\ retained'[d] = retained[d]
  BY <1>1, <1>3 DEF TypeOK
<1>6. /\ pad' \in [Each -> Slots \cup {None}]
      /\ \A p \in Each : pad'[p] = IF p[1] = i THEN None ELSE pad[p]
  BY <1>1, <1>3 DEF TypeOK, Cleared
<1>7. /\ held' \in [Each -> BOOLEAN]
      /\ \A p \in Each : p[1] # i => held'[p] = held[p]
  BY <1>1, <1>3 DEF TypeOK, Cleared
<1>8. /\ forcedUp' \in [Each -> BOOLEAN]
      /\ \A p \in Each : p[1] # i => forcedUp'[p] = forcedUp[p]
  BY <1>1, <1>3 DEF TypeOK, Cleared
<1>9. TypeOK'
  <2>1. started' \in 0 .. MaxSessions
    BY <1>2, <1>3, GamepadsAssumption DEF TypeOK
  <2> QED BY <1>2, <1>3, <1>5, <1>6, <1>7, <1>8, <2>1 DEF TypeOK
<1>10. i \notin Alive /\ i # None
  BY <1>1, GamepadsAssumption
<1>11. Accounted(Alive', pad', queue', mask')
  <2>1. \A j : j \in Alive' => j \in Alive \/ j = i
    <3> SUFFICES ASSUME NEW j, j \in Held(queue, retained', session', timer)
                 PROVE  j \in Held(queue, retained, session, timer) \/ j = i
      BY <1>2 DEF Alive
    <3>1. \/ \E n \in DOMAIN queue : j \in queue[n].inputs
          \/ /\ j \in Inputs
             /\ \E d \in Clients : j = retained'[d] \/ j = session'[d]
          \/ \E p \in timer : j = p[1]
      BY HeldBy
    <3> QED BY <1>5, <3>1, HeldBy
  <2>2. \A j : j \in Alive => j \in Alive'
    <3> SUFFICES ASSUME NEW j, j \in Held(queue, retained, session, timer)
                 PROVE  j \in Held(queue, retained', session', timer)
      BY <1>2 DEF Alive
    <3>1. \/ \E n \in DOMAIN queue : j \in queue[n].inputs
          \/ j \in Inputs /\ \E d \in Clients : j = retained[d] \/ j = session[d]
          \/ \E p \in timer : j = p[1]
      BY HeldBy
    <3>2. j \in Inputs => j # None
      BY GamepadsAssumption
    <3> QED BY <1>2, <1>5, <3>1, <3>2, HeldBy
  <2>3. /\ OwnedBy(Alive', pad') = OwnedBy(Alive, pad)
        /\ \A p \in OwnedBy(Alive, pad) : pad'[p] = pad[p]
    BY <1>6, <1>10, <2>1, <2>2 DEF OwnedBy
  <2> QED BY <1>2, <1>3, <2>3 DEF Accounted
<1>12. TimersHold'
  BY <1>2, <1>3, <1>4, <1>7, <1>8, <1>10 DEF TimersHold, TypeOK
<1>13. OwnInputs'
  <2>1. open' \subseteq {d \in Clients : session'[d] # None}
    BY <1>2, <1>3, <1>5, <1>10 DEF OwnInputs
  <2>2. \A d \in Clients :
            session'[d] # None => retained'[d] \in {None, session'[d]}
    BY <1>3, <1>5 DEF OwnInputs
  <2>3. ASSUME NEW d \in Clients, NEW e \in Clients, d # e
        PROVE  {retained'[d], session'[d]} \cap {retained'[e], session'[e]}
                   \subseteq {None}
    <3>1. {retained[d], session[d]} \cap {retained[e], session[e]}
              \subseteq {None}
      BY <1>3, <2>3 DEF OwnInputs
    <3>2. /\ i \notin {retained[d], session[d]}
          /\ i \notin {retained[e], session[e]}
      BY <1>4, <1>10
    <3> QED BY <1>5, <2>3, <3>1, <3>2
  <2> QED BY <2>1, <2>2, <2>3 DEF OwnInputs
<1>14. DestroysLetGo'
  BY <1>2, <1>4, <1>5, <1>10 DEF GamepadsInv, DestroysLetGo
<1>15. PausesReset'
  <2> SUFFICES ASSUME NEW d \in Clients, Paused(d)'
               PROVE  \/ ResetLast(queue', retained'[d])
                      \/ /\ Untouched(queue', retained'[d])
                         /\ Neutral(retained'[d], timer', pad', told')
    BY DEF PausesReset
  <2>1. Paused(d) /\ retained'[d] = retained[d] /\ retained[d] # None
    BY <1>2, <1>5 DEF Paused
  <2>2. \/ ResetLast(queue, retained[d])
        \/ Untouched(queue, retained[d]) /\ Neutral(retained[d], timer, pad, told)
    BY <2>1 DEF GamepadsInv, PausesReset
  <2>3. \A k \in Controllers : pad'[<<retained[d], k>>] = pad[<<retained[d], k>>]
    BY <1>4, <1>6, <1>10, <2>1 DEF Each
  <2>4. Neutral(retained[d], timer, pad, told)
            => Neutral(retained[d], timer', pad', told')
    BY <1>2, <2>3 DEF Neutral
  <2> QED BY <1>2, <2>1, <2>2, <2>4
<1> QED BY <1>9, <1>11, <1>12, <1>13, <1>14, <1>15 DEF GamepadsInv

(* The initial states satisfy the invariant: there is no input_t yet.      *)
LEMMA GamepadsInitInv == Init => GamepadsInv
<1> SUFFICES ASSUME Init PROVE GamepadsInv
  OBVIOUS
<1>1. TypeOK
  BY GamepadsAssumption DEF Init, TypeOK
<1>2. /\ DOMAIN queue = {} /\ timer = {} /\ mask = {} /\ open = {}
      /\ \A p \in Each : pad[p] = None
      /\ \A c \in Clients : retained[c] = None /\ session[c] = None
  BY DEF Init
<1>3. FreesOf(queue) = {} /\ OwnedBy(Alive, pad) = {}
  BY <1>2 DEF FreesOf, OwnedBy
<1>4. Accounted(Alive, pad, queue, mask)
  BY <1>2, <1>3 DEF Accounted
<1>5. TimersHold /\ OwnInputs /\ DestroysLetGo
  BY <1>2 DEF TimersHold, OwnInputs, DestroysLetGo
<1>6. PausesReset
  BY <1>2 DEF PausesReset, Paused
<1> QED BY <1>1, <1>4, <1>5, <1>6 DEF GamepadsInv

(* Every step preserves the invariant.                                     *)
LEMMA GamepadsNextInv == GamepadsInv /\ [Next]_vars => GamepadsInv'
<1> SUFFICES ASSUME GamepadsInv, [Next]_vars PROVE GamepadsInv'
  OBVIOUS
<1>1. ASSUME NEW c \in Clients, Start(c) PROVE GamepadsInv'
  BY <1>1, StartAgainStep, StartFreshStep
<1>2. ASSUME NEW c \in Clients, Join(c) PROVE GamepadsInv'
  BY <1>2, SessionJoinStep
<1>3. ASSUME NEW c \in Clients, Erase(c) PROVE GamepadsInv'
  BY <1>3, EraseStep
<1>4. ASSUME NEW c \in Clients, NEW p \in Packets, Receive(c, p)
      PROVE  GamepadsInv'
  BY <1>4, ReceivePacketStep
<1>5. ASSUME NEW C \in {Clients} \cup {{c} : c \in Clients}, TerminateGamepads(C)
      PROVE  GamepadsInv'
  <2>1. C \in SUBSET Clients
    OBVIOUS
  <2> QED BY <1>5, <2>1, TerminateStep
<1>6. CASE Worker
  BY <1>6, ArrivalStep, ActiveStateStep, IdleStateStep, RemovePadStep,
     ResetGamepadsStep, DestroyGamepadsStep, RebindInputStep, FreePadsStep
  DEF Worker
<1>7. ASSUME NEW p \in Each, Home(p) PROVE GamepadsInv'
  BY <1>7, HomeStep
<1>8. CASE UNCHANGED vars
  <2>1. /\ retained' = retained /\ session' = session /\ open' = open
        /\ started' = started /\ sent' = sent /\ queue' = queue
        /\ timer' = timer /\ pad' = pad /\ held' = held
        /\ forcedUp' = forcedUp /\ mask' = mask /\ told' = told
    BY <1>8 DEF vars, clientVars, padVars
  <2>2. Alive' = Alive
    BY <2>1 DEF Alive
  <2>3. TypeOK' /\ Accounted(Alive', pad', queue', mask')
    BY <2>1, <2>2 DEF GamepadsInv, TypeOK
  <2>4. TimersHold' /\ OwnInputs' /\ DestroysLetGo'
    BY <2>1 DEF GamepadsInv, TimersHold, OwnInputs, DestroysLetGo
  <2>5. PausesReset'
    BY <2>1 DEF GamepadsInv, PausesReset, Paused
  <2> QED BY <2>3, <2>4, <2>5 DEF GamepadsInv
<1> QED BY <1>1, <1>2, <1>3, <1>4, <1>5, <1>6, <1>7, <1>8 DEF Next

(* The invariant holds in every reachable state.                           *)
THEOREM GamepadsSpecInv == Spec => []GamepadsInv
<1>1. Init => GamepadsInv
  BY GamepadsInitInv
<1>2. GamepadsInv /\ [Next]_vars => GamepadsInv'
  BY GamepadsNextInv
<1> QED BY <1>1, <1>2, PTL DEF Spec

(* gamepadMask: each bit has one owner, a pad of a living input_t or a     *)
(* task that frees it; none leaks and none is given twice.                 *)
THEOREM SlotsHaveOneOwner == Spec => []SlotsAccounted
<1>1. GamepadsInv => SlotsAccounted
  <2> SUFFICES ASSUME GamepadsInv PROVE SlotsAccounted
    OBVIOUS
  <2>1. OwnedByPads = OwnedBy(Alive, pad) /\ Frees = FreesOf(queue)
    BY DEF OwnedByPads, OwnedBy, Frees, FreesOf
  <2>2. TypeOK /\ Accounted(Alive, pad, queue, mask)
    BY DEF GamepadsInv
  <2>3. mask = {pad[p] : p \in OwnedByPads}
                   \cup UNION {queue[n].slots : n \in Frees}
    BY <2>1, <2>2 DEF Accounted
  <2> QED BY <2>1, <2>2, <2>3 DEF SlotsAccounted, Accounted
<1> QED BY <1>1, GamepadsSpecInv, PTL

(* Once the reset of a paused client has run its pads are neutral at the   *)
(* platform, and no Home is on its way, until the client comes back.       *)
THEOREM PausedPadsNeutral == Spec => []NeutralWhenPaused
<1>1. GamepadsInv => NeutralWhenPaused
  <2> SUFFICES ASSUME GamepadsInv, queue = <<>>,
                      NEW c \in Clients, NEW k \in Controllers, Paused(c)
               PROVE  /\ <<retained[c], k>> \notin timer
                      /\ pad[<<retained[c], k>>] \notin told
    BY DEF NeutralWhenPaused
  <2>1. DOMAIN queue = {}
    OBVIOUS
  <2>2. ~ResetLast(queue, retained[c])
    BY <2>1 DEF ResetLast
  <2>3. Neutral(retained[c], timer, pad, told)
    BY <2>2 DEF GamepadsInv, PausesReset
  <2> QED BY <2>3 DEF Neutral
<1> QED BY <1>1, GamepadsSpecInv, PTL

(* A pause unplugs no pad of a client whose app goes on, whatever else the *)
(* worker has queued: a destroy does not concern it, and slots that are    *)
(* freed belong to others.                                                 *)
LEMMA PadsSurviveStep ==
    ASSUME GamepadsInv, Next, NEW c \in Clients, NEW k \in Controllers,
           retained[c] # None, retained'[c] = retained[c],
           pad[<<retained[c], k>>] # None
    PROVE  \/ pad'[<<retained[c], k>>] = pad[<<retained[c], k>>]
           \/ Head(queue).kind = "rebind"
           \/ Head(queue).kind = "state" /\ ~Head(queue).active
<1> DEFINE p == <<retained[c], k>>
<1>1. /\ TypeOK /\ OwnInputs
      /\ retained[c] \in Alive /\ p \in Each /\ p[1] = retained[c]
  <2>1. TypeOK /\ OwnInputs
    BY DEF GamepadsInv
  <2>2. retained[c] \in Alive /\ retained[c] \in Inputs
    BY <2>1, AliveInputs
  <2> QED BY <2>1, <2>2 DEF Each
<1> HIDE DEF p
<1>2. pad \in [Each -> Slots \cup {None}] /\ pad[p] # None
  BY <1>1 DEF TypeOK, p
<1> SUFFICES \/ pad'[p] = pad[p]
             \/ Head(queue).kind = "rebind"
             \/ Head(queue).kind = "state" /\ ~Head(queue).active
  BY DEF p
<1>3. ASSUME NEW d \in Clients, Start(d) PROVE pad'[p] = pad[p]
  <2>1. CASE retained[d] = None
    <3>1. PICK i \in Inputs \ Alive : pad' = Cleared(pad, {i}, None)
      BY <1>3, <2>1 DEF Start
    <3> QED BY <1>1, <1>2, <3>1 DEF Cleared
  <2>2. CASE retained[d] # None
    BY <1>3, <2>2 DEF Start, padVars
  <2> QED BY <2>1, <2>2
<1>4. ASSUME NEW i, NEW s, Allocated(<<i, task.ctrl>>, s)
      PROVE  pad'[p] = pad[p]
  <2> DEFINE r == <<i, task.ctrl>>
  <2>1. pad[r] = None /\ pad' = [pad EXCEPT ![r] = s]
    BY <1>4 DEF Allocated
  <2> HIDE DEF r
  <2> QED BY <1>1, <1>2, <2>1
<1>5. CASE Arrival
  BY <1>4, <1>5 DEF Arrival
<1>6. CASE ActiveState
  BY <1>4, <1>6 DEF ActiveState
<1>7. CASE RemovePad
  BY <1>7 DEF RemovePad, Take, task
<1>8. CASE RebindInput
  BY <1>8 DEF RebindInput, Take, task
<1>9. CASE DestroyGamepads
  <2>1. /\ queue # <<>> /\ task.kind = "destroy"
        /\ pad' = Cleared(pad, task.inputs, None)
    BY <1>9 DEF DestroyGamepads, Take
  <2>2. 1 \in DOMAIN queue /\ queue[1] = task
    BY <1>1, <2>1, TakenAt DEF TypeOK, task
  <2>3. retained[c] \notin task.inputs
    BY <2>1, <2>2 DEF GamepadsInv, DestroysLetGo
  <2> QED BY <1>1, <1>2, <2>1, <2>3 DEF Cleared
<1>10. CASE IdleState \/ ResetGamepads \/ FreePads
  BY <1>10 DEF IdleState, ResetGamepads, FreePads, padVars
<1>11. ASSUME NEW d \in Clients, Join(d) \/ Erase(d) PROVE pad'[p] = pad[p]
  BY <1>11 DEF Join, Erase, padVars
<1>12. ASSUME NEW d \in Clients, NEW x \in Packets, Receive(d, x)
       PROVE  pad'[p] = pad[p]
  BY <1>12 DEF Receive, padVars
<1>13. ASSUME NEW C, TerminateGamepads(C) PROVE pad'[p] = pad[p]
  BY <1>13 DEF TerminateGamepads, padVars
<1>14. ASSUME NEW r \in Each, Home(r) PROVE pad'[p] = pad[p]
  BY <1>14 DEF Home
<1> QED BY <1>3, <1>5, <1>6, <1>7, <1>8, <1>9, <1>10, <1>11, <1>12, <1>13, <1>14
        DEF Next, Worker

(* A pause does not unplug the pads of a client whose app goes on.         *)
THEOREM PadsSurvive == Spec => PadsSurvivePause
<1> DEFINE Survives ==
        \A c \in Clients, k \in Controllers :
            LET p == <<retained[c], k>> IN
            retained[c] # None /\ retained'[c] = retained[c] /\ pad[p] # None =>
                \/ pad'[p] = pad[p]
                \/ Head(queue).kind = "rebind"
                \/ Head(queue).kind = "state" /\ ~Head(queue).active
<1>1. GamepadsInv /\ [Next]_vars => [Survives]_vars
  BY PadsSurviveStep
<1>2. [][Survives]_vars => PadsSurvivePause
  BY PTL DEF PadsSurvivePause
<1> HIDE DEF Survives
<1> QED BY <1>1, <1>2, GamepadsSpecInv, PTL DEF Spec

-----------------------------------------------------------------------------
(* The packet queue: folds over a sequence, as traces.                     *)

(* Squeezing s, one element after the other.                               *)
LEMMA SqueezeTrace ==
    ASSUME NEW S, NEW s \in Seq(S)
    PROVE  \E e \in [0 .. Len(s) -> Seq(S)] :
              /\ e[0] = <<>> /\ e[Len(s)] = Squeeze(s)
              /\ \A m \in 1 .. Len(s) : e[m] = Squeezed(e[m - 1], s[m])
<1> DEFINE n == Len(s)
           Chosen(f) == f = [t \in SUBSET (1 .. n) |->
                               IF t = {} THEN <<>>
                               ELSE Squeezed(f[t \ {Max(t)}], s[Max(t)])]
           h == [p \in (1 .. n) \X Seq(S) |-> Squeezed(p[2], s[p[1]])]
           f == CHOOSE g : Chosen(g)
<1>1. n \in Nat /\ DOMAIN s = 1 .. n /\ \A m \in 1 .. n : s[m] \in S
  OBVIOUS
<1>2. \A r \in Seq(S), x \in S : Squeezed(r, x) \in Seq(S)
  BY DEF Squeezed
<1>3. h \in [(1 .. n) \X Seq(S) -> Seq(S)]
  BY <1>1, <1>2
<1>4. \E g : Chosen(g)
  <2> HIDE DEF n, h
  <2>1. PICK g \in [SUBSET (1 .. n) -> Seq(S)] : Folds(g, n, <<>>, h)
    <3>1. <<>> \in Seq(S)
      OBVIOUS
    <3> QED BY <1>1, <1>3, <3>1, FoldExists
  <2>2. ASSUME NEW t \in SUBSET (1 .. n), t # {}
        PROVE  h[<<Max(t), g[t \ {Max(t)}]>>] =
                   Squeezed(g[t \ {Max(t)}], s[Max(t)])
    <3>1. Max(t) \in 1 .. n
      BY <1>1, <2>2, GreatestPosition
    <3>2. g[t \ {Max(t)}] \in Seq(S)
      BY <2>1
    <3> QED BY <3>1, <3>2 DEF h
  <2>3. Chosen(g)
    BY <2>1, <2>2 DEF Folds
  <2> QED BY <2>3
<1>5. Chosen(f)
  BY <1>4
<1>6. Squeeze(s) = f[1 .. n]
  BY <1>1 DEF Squeeze, FoldLeft, MapThenFoldSet
<1> HIDE DEF f, n
<1>7. f[{}] = <<>>
  BY <1>5
<1>8. ASSUME NEW m \in 1 .. n
      PROVE  f[1 .. m] = Squeezed(f[1 .. (m - 1)], s[m])
  <2>1. Max(1 .. m) = m /\ (1 .. m) \ {m} = 1 .. (m - 1) /\ 1 .. m # {}
    BY <1>1, PrefixMax
  <2>2. 1 .. m \in SUBSET (1 .. n)
    BY <1>1
  <2> QED BY <1>5, <2>1, <2>2
<1>9. \A m \in 1 .. n, r \in Seq(S) : h[<<m, r>>] = Squeezed(r, s[m])
  OBVIOUS
<1> HIDE DEF h
<1>10. HasTrace(f, n, Seq(S), <<>>, h)
  <2> DEFINE V == Seq(S)
             base == <<>>
  <2>1. Follows(f, n, V, base, h)
    BY <1>3, <1>7, <1>8, <1>9 DEF Follows
  <2>2. n \in Nat /\ base \in V
    BY <1>1
  <2> HIDE DEF V, base
  <2>3. HasTrace(f, n, V, base, h)
    BY <2>1, <2>2, FoldPrefixes
  <2> QED BY <2>3 DEF V, base
<1>11. PICK e \in [0 .. n -> Seq(S)] :
           /\ e[0] = <<>> /\ e[n] = f[1 .. n]
           /\ \A m \in 1 .. n : e[m] = h[<<m, e[m - 1]>>]
  BY <1>10 DEF HasTrace
<1>12. ASSUME NEW m \in 1 .. n PROVE e[m] = Squeezed(e[m - 1], s[m])
  <2>1. m - 1 \in 0 .. n
    BY <1>1
  <2> QED BY <1>9, <1>11, <2>1
<1> QED BY <1>6, <1>11, <1>12 DEF n

(* One more element is squeezed last.                                      *)
LEMMA SqueezeAppend ==
    ASSUME NEW S, NEW s \in Seq(S), NEW x \in S
    PROVE  /\ Squeeze(s) \in Seq(S)
           /\ Squeeze(Append(s, x)) = Squeezed(Squeeze(s), x)
<1> DEFINE n == Len(s)
           q == Append(s, x)
<1>1. /\ n \in Nat /\ q \in Seq(S) /\ Len(q) = n + 1
      /\ q[n + 1] = x /\ \A m \in 1 .. n : q[m] = s[m]
  OBVIOUS
<1>2. PICK e \in [0 .. n -> Seq(S)] :
          /\ e[0] = <<>> /\ e[n] = Squeeze(s)
          /\ \A m \in 1 .. n : e[m] = Squeezed(e[m - 1], s[m])
  BY SqueezeTrace
<1> HIDE DEF n, q
<1>3. PICK d \in [0 .. n + 1 -> Seq(S)] :
          /\ d[0] = <<>> /\ d[n + 1] = Squeeze(q)
          /\ \A m \in 1 .. n + 1 : d[m] = Squeezed(d[m - 1], q[m])
  <2>1. \E d \in [0 .. Len(q) -> Seq(S)] :
            /\ d[0] = <<>> /\ d[Len(q)] = Squeeze(q)
            /\ \A m \in 1 .. Len(q) : d[m] = Squeezed(d[m - 1], q[m])
    BY <1>1, SqueezeTrace, Zenon
  <2>2. Len(q) = n + 1
    BY <1>1
  <2> QED BY <2>1, <2>2
<1> DEFINE P == {m \in 0 .. n : d[m] = e[m]}
<1>4. 0 .. n \subseteq P
  <2>1. 0 \in P
    BY <1>1, <1>2, <1>3
  <2>2. ASSUME NEW m \in 1 .. n, m - 1 \in P PROVE m \in P
    <3>1. m \in 1 .. n + 1 /\ m \in 0 .. n
      BY <1>1
    <3>2. d[m - 1] = e[m - 1] /\ q[m] = s[m]
      BY <1>1, <2>2
    <3> QED BY <1>2, <1>3, <3>1, <3>2
  <2> HIDE DEF P
  <2> QED BY <1>1, <2>1, <2>2, UpTo
<1>5. d[n] = e[n] /\ n + 1 \in 1 .. n + 1 /\ (n + 1) - 1 = n /\ n \in 0 .. n
  BY <1>1, <1>4
<1> QED BY <1>1, <1>2, <1>3, <1>5 DEF q

(* The last element of what is squeezed.                                   *)
LEMMA SqueezeLast ==
    ASSUME NEW S, NEW s \in Seq(S), NEW k \in DOMAIN s, s[k] # <<>>,
           \A m \in DOMAIN s : m > k => s[m] \in {<<>>, s[k]}
    PROVE  Squeeze(s) # <<>> /\ Last(Squeeze(s)) = s[k]
<1> DEFINE n == Len(s)
<1>1. n \in Nat /\ DOMAIN s = 1 .. n /\ \A m \in 1 .. n : s[m] \in S
  OBVIOUS
<1>2. PICK e \in [0 .. n -> Seq(S)] :
          /\ e[0] = <<>> /\ e[n] = Squeeze(s)
          /\ \A m \in 1 .. n : e[m] = Squeezed(e[m - 1], s[m])
  BY SqueezeTrace
<1> HIDE DEF n
<1>3. \A r \in Seq(S), x \in S :
          Append(r, x) # <<>> /\ Last(Append(r, x)) = x
  BY DEF Last
<1> DEFINE P == {m \in 0 .. n : m < k \/ (e[m] # <<>> /\ Last(e[m]) = s[k])}
<1>4. 0 .. n \subseteq P
  <2>1. 0 \in P
    BY <1>1
  <2>2. ASSUME NEW m \in 1 .. n, m - 1 \in P PROVE m \in P
    <3>1. e[m] = Squeezed(e[m - 1], s[m]) /\ e[m - 1] \in Seq(S) /\ s[m] \in S
      <4>1. m - 1 \in 0 .. n
        BY <1>1
      <4> QED BY <1>1, <1>2, <4>1
    <3>2. CASE m < k
      BY <1>1, <3>2
    <3>3. CASE m = k
      <4>1. s[m] = s[k] /\ s[m] # <<>>
        BY <3>3
      <4>2. \/ e[m] = e[m - 1] /\ e[m - 1] # <<>> /\ Last(e[m - 1]) = s[k]
            \/ e[m] = Append(e[m - 1], s[k])
        BY <3>1, <4>1 DEF Squeezed
      <4>3. /\ Append(e[m - 1], s[k]) # <<>>
            /\ Last(Append(e[m - 1], s[k])) = s[k]
        <5>1. s[k] \in S /\ e[m - 1] \in Seq(S)
          BY <3>1, <4>1
        <5> QED BY <1>3, <5>1, Zenon
      <4>4. e[m] # <<>> /\ Last(e[m]) = s[k]
        BY <4>2, <4>3, Zenon
      <4> QED BY <1>1, <4>4
    <3>4. CASE m > k
      <4>1. e[m - 1] # <<>> /\ Last(e[m - 1]) = s[k] /\ s[m] \in {<<>>, s[k]}
        BY <1>1, <2>2, <3>4
      <4> QED BY <1>1, <3>1, <3>4, <4>1 DEF Squeezed
    <3> QED BY <1>1, <3>2, <3>3, <3>4
  <2> HIDE DEF P
  <2> QED BY <1>1, <2>1, <2>2, UpTo
<1>5. n \in P /\ ~(n < k)
  <2>1. n \in 0 .. n /\ k \in 1 .. n
    BY <1>1
  <2> QED BY <1>4, <2>1
<1> QED BY <1>2, <1>5

-----------------------------------------------------------------------------
(* The packet queue: deltas, which are counted modulo 2 * Half.            *)

(* The only multiple of K between -K and K is 0.                           *)
LEMMA SmallMultiple ==
    ASSUME NEW K \in Nat \ {0}, NEW q \in Int, K * q \in (1 - K) .. (K - 1)
    PROVE  q = 0
<1>1. q >= 1 => K * q >= K
  BY Z3
<1>2. q <= -1 => K * q <= -K
  BY Z3
<1> QED BY <1>1, <1>2, Z3

(* The remainder is the only number below K that differs by a multiple.    *)
LEMMA ModUnique ==
    ASSUME NEW K \in Nat \ {0}, NEW q \in Int, NEW r \in 0 .. K - 1
    PROVE  (K * q + r) % K = r
<1> DEFINE a == K * q + r
<1>1. a \in Int
  OBVIOUS
<1>2. a % K \in 0 .. K - 1 /\ a \div K \in Int
  BY <1>1
<1>3. a = K * (a \div K) + (a % K)
  BY <1>1
<1>4. K * (q - (a \div K)) = (a % K) - r
  BY <1>2, <1>3, Z3
<1>5. K * (q - (a \div K)) \in (1 - K) .. (K - 1) /\ q - (a \div K) \in Int
  BY <1>2, <1>4
<1>6. q - (a \div K) = 0
  BY <1>5, SmallMultiple
<1> QED BY <1>2, <1>4, <1>6, Z3

(* Adding or taking away the modulus changes no remainder.                 *)
LEMMA ModShift ==
    ASSUME NEW K \in Nat \ {0}, NEW a \in Int
    PROVE  (a + K) % K = a % K /\ (a - K) % K = a % K
<1>1. a % K \in 0 .. K - 1 /\ a \div K \in Int
  OBVIOUS
<1>2. a = K * (a \div K) + (a % K)
  OBVIOUS
<1>3. a + K = K * ((a \div K) + 1) + (a % K)
  BY <1>1, <1>2, Z3
<1>4. a - K = K * ((a \div K) - 1) + (a % K)
  BY <1>1, <1>2, Z3
<1>5. (a \div K) + 1 \in Int /\ (a \div K) - 1 \in Int
  BY <1>1
<1>6. (K * ((a \div K) + 1) + (a % K)) % K = a % K
  BY <1>1, <1>5, ModUnique
<1>7. (K * ((a \div K) - 1) + (a % K)) % K = a % K
  BY <1>1, <1>5, ModUnique
<1> QED BY <1>3, <1>4, <1>6, <1>7

(* The sum of two shorts, wrapped, is a short and off by 0 or 2 * Half.    *)
LEMMA WrapSum ==
    ASSUME NEW m \in Shorts, NEW n \in Shorts
    PROVE  /\ Wrap(m + n) \in Shorts
           /\ (m + n) - Wrap(m + n) \in {0, 2 * Half, -(2 * Half)}
<1>1. Half \in Nat \ {0} /\ m \in -Half .. Half - 1 /\ n \in -Half .. Half - 1
  BY QueueAssumption DEF Shorts
<1> DEFINE K == 2 * Half
           a == m + n + Half
<1>2. K \in Nat \ {0} /\ a \in Int /\ -K < a /\ a < 2 * K
  BY <1>1
<1>3. a >= K => a - K \in 0 .. K - 1
  BY <1>2
<1>4. a < 0 => a + K \in 0 .. K - 1
  BY <1>2
<1> HIDE DEF K, a
<1>5. \A r \in 0 .. K - 1 : r % K = r
  BY <1>2, Z3
<1>6. a % K \in 0 .. K - 1 /\ a % K \in {a, a - K, a + K}
  <2>1. a \in 0 .. K - 1 => a % K = a
    BY <1>5
  <2>2. (a + K) % K = a % K /\ (a - K) % K = a % K
    BY <1>2, ModShift
  <2> QED BY <1>2, <1>3, <1>4, <1>5, <2>1, <2>2
<1> QED BY <1>1, <1>6 DEF Wrap, Shorts, K, a

(* A sum, one number after the other.                                      *)
LEMMA SumTrace ==
    ASSUME NEW s \in Seq(Int)
    PROVE  \E e \in [0 .. Len(s) -> Int] :
              /\ e[0] = 0 /\ e[Len(s)] = FoldLeft(Plus, 0, s)
              /\ \A m \in 1 .. Len(s) : e[m] = Plus(e[m - 1], s[m])
<1> DEFINE n == Len(s)
           Chosen(f) == f = [t \in SUBSET (1 .. n) |->
                               IF t = {} THEN 0
                               ELSE Plus(f[t \ {Max(t)}], s[Max(t)])]
           h == [p \in (1 .. n) \X Int |-> Plus(p[2], s[p[1]])]
           f == CHOOSE g : Chosen(g)
<1>1. n \in Nat /\ DOMAIN s = 1 .. n /\ \A m \in 1 .. n : s[m] \in Int
  OBVIOUS
<1>2. 0 \in Int
  OBVIOUS
<1>3. \A r \in Int, x \in Int : Plus(r, x) \in Int
  BY DEF Plus
<1>4. h \in [(1 .. n) \X Int -> Int]
  BY <1>1, <1>3
<1>5. \E g : Chosen(g)
  <2> HIDE DEF n, h
  <2>1. PICK g \in [SUBSET (1 .. n) -> Int] : Folds(g, n, 0, h)
    BY <1>1, <1>2, <1>4, FoldExists
  <2>2. ASSUME NEW t \in SUBSET (1 .. n), t # {}
        PROVE  h[<<Max(t), g[t \ {Max(t)}]>>] =
                   Plus(g[t \ {Max(t)}], s[Max(t)])
    <3>1. Max(t) \in 1 .. n
      BY <1>1, <2>2, GreatestPosition
    <3>2. g[t \ {Max(t)}] \in Int
      BY <2>1
    <3> QED BY <3>1, <3>2 DEF h
  <2>3. Chosen(g)
    BY <2>1, <2>2 DEF Folds
  <2> QED BY <2>3
<1>6. Chosen(f)
  BY <1>5
<1>7. FoldLeft(Plus, 0, s) = f[1 .. n]
  BY <1>1 DEF FoldLeft, MapThenFoldSet
<1> HIDE DEF f, n
<1>8. f[{}] = 0
  BY <1>6
<1>9. ASSUME NEW m \in 1 .. n
      PROVE  f[1 .. m] = Plus(f[1 .. (m - 1)], s[m])
  <2>1. Max(1 .. m) = m /\ (1 .. m) \ {m} = 1 .. (m - 1) /\ 1 .. m # {}
    BY <1>1, PrefixMax
  <2>2. 1 .. m \in SUBSET (1 .. n)
    BY <1>1
  <2> QED BY <1>6, <2>1, <2>2
<1>10. \A m \in 1 .. n, r \in Int : h[<<m, r>>] = Plus(r, s[m])
  OBVIOUS
<1> HIDE DEF h
<1>11. HasTrace(f, n, Int, 0, h)
  <2> DEFINE V == Int
             base == 0
  <2>1. Follows(f, n, V, base, h)
    BY <1>4, <1>8, <1>9, <1>10 DEF Follows
  <2>2. n \in Nat /\ base \in V
    BY <1>1, <1>2
  <2> HIDE DEF V, base
  <2>3. HasTrace(f, n, V, base, h)
    BY <2>1, <2>2, FoldPrefixes
  <2> QED BY <2>3 DEF V, base
<1>12. PICK e \in [0 .. n -> Int] :
           /\ e[0] = 0 /\ e[n] = f[1 .. n]
           /\ \A m \in 1 .. n : e[m] = h[<<m, e[m - 1]>>]
  BY <1>11 DEF HasTrace
<1>13. ASSUME NEW m \in 1 .. n PROVE e[m] = Plus(e[m - 1], s[m])
  <2>1. m - 1 \in 0 .. n
    BY <1>1
  <2> QED BY <1>10, <1>12, <2>1
<1> QED BY <1>7, <1>12, <1>13 DEF n

(* One more number is added last.                                          *)
LEMMA SumAppend ==
    ASSUME NEW s \in Seq(Int), NEW x \in Int
    PROVE  /\ FoldLeft(Plus, 0, s) \in Int
           /\ FoldLeft(Plus, 0, Append(s, x)) = FoldLeft(Plus, 0, s) + x
<1> DEFINE n == Len(s)
           q == Append(s, x)
           Sum(t) == FoldLeft(Plus, 0, t)
<1>1. /\ n \in Nat /\ q \in Seq(Int) /\ Len(q) = n + 1
      /\ q[n + 1] = x /\ \A m \in 1 .. n : q[m] = s[m]
  OBVIOUS
<1>2. PICK e \in [0 .. n -> Int] :
          /\ e[0] = 0 /\ e[n] = Sum(s)
          /\ \A m \in 1 .. n : e[m] = Plus(e[m - 1], s[m])
  BY SumTrace
<1> HIDE DEF n, q
<1>3. PICK d \in [0 .. n + 1 -> Int] :
          /\ d[0] = 0 /\ d[n + 1] = Sum(q)
          /\ \A m \in 1 .. n + 1 : d[m] = Plus(d[m - 1], q[m])
  <2>1. \E d \in [0 .. Len(q) -> Int] :
            /\ d[0] = 0 /\ d[Len(q)] = Sum(q)
            /\ \A m \in 1 .. Len(q) : d[m] = Plus(d[m - 1], q[m])
    BY <1>1, SumTrace, Zenon
  <2>2. Len(q) = n + 1
    BY <1>1
  <2> QED BY <2>1, <2>2
<1> HIDE DEF Sum
<1> DEFINE P == {m \in 0 .. n : d[m] = e[m]}
<1>4. 0 .. n \subseteq P
  <2>1. 0 \in P
    BY <1>1, <1>2, <1>3
  <2>2. ASSUME NEW m \in 1 .. n, m - 1 \in P PROVE m \in P
    <3>1. m \in 1 .. n + 1 /\ m \in 0 .. n
      BY <1>1
    <3>2. d[m - 1] = e[m - 1] /\ q[m] = s[m]
      BY <1>1, <2>2
    <3> QED BY <1>2, <1>3, <3>1, <3>2
  <2> HIDE DEF P
  <2> QED BY <1>1, <2>1, <2>2, UpTo
<1>5. d[n] = e[n] /\ n + 1 \in 1 .. n + 1 /\ (n + 1) - 1 = n /\ n \in 0 .. n
  BY <1>1, <1>4
<1>6. Sum(q) = Sum(s) + x /\ Sum(s) \in Int
  BY <1>1, <1>2, <1>3, <1>5 DEF Plus
<1> QED BY <1>6 DEF Sum, q

-----------------------------------------------------------------------------
(* The packet queue: what batch() guarantees.                              *)

(* What the worker passes on: a packet received, or a sum of such.         *)
Sendable == InputPackets \cup RelativePackets

(* A packet of a relative kind has its deltas; they are shorts.            *)
LEMMA RelativeDeltas ==
    ASSUME NEW p \in Sendable
    PROVE  /\ Delta(p) \in Int
           /\ p.kind \in RelativeKinds =>
                  /\ p \in RelativePackets
                  /\ Delta(p) \in Shorts /\ Delta(p) = p.dx
<1>1. p.kind \in RelativeKinds => p \in RelativePackets
  BY QueueAssumption DEF Sendable, RelativePackets, RelativeKinds
<1>2. \A r \in RelativePackets : r.dx \in Shorts
  BY DEF RelativePackets
<1>3. Shorts \subseteq Int
  BY QueueAssumption DEF Shorts
<1>4. p.kind \in RelativeKinds => Delta(p) = p.dx
  BY DEF Delta
<1>5. p.kind \notin RelativeKinds => Delta(p) \in Int
  BY DEF Delta
<1>6. p.kind \in RelativeKinds => p.dx \in Shorts /\ p.dx \in Int
  BY <1>1, <1>2, <1>3
<1> QED BY <1>1, <1>4, <1>5, <1>6

(* The sum of two relative packets is one of the same kind.                *)
LEMMA RelativeMerge ==
    ASSUME NEW dest \in Sendable, NEW src \in Sendable,
           dest.kind \in RelativeKinds, src.kind = dest.kind
    PROVE  /\ Merge(dest, src) \in RelativePackets
           /\ Merge(dest, src).kind = dest.kind
           /\ Merge(dest, src).dx = Wrap(dest.dx + src.dx)
<1>1. dest \in RelativePackets /\ src \in RelativePackets
  BY RelativeDeltas
<1>2. dest.dx \in Shorts /\ src.dx \in Shorts
  BY <1>1 DEF RelativePackets
<1>3. Wrap(dest.dx + src.dx) \in Shorts
  BY <1>2, WrapSum
<1>4. CASE dest.kind = "rel"
  <2>1. /\ dest \in [kind : {"rel"}, dx : Shorts, dy : Shorts]
        /\ src \in [kind : {"rel"}, dx : Shorts, dy : Shorts]
    BY <1>1, <1>4 DEF RelativePackets
  <2>2. Wrap(dest.dy + src.dy) \in Shorts
    BY <2>1, WrapSum
  <2>3. Merge(dest, src) = [dest EXCEPT !.dx = Wrap(dest.dx + src.dx),
                                        !.dy = Wrap(dest.dy + src.dy)]
    BY <1>4 DEF Merge
  <2> QED BY <1>3, <2>1, <2>2, <2>3 DEF RelativePackets
<1>5. CASE dest.kind \in {"scroll", "hscroll"}
  <2>1. dest \in [kind : {"scroll", "hscroll"}, dx : Shorts]
    BY <1>1, <1>5 DEF RelativePackets
  <2>2. Merge(dest, src) = [dest EXCEPT !.dx = Wrap(dest.dx + src.dx)]
    BY <1>5 DEF Merge
  <2> QED BY <1>3, <2>1, <2>2 DEF RelativePackets
<1> QED BY <1>4, <1>5 DEF RelativeKinds

(* A packet is batched only into one like it.                              *)
LEMMA BatchedAlike ==
    ASSUME NEW dest \in Sendable, NEW src \in InputPackets,
           Batch(dest, src) = "batched"
    PROVE  /\ src.kind = dest.kind
           /\ Device(src) = Device(dest)
           /\ Mode(src) = Mode(dest)
           /\ dest.kind \in RelativeKinds =>
                  Overflows(Delta(dest), Delta(src))
           /\ dest.kind \notin RelativeKinds => Merge(dest, src) = src
<1>1. src.kind = dest.kind
  BY DEF Batch
<1>2. CASE dest.kind = "rel"
  <2>1. Overflows(dest.dx, src.dx)
    BY <1>1, <1>2 DEF Batch, BatchRel
  <2> QED BY <1>1, <1>2, <2>1 DEF Device, Mode, Delta, RelativeKinds
<1>3. CASE dest.kind \in {"scroll", "hscroll"}
  <2>1. Overflows(dest.dx, src.dx)
    BY <1>1, <1>3 DEF Batch, BatchScroll
  <2> QED BY <1>1, <1>3, <2>1 DEF Device, Mode, Delta, RelativeKinds
<1>4. CASE dest.kind = "abs"
  BY <1>1, <1>4 DEF Batch, BatchAbs, Device, Mode, Merge, RelativeKinds
<1>5. CASE dest.kind = "pad"
  BY <1>1, <1>5 DEF Batch, BatchPad, Device, Mode, Merge, RelativeKinds
<1>6. CASE dest.kind = "touch"
  BY <1>1, <1>6 DEF Batch, BatchTouch, Device, Mode, Merge, RelativeKinds
<1>7. CASE dest.kind = "pen"
  BY <1>1, <1>7 DEF Batch, BatchPen, Device, Mode, Merge, RelativeKinds
<1>8. CASE dest.kind = "padtouch"
  BY <1>1, <1>8 DEF Batch, BatchPadTouch, Device, Mode, Merge, RelativeKinds
<1>9. CASE dest.kind = "motion"
  BY <1>1, <1>9 DEF Batch, BatchMotion, Device, Mode, Merge, RelativeKinds
<1> QED BY <1>2, <1>3, <1>4, <1>5, <1>6, <1>7, <1>8, <1>9 DEF Batch

(* So what becomes of it is one more like it.                              *)
LEMMA MergedAlike ==
    ASSUME NEW dest \in Sendable, NEW src \in InputPackets,
           Batch(dest, src) = "batched"
    PROVE  /\ Merge(dest, src) \in Sendable
           /\ Merge(dest, src).kind = dest.kind
           /\ Device(Merge(dest, src)) = Device(dest)
           /\ Mode(Merge(dest, src)) = Mode(dest)
           /\ dest.kind \in RelativeKinds =>
                  Delta(Merge(dest, src)) = Wrap(Delta(dest) + Delta(src))
<1> DEFINE merged == Merge(dest, src)
<1>1. /\ src.kind = dest.kind /\ Device(src) = Device(dest)
      /\ Mode(src) = Mode(dest)
      /\ dest.kind \notin RelativeKinds => merged = src
      /\ src \in Sendable
  BY BatchedAlike DEF Sendable
<1>2. CASE dest.kind \in RelativeKinds
  <2>1. /\ merged \in RelativePackets /\ merged.kind = dest.kind
        /\ merged.dx = Wrap(dest.dx + src.dx)
    BY <1>1, <1>2, RelativeMerge
  <2> HIDE DEF merged
  <2>2. Device(merged) = Device(dest) /\ Mode(merged) = Mode(dest)
    BY <1>2, <2>1 DEF Device, Mode, RelativeKinds
  <2>3. Delta(merged) = Wrap(Delta(dest) + Delta(src))
    BY <1>1, <1>2, <2>1 DEF Delta
  <2>4. merged \in Sendable
    BY <2>1 DEF Sendable
  <2> QED BY <2>1, <2>2, <2>3, <2>4 DEF merged
<1>3. CASE dest.kind \notin RelativeKinds
  BY <1>1, <1>3
<1> QED BY <1>2, <1>3

(* A packet is passed over only if it is about another device.             *)
LEMMA PassedOver ==
    ASSUME NEW dest \in Sendable, NEW src \in InputPackets,
           Batch(dest, src) = "not_batchable"
    PROVE  /\ src.kind = dest.kind
           /\ Device(src) # Device(dest)
           /\ dest.kind \notin RelativeKinds
<1>1. src.kind = dest.kind
  BY DEF Batch
<1>2. dest.kind \in {"pad", "touch", "padtouch", "motion"}
  BY <1>1 DEF Batch, BatchRel, BatchScroll, BatchAbs, BatchPen
<1>3. CASE dest.kind = "pad"
  BY <1>1, <1>3 DEF Batch, BatchPad, Device, RelativeKinds
<1>4. CASE dest.kind = "touch"
  BY <1>1, <1>4 DEF Batch, BatchTouch, Device, RelativeKinds
<1>5. CASE dest.kind = "padtouch"
  BY <1>1, <1>5 DEF Batch, BatchPadTouch, Device, RelativeKinds
<1>6. CASE dest.kind = "motion"
  BY <1>1, <1>6 DEF Batch, BatchMotion, Device, RelativeKinds
<1> QED BY <1>2, <1>3, <1>4, <1>5, <1>6

-----------------------------------------------------------------------------
(* The packet queue: one run of the worker's loop, as a trace.             *)

DrainStates ==
    [sent : Sendable, kept : Seq(InputPackets), stopped : BOOLEAN]

DrainStart(first) == [sent |-> first, kept |-> <<>>, stopped |-> FALSE]

(* What the loop does with a packet.                                       *)
LEMMA DrainCases ==
    ASSUME NEW s \in DrainStates, NEW p \in InputPackets
    PROVE  \/ /\ ~s.stopped /\ Batch(s.sent, p) = "batched"
              /\ DrainOne(s, p) = [sent |-> Merge(s.sent, p),
                                   kept |-> s.kept, stopped |-> FALSE]
           \/ /\ s.stopped \/ Batch(s.sent, p) = "not_batchable"
              /\ DrainOne(s, p) = [sent |-> s.sent, kept |-> Append(s.kept, p),
                                   stopped |-> s.stopped]
           \/ DrainOne(s, p) = [sent |-> s.sent, kept |-> Append(s.kept, p),
                                stopped |-> TRUE]
<1>1. s = [sent |-> s.sent, kept |-> s.kept, stopped |-> s.stopped]
  BY DEF DrainStates
<1>2. s.stopped \in BOOLEAN
  BY DEF DrainStates
<1>3. CASE s.stopped \/ Batch(s.sent, p) = "not_batchable"
  <2>1. DrainOne(s, p) = [s EXCEPT !.kept = Append(s.kept, p)]
    BY <1>3 DEF DrainOne
  <2> QED BY <1>1, <1>3, <2>1
<1>4. CASE ~s.stopped /\ Batch(s.sent, p) = "batched"
  <2>1. DrainOne(s, p) = [s EXCEPT !.sent = Merge(s.sent, p)]
    BY <1>4 DEF DrainOne
  <2>2. s.stopped = FALSE
    BY <1>2, <1>4
  <2> QED BY <1>1, <1>4, <2>1, <2>2
<1>5. CASE /\ ~(s.stopped \/ Batch(s.sent, p) = "not_batchable")
           /\ ~(~s.stopped /\ Batch(s.sent, p) = "batched")
  <2>1. DrainOne(s, p) =
            [s EXCEPT !.kept = Append(s.kept, p), !.stopped = TRUE]
    BY <1>5 DEF DrainOne
  <2> QED BY <1>1, <2>1
<1> QED BY <1>3, <1>4, <1>5

LEMMA DrainOneType ==
    ASSUME NEW s \in DrainStates, NEW p \in InputPackets
    PROVE  DrainOne(s, p) \in DrainStates
<1>1. /\ s.sent \in Sendable /\ s.kept \in Seq(InputPackets)
      /\ s.stopped \in BOOLEAN
  BY DEF DrainStates
<1>2. Append(s.kept, p) \in Seq(InputPackets)
  BY <1>1
<1>3. Batch(s.sent, p) = "batched" => Merge(s.sent, p) \in Sendable
  BY <1>1, MergedAlike
<1>4. \A q \in Sendable, kept \in Seq(InputPackets), stopped \in BOOLEAN :
          [sent |-> q, kept |-> kept, stopped |-> stopped] \in DrainStates
  BY DEF DrainStates
<1> HIDE DEF Sendable
<1> QED BY <1>1, <1>2, <1>3, <1>4, DrainCases

(* Draining the packets s behind the first, one after the other.            *)
LEMMA DrainTrace ==
    ASSUME NEW first \in Sendable, NEW s \in Seq(InputPackets)
    PROVE  \E e \in [0 .. Len(s) -> DrainStates] :
              /\ e[0] = DrainStart(first) /\ e[Len(s)] = Drain(first, s)
              /\ \A m \in 1 .. Len(s) : e[m] = DrainOne(e[m - 1], s[m])
<1> DEFINE n == Len(s)
           Chosen(f) == f = [t \in SUBSET (1 .. n) |->
                               IF t = {} THEN DrainStart(first)
                               ELSE DrainOne(f[t \ {Max(t)}], s[Max(t)])]
           h == [p \in (1 .. n) \X DrainStates |-> DrainOne(p[2], s[p[1]])]
           f == CHOOSE g : Chosen(g)
<1>1. n \in Nat /\ DOMAIN s = 1 .. n /\ \A m \in 1 .. n : s[m] \in InputPackets
  OBVIOUS
<1>2. DrainStart(first) \in DrainStates
  BY DEF DrainStart, DrainStates
<1>3. \A r \in DrainStates, x \in InputPackets : DrainOne(r, x) \in DrainStates
  BY DrainOneType
<1>4. h \in [(1 .. n) \X DrainStates -> DrainStates]
  BY <1>1, <1>3
<1>5. \E g : Chosen(g)
  <2> HIDE DEF n, h
  <2>1. PICK g \in [SUBSET (1 .. n) -> DrainStates] :
            Folds(g, n, DrainStart(first), h)
    BY <1>1, <1>2, <1>4, FoldExists
  <2>2. ASSUME NEW t \in SUBSET (1 .. n), t # {}
        PROVE  h[<<Max(t), g[t \ {Max(t)}]>>] =
                   DrainOne(g[t \ {Max(t)}], s[Max(t)])
    <3>1. Max(t) \in 1 .. n
      BY <1>1, <2>2, GreatestPosition
    <3>2. g[t \ {Max(t)}] \in DrainStates
      BY <2>1
    <3> QED BY <3>1, <3>2 DEF h
  <2>3. Chosen(g)
    BY <2>1, <2>2 DEF Folds
  <2> QED BY <2>3
<1>6. Chosen(f)
  BY <1>5
<1>7. Drain(first, s) = f[1 .. n]
  BY <1>1 DEF Drain, DrainStart, FoldLeft, MapThenFoldSet
<1> HIDE DEF f, n
<1>8. f[{}] = DrainStart(first)
  BY <1>6
<1>9. ASSUME NEW m \in 1 .. n
      PROVE  f[1 .. m] = DrainOne(f[1 .. (m - 1)], s[m])
  <2>1. Max(1 .. m) = m /\ (1 .. m) \ {m} = 1 .. (m - 1) /\ 1 .. m # {}
    BY <1>1, PrefixMax
  <2>2. 1 .. m \in SUBSET (1 .. n)
    BY <1>1
  <2> QED BY <1>6, <2>1, <2>2
<1>10. \A m \in 1 .. n, r \in DrainStates : h[<<m, r>>] = DrainOne(r, s[m])
  OBVIOUS
<1> HIDE DEF h
<1>11. HasTrace(f, n, DrainStates, DrainStart(first), h)
  <2> DEFINE V == DrainStates
             base == DrainStart(first)
  <2>1. Follows(f, n, V, base, h)
    BY <1>4, <1>8, <1>9, <1>10 DEF Follows
  <2>2. n \in Nat /\ base \in V
    BY <1>1, <1>2
  <2> HIDE DEF V, base
  <2>3. HasTrace(f, n, V, base, h)
    BY <2>1, <2>2, FoldPrefixes
  <2> QED BY <2>3 DEF V, base
<1>12. PICK e \in [0 .. n -> DrainStates] :
           /\ e[0] = DrainStart(first) /\ e[n] = f[1 .. n]
           /\ \A m \in 1 .. n : e[m] = h[<<m, e[m - 1]>>]
  BY <1>11 DEF HasTrace
<1>13. ASSUME NEW m \in 1 .. n PROVE e[m] = DrainOne(e[m - 1], s[m])
  <2>1. m - 1 \in 0 .. n
    BY <1>1
  <2> QED BY <1>10, <1>12, <2>1
<1> QED BY <1>7, <1>12, <1>13 DEF n

-----------------------------------------------------------------------------
(* The packet queue: what its properties say of a stream of packets.       *)

(* A function on the first n numbers is a sequence.                        *)
LEMMA FunctionIsSeq ==
    ASSUME NEW S, NEW n \in Nat, NEW f \in [1 .. n -> S]
    PROVE  f \in Seq(S) /\ Len(f) = n
<1> QED OBVIOUS

(* When a sequence is another with one element more.                       *)
LEMMA IsAppend ==
    ASSUME NEW S, NEW s \in Seq(S), NEW x \in S, NEW t \in Seq(S),
           Len(t) = Len(s) + 1, \A i \in 1 .. Len(s) : t[i] = s[i],
           t[Len(s) + 1] = x
    PROVE  t = Append(s, x)
<1> DEFINE q == Append(s, x)
<1>1. /\ q \in Seq(S) /\ Len(q) = Len(s) + 1 /\ Len(s) \in Nat
      /\ \A i \in 1 .. Len(s) : q[i] = s[i]
      /\ q[Len(s) + 1] = x
  OBVIOUS
<1> HIDE DEF q
<1>2. ASSUME NEW i \in 1 .. Len(t) PROVE t[i] = q[i]
  BY <1>1
<1>3. Len(t) = Len(q)
  BY <1>1
<1>4. t = q
  BY <1>1, <1>2, <1>3, SeqEqual
<1> QED BY <1>4 DEF q

(* The modes of a device along a stream with one packet more.              *)
LEMMA ModesAppend ==
    ASSUME NEW s \in Seq(Sendable), NEW p \in Sendable, NEW d
    PROVE  /\ Modes(d, s) \in Seq({<<Mode(q)>> : q \in Sendable} \cup {<<>>})
           /\ Modes(d, Append(s, p)) =
                  Append(Modes(d, s),
                         IF Device(p) = d THEN <<Mode(p)>> ELSE <<>>)
<1> DEFINE M == {<<Mode(q)>> : q \in Sendable} \cup {<<>>}
           At(q) == IF Device(q) = d THEN <<Mode(q)>> ELSE <<>>
           t == Append(s, p)
           n == Len(s)
<1>1. \A q \in Sendable : At(q) \in M
  OBVIOUS
<1>2. /\ n \in Nat /\ DOMAIN s = 1 .. n /\ \A i \in 1 .. n : s[i] \in Sendable
      /\ DOMAIN t = 1 .. n + 1 /\ t[n + 1] = p
      /\ \A i \in 1 .. n : t[i] = s[i] /\ i \in 1 .. n + 1
      /\ \A i \in 1 .. n + 1 : t[i] \in Sendable
  OBVIOUS
<1> HIDE DEF M, n, t
<1>3. /\ Modes(d, s) = [i \in 1 .. n |-> At(s[i])]
      /\ Modes(d, t) = [i \in 1 .. n + 1 |-> At(t[i])]
  BY <1>2 DEF Modes
<1> HIDE DEF At
<1>4. Modes(d, s) \in [1 .. n -> M] /\ Modes(d, t) \in [1 .. n + 1 -> M]
  BY <1>1, <1>2, <1>3
<1>5. Modes(d, s) \in Seq(M) /\ Len(Modes(d, s)) = n
  BY <1>2, <1>4, FunctionIsSeq
<1>6. Modes(d, t) \in Seq(M) /\ Len(Modes(d, t)) = n + 1
  BY <1>2, <1>4, FunctionIsSeq
<1>7. /\ \A i \in 1 .. n : Modes(d, t)[i] = Modes(d, s)[i]
      /\ Modes(d, t)[n + 1] = At(p)
  BY <1>2, <1>3
<1>8. Modes(d, t) = Append(Modes(d, s), At(p))
  BY <1>1, <1>5, <1>6, <1>7, IsAppend
<1> QED BY <1>5, <1>8 DEF M, At, t

(* The kinds along a stream with one packet more.                          *)
LEMMA KindsAppend ==
    ASSUME NEW s \in Seq(Sendable), NEW p \in Sendable
    PROVE  /\ Kinds(s) \in Seq({<<q.kind>> : q \in Sendable})
           /\ Kinds(Append(s, p)) = Append(Kinds(s), <<p.kind>>)
<1> DEFINE M == {<<q.kind>> : q \in Sendable}
           t == Append(s, p)
           n == Len(s)
<1>1. \A q \in Sendable : <<q.kind>> \in M
  OBVIOUS
<1>2. /\ n \in Nat /\ DOMAIN s = 1 .. n /\ \A i \in 1 .. n : s[i] \in Sendable
      /\ DOMAIN t = 1 .. n + 1 /\ t[n + 1] = p
      /\ \A i \in 1 .. n : t[i] = s[i] /\ i \in 1 .. n + 1
      /\ \A i \in 1 .. n + 1 : t[i] \in Sendable
  OBVIOUS
<1> HIDE DEF M, n, t
<1>3. /\ Kinds(s) = [i \in 1 .. n |-> <<s[i].kind>>]
      /\ Kinds(t) = [i \in 1 .. n + 1 |-> <<t[i].kind>>]
  BY <1>2 DEF Kinds
<1>4. Kinds(s) \in [1 .. n -> M] /\ Kinds(t) \in [1 .. n + 1 -> M]
  BY <1>1, <1>2, <1>3
<1>5. Kinds(s) \in Seq(M) /\ Len(Kinds(s)) = n
  BY <1>2, <1>4, FunctionIsSeq
<1>6. Kinds(t) \in Seq(M) /\ Len(Kinds(t)) = n + 1
  BY <1>2, <1>4, FunctionIsSeq
<1>7. /\ \A i \in 1 .. n : Kinds(t)[i] = Kinds(s)[i]
      /\ Kinds(t)[n + 1] = <<p.kind>>
  BY <1>2, <1>3
<1>8. Kinds(t) = Append(Kinds(s), <<p.kind>>)
  BY <1>1, <1>5, <1>6, <1>7, IsAppend
<1> QED BY <1>5, <1>8 DEF M, t

(* The motion along a stream with one packet more.                         *)
LEMMA MotionAppend ==
    ASSUME NEW s \in Seq(Sendable), NEW p \in Sendable
    PROVE  /\ Deltas(s) \in Seq(Int) /\ Motion(s) \in Int
           /\ Motion(Append(s, p)) = Motion(s) + Delta(p)
<1> DEFINE t == Append(s, p)
           n == Len(s)
<1>1. \A q \in Sendable : Delta(q) \in Int
  BY RelativeDeltas
<1>2. /\ n \in Nat /\ DOMAIN s = 1 .. n /\ \A i \in 1 .. n : s[i] \in Sendable
      /\ DOMAIN t = 1 .. n + 1 /\ t[n + 1] = p
      /\ \A i \in 1 .. n : t[i] = s[i] /\ i \in 1 .. n + 1
      /\ \A i \in 1 .. n + 1 : t[i] \in Sendable
  OBVIOUS
<1> HIDE DEF n, t
<1>3. /\ Deltas(s) = [i \in 1 .. n |-> Delta(s[i])]
      /\ Deltas(t) = [i \in 1 .. n + 1 |-> Delta(t[i])]
  BY <1>2 DEF Deltas
<1>4. Deltas(s) \in [1 .. n -> Int] /\ Deltas(t) \in [1 .. n + 1 -> Int]
  BY <1>1, <1>2, <1>3
<1>5. Deltas(s) \in Seq(Int) /\ Len(Deltas(s)) = n
  BY <1>2, <1>4, FunctionIsSeq
<1>6. Deltas(t) \in Seq(Int) /\ Len(Deltas(t)) = n + 1
  BY <1>2, <1>4, FunctionIsSeq
<1>7. /\ \A i \in 1 .. n : Deltas(t)[i] = Deltas(s)[i]
      /\ Deltas(t)[n + 1] = Delta(p)
  BY <1>2, <1>3
<1>8. Deltas(t) = Append(Deltas(s), Delta(p))
  BY <1>1, <1>5, <1>6, <1>7, IsAppend
<1>9. Motion(s) \in Int /\ Motion(t) = Motion(s) + Delta(p)
  BY <1>1, <1>5, <1>8, SumAppend DEF Motion
<1> QED BY <1>5, <1>9 DEF t

(* The stream while a run is at s: what was delivered before it, what it   *)
(* will send, what it keeps.                                               *)
Now(before, s) == Append(before, s.sent) \o s.kept

LEMMA NowAt ==
    ASSUME NEW D \in Seq(Sendable), NEW s \in DrainStates
    PROVE  /\ Now(D, s) \in Seq(Sendable)
           /\ Len(D) \in Nat /\ Len(s.kept) \in Nat
           /\ Len(Now(D, s)) = Len(D) + 1 + Len(s.kept)
           /\ DOMAIN Now(D, s) = 1 .. Len(D) + 1 + Len(s.kept)
           /\ \A i \in 1 .. Len(D) : Now(D, s)[i] = D[i]
           /\ Now(D, s)[Len(D) + 1] = s.sent
           /\ \A i \in Len(D) + 2 .. Len(D) + 1 + Len(s.kept) :
                  Now(D, s)[i] = s.kept[i - (Len(D) + 1)]
<1> DEFINE q == Append(D, s.sent)
<1>1. s.sent \in Sendable /\ s.kept \in Seq(InputPackets)
  BY DEF DrainStates
<1>2. s.kept \in Seq(Sendable)
  <2>1. InputPackets \subseteq Sendable
    BY DEF Sendable
  <2> QED BY <1>1, <2>1, SeqMonotonic
<1>3. /\ q \in Seq(Sendable) /\ Len(q) = Len(D) + 1 /\ Len(D) \in Nat
      /\ \A i \in 1 .. Len(D) : q[i] = D[i]
      /\ q[Len(D) + 1] = s.sent
  BY <1>1
<1> HIDE DEF q
<1>4. Len(s.kept) \in Nat
  BY <1>2
<1> DEFINE w == q \o s.kept
           l == Len(D)
           k == Len(s.kept)
<1>5. /\ w \in Seq(Sendable) /\ Len(w) = Len(q) + k
      /\ \A i \in 1 .. Len(q) + k :
             w[i] = IF i <= Len(q) THEN q[i] ELSE s.kept[i - Len(q)]
  BY <1>2, <1>3, ConcatProperties
<1>6. Now(D, s) = w
  BY DEF Now, q
<1> HIDE DEF w, l, k
<1>7. l \in Nat /\ k \in Nat /\ Len(q) = l + 1
  BY <1>3, <1>4 DEF l, k
<1>8. Len(w) = l + 1 + k /\ DOMAIN w = 1 .. l + 1 + k
  BY <1>5, <1>7
<1>9. ASSUME NEW i \in 1 .. l PROVE w[i] = D[i]
  <2>1. i \in 1 .. Len(q) + k /\ i <= Len(q)
    BY <1>7
  <2> QED BY <1>3, <1>5, <2>1 DEF l
<1>10. w[l + 1] = s.sent
  <2>1. l + 1 \in 1 .. Len(q) + k /\ l + 1 <= Len(q)
    BY <1>7
  <2> QED BY <1>3, <1>5, <2>1 DEF l
<1>11. ASSUME NEW i \in l + 2 .. l + 1 + k PROVE w[i] = s.kept[i - (l + 1)]
  <2>1. i \in 1 .. Len(q) + k /\ ~(i <= Len(q)) /\ i - Len(q) = i - (l + 1)
    BY <1>7
  <2> QED BY <1>5, <2>1
<1> QED BY <1>5, <1>6, <1>7, <1>8, <1>9, <1>10, <1>11 DEF l, k

(* Appending to the second of two sequences appends to both.               *)
LEMMA ConcatAppend ==
    ASSUME NEW q \in Seq(Sendable), NEW r \in Seq(Sendable), NEW p \in Sendable
    PROVE  q \o Append(r, p) = Append(q \o r, p)
<1> DEFINE k == Append(r, p)
           w == q \o r
           v == q \o k
<1>1. /\ k \in Seq(Sendable) /\ Len(k) = Len(r) + 1
      /\ Len(r) \in Nat /\ Len(q) \in Nat
      /\ k[Len(r) + 1] = p
      /\ \A i \in 1 .. Len(r) : k[i] = r[i]
  OBVIOUS
<1>2. /\ w \in Seq(Sendable) /\ Len(w) = Len(q) + Len(r)
      /\ \A i \in 1 .. Len(q) + Len(r) :
             w[i] = IF i <= Len(q) THEN q[i] ELSE r[i - Len(q)]
  BY ConcatProperties
<1> HIDE DEF k
<1>3. /\ v \in Seq(Sendable) /\ Len(v) = Len(q) + Len(k)
      /\ \A i \in 1 .. Len(q) + Len(k) :
             v[i] = IF i <= Len(q) THEN q[i] ELSE k[i - Len(q)]
  BY <1>1, ConcatProperties
<1> HIDE DEF v, w
<1>4. Len(v) = Len(w) + 1 /\ v[Len(w) + 1] = p
  BY <1>1, <1>2, <1>3
<1>5. ASSUME NEW i \in 1 .. Len(w) PROVE v[i] = w[i]
  <2>1. i \in 1 .. Len(q) + Len(k) /\ i \in 1 .. Len(q) + Len(r)
    BY <1>1, <1>2
  <2>2. CASE i <= Len(q)
    BY <1>2, <1>3, <2>1, <2>2
  <2>3. CASE i > Len(q)
    <3>1. i - Len(q) \in 1 .. Len(r)
      BY <1>1, <2>1, <2>3
    <3> QED BY <1>1, <1>2, <1>3, <2>1, <2>3, <3>1
  <2> QED BY <1>1, <2>2, <2>3
<1>6. v = Append(w, p)
  BY <1>2, <1>3, <1>4, <1>5, IsAppend
<1> QED BY <1>6 DEF k, v, w

(* A packet that stays queued is the last of the stream.                   *)
LEMMA NowAppend ==
    ASSUME NEW D \in Seq(Sendable), NEW s \in DrainStates,
           NEW t \in DrainStates, NEW p \in InputPackets,
           t.sent = s.sent, t.kept = Append(s.kept, p)
    PROVE  Now(D, t) = Append(Now(D, s), p)
<1>1. s.sent \in Sendable /\ s.kept \in Seq(Sendable) /\ p \in Sendable
  <2>1. InputPackets \subseteq Sendable
    BY DEF Sendable
  <2> QED BY <2>1, SeqMonotonic DEF DrainStates
<1> DEFINE q == Append(D, s.sent)
<1>2. q \in Seq(Sendable)
  BY <1>1
<1> HIDE DEF q
<1>3. q \o Append(s.kept, p) = Append(q \o s.kept, p)
  BY <1>1, <1>2, ConcatAppend
<1> QED BY <1>3 DEF Now, q

-----------------------------------------------------------------------------
(* The packet queue: batching changes no order.                            *)

(* Two streams that an application cannot tell apart by their order.       *)
SameOrder(a, b) ==
    /\ Squeeze(Kinds(a)) = Squeeze(Kinds(b))
    /\ \A d : Squeeze(Modes(d, a)) = Squeeze(Modes(d, b))

(* While the batch goes on, what was passed over is of the same kind and   *)
(* about other devices, and is no relative motion.                         *)
Passes(s) ==
    ~s.stopped =>
        \A i \in 1 .. Len(s.kept) :
            /\ s.kept[i].kind = s.sent.kind
            /\ Device(s.kept[i]) # Device(s.sent)
            /\ s.sent.kind \notin RelativeKinds

(* Passing one more packet over, or batching it, keeps it so.              *)
LEMMA PassesStep ==
    ASSUME NEW s \in DrainStates, NEW p \in InputPackets, Passes(s)
    PROVE  Passes(DrainOne(s, p))
<1> DEFINE t == DrainOne(s, p)
<1>1. s.sent \in Sendable /\ s.kept \in Seq(InputPackets)
  BY DEF DrainStates
<1> SUFFICES ASSUME ~t.stopped, NEW i \in 1 .. Len(t.kept)
             PROVE  /\ t.kept[i].kind = t.sent.kind
                    /\ Device(t.kept[i]) # Device(t.sent)
                    /\ t.sent.kind \notin RelativeKinds
  BY DEF Passes
<1>2. CASE /\ ~s.stopped /\ Batch(s.sent, p) = "batched"
           /\ t = [sent |-> Merge(s.sent, p),
                   kept |-> s.kept, stopped |-> FALSE]
  <2>1. /\ Merge(s.sent, p).kind = s.sent.kind
        /\ Device(Merge(s.sent, p)) = Device(s.sent)
    BY <1>1, <1>2, MergedAlike
  <2>2. t.kept = s.kept /\ t.sent = Merge(s.sent, p)
    BY <1>2
  <2> HIDE DEF t
  <2> QED BY <1>2, <2>1, <2>2 DEF Passes
<1>3. CASE /\ s.stopped \/ Batch(s.sent, p) = "not_batchable"
           /\ t = [sent |-> s.sent, kept |-> Append(s.kept, p),
                   stopped |-> s.stopped]
  <2>1. /\ ~s.stopped /\ t.kept = Append(s.kept, p) /\ t.sent = s.sent
        /\ Batch(s.sent, p) = "not_batchable"
    BY <1>3
  <2>2. /\ p.kind = s.sent.kind /\ Device(p) # Device(s.sent)
        /\ s.sent.kind \notin RelativeKinds
    BY <1>1, <2>1, PassedOver
  <2>3. i \in 1 .. Len(s.kept) \/ i = Len(s.kept) + 1
    BY <1>1, <2>1
  <2>4. /\ i \in 1 .. Len(s.kept) => t.kept[i] = s.kept[i]
        /\ i = Len(s.kept) + 1 => t.kept[i] = p
    BY <1>1, <2>1
  <2> HIDE DEF t
  <2> QED BY <2>1, <2>2, <2>3, <2>4 DEF Passes
<1>4. CASE t = [sent |-> s.sent, kept |-> Append(s.kept, p),
                stopped |-> TRUE]
  BY <1>4
<1> QED BY <1>2, <1>3, <1>4, DrainCases

(* One more packet at the end of both.                                     *)
LEMMA OrderAppend ==
    ASSUME NEW a \in Seq(Sendable), NEW b \in Seq(Sendable),
           NEW p \in Sendable, SameOrder(a, b)
    PROVE  SameOrder(Append(a, p), Append(b, p))
<1>1. Squeeze(Kinds(Append(a, p))) = Squeeze(Kinds(Append(b, p)))
  <2> DEFINE M == {<<q.kind>> : q \in Sendable}
  <2>1. /\ Kinds(a) \in Seq(M) /\ Kinds(b) \in Seq(M)
        /\ Kinds(Append(a, p)) = Append(Kinds(a), <<p.kind>>)
        /\ Kinds(Append(b, p)) = Append(Kinds(b), <<p.kind>>)
    BY KindsAppend
  <2>2. <<p.kind>> \in M
    OBVIOUS
  <2> HIDE DEF M
  <2>3. /\ Squeeze(Append(Kinds(a), <<p.kind>>)) =
               Squeezed(Squeeze(Kinds(a)), <<p.kind>>)
        /\ Squeeze(Append(Kinds(b), <<p.kind>>)) =
               Squeezed(Squeeze(Kinds(b)), <<p.kind>>)
    BY <2>1, <2>2, SqueezeAppend
  <2> QED BY <2>1, <2>3 DEF SameOrder
<1>2. ASSUME NEW d
      PROVE  Squeeze(Modes(d, Append(a, p))) = Squeeze(Modes(d, Append(b, p)))
  <2> DEFINE M == {<<Mode(q)>> : q \in Sendable} \cup {<<>>}
             x == IF Device(p) = d THEN <<Mode(p)>> ELSE <<>>
  <2>1. /\ Modes(d, a) \in Seq(M) /\ Modes(d, b) \in Seq(M)
        /\ Modes(d, Append(a, p)) = Append(Modes(d, a), x)
        /\ Modes(d, Append(b, p)) = Append(Modes(d, b), x)
    BY ModesAppend
  <2>2. x \in M
    OBVIOUS
  <2> HIDE DEF M, x
  <2>3. /\ Squeeze(Append(Modes(d, a), x)) = Squeezed(Squeeze(Modes(d, a)), x)
        /\ Squeeze(Append(Modes(d, b), x)) = Squeezed(Squeeze(Modes(d, b)), x)
    BY <2>1, <2>2, SqueezeAppend
  <2> QED BY <1>2, <2>1, <2>3 DEF SameOrder
<1> QED BY <1>1, <1>2 DEF SameOrder

(* A batched packet changes the stream in one place only, by nothing that  *)
(* the order of modes or kinds shows.                                      *)
LEMMA BatchedNow ==
    ASSUME NEW D \in Seq(Sendable), NEW s \in DrainStates,
           NEW t \in DrainStates, NEW p \in InputPackets,
           Batch(s.sent, p) = "batched",
           t.sent = Merge(s.sent, p), t.kept = s.kept
    PROVE  /\ DOMAIN Now(D, t) = DOMAIN Now(D, s)
           /\ \A i \in DOMAIN Now(D, s) :
                  /\ i # Len(D) + 1 => Now(D, t)[i] = Now(D, s)[i]
                  /\ Now(D, t)[i].kind = Now(D, s)[i].kind
                  /\ Device(Now(D, t)[i]) = Device(Now(D, s)[i])
                  /\ Mode(Now(D, t)[i]) = Mode(Now(D, s)[i])
<1> DEFINE a == Now(D, s)
           b == Now(D, t)
           n == Len(D)
           l == Len(s.kept)
<1>1. /\ n \in Nat /\ l \in Nat
      /\ DOMAIN a = 1 .. n + 1 + l
      /\ \A i \in 1 .. n : a[i] = D[i]
      /\ a[n + 1] = s.sent
      /\ \A i \in n + 2 .. n + 1 + l : a[i] = s.kept[i - (n + 1)]
  BY NowAt
<1>2. /\ DOMAIN b = 1 .. n + 1 + l
      /\ \A i \in 1 .. n : b[i] = D[i]
      /\ b[n + 1] = Merge(s.sent, p)
      /\ \A i \in n + 2 .. n + 1 + l : b[i] = s.kept[i - (n + 1)]
  <2>1. /\ DOMAIN b = 1 .. n + 1 + Len(t.kept)
        /\ \A i \in 1 .. n : b[i] = D[i]
        /\ b[n + 1] = t.sent
        /\ \A i \in n + 2 .. n + 1 + Len(t.kept) : b[i] = t.kept[i - (n + 1)]
    BY NowAt
  <2> HIDE DEF b
  <2> QED BY <2>1
<1>3. s.sent \in Sendable
  BY DEF DrainStates
<1>4. /\ Merge(s.sent, p).kind = s.sent.kind
      /\ Device(Merge(s.sent, p)) = Device(s.sent)
      /\ Mode(Merge(s.sent, p)) = Mode(s.sent)
  BY <1>3, MergedAlike
<1> HIDE DEF a, b, n, l
<1>5. ASSUME NEW i \in DOMAIN a, i # n + 1 PROVE b[i] = a[i]
  <2>1. i \in 1 .. n \/ i \in n + 2 .. n + 1 + l
    BY <1>1, <1>5
  <2> QED BY <1>1, <1>2, <2>1
<1>6. ASSUME NEW i \in DOMAIN a
      PROVE  /\ b[i].kind = a[i].kind
             /\ Device(b[i]) = Device(a[i])
             /\ Mode(b[i]) = Mode(a[i])
  <2>1. CASE i = n + 1
    BY <1>1, <1>2, <1>4, <2>1
  <2>2. CASE i # n + 1
    BY <1>5, <2>2
  <2> QED BY <2>1, <2>2
<1> QED BY <1>1, <1>2, <1>5, <1>6 DEF a, b, n

(* Batching a packet is, in the order seen, as good as sending it.         *)
LEMMA OrderBatched ==
    ASSUME NEW D \in Seq(Sendable), NEW s \in DrainStates,
           NEW t \in DrainStates, NEW p \in InputPackets, Passes(s),
           ~s.stopped, Batch(s.sent, p) = "batched",
           t.sent = Merge(s.sent, p), t.kept = s.kept
    PROVE  SameOrder(Now(D, t), Append(Now(D, s), p))
<1> DEFINE a == Now(D, s)
           b == Now(D, t)
           n == Len(D)
           l == Len(s.kept)
<1>1. /\ a \in Seq(Sendable) /\ n \in Nat /\ l \in Nat
      /\ DOMAIN a = 1 .. n + 1 + l
      /\ a[n + 1] = s.sent
      /\ \A i \in n + 2 .. n + 1 + l : a[i] = s.kept[i - (n + 1)]
  BY NowAt
<1>2. s.sent \in Sendable /\ p \in Sendable
  BY DEF DrainStates, Sendable
<1>3. /\ p.kind = s.sent.kind /\ Device(p) = Device(s.sent)
      /\ Mode(p) = Mode(s.sent)
  BY <1>2, BatchedAlike
<1>4. /\ DOMAIN b = DOMAIN a
      /\ \A i \in DOMAIN a : /\ b[i].kind = a[i].kind
                             /\ Device(b[i]) = Device(a[i])
                             /\ Mode(b[i]) = Mode(a[i])
  BY BatchedNow
<1> HIDE DEF a, b, n, l
<1>5. ASSUME NEW i \in DOMAIN a, i > n + 1
      PROVE  /\ a[i].kind = s.sent.kind
             /\ Device(a[i]) # Device(s.sent)
  <2>1. i \in n + 2 .. n + 1 + l /\ i - (n + 1) \in 1 .. l
    BY <1>1, <1>5
  <2>2. a[i] = s.kept[i - (n + 1)]
    BY <1>1, <2>1
  <2>3. /\ s.kept[i - (n + 1)].kind = s.sent.kind
        /\ Device(s.kept[i - (n + 1)]) # Device(s.sent)
    BY <2>1 DEF Passes, l
  <2> QED BY <2>2, <2>3
<1>6. n + 1 \in DOMAIN a
  BY <1>1
<1>7. Squeeze(Kinds(b)) = Squeeze(Kinds(Append(a, p)))
  <2> DEFINE M == {<<q.kind>> : q \in Sendable}
             K == Kinds(a)
  <2>1. Kinds(b) = K
    BY <1>4 DEF Kinds
  <2>2. /\ K \in Seq(M) /\ Kinds(Append(a, p)) = Append(K, <<p.kind>>)
        /\ <<p.kind>> \in M
    BY <1>1, <1>2, KindsAppend
  <2>3. DOMAIN K = DOMAIN a /\ \A i \in DOMAIN a : K[i] = <<a[i].kind>>
    BY DEF Kinds
  <2> HIDE DEF M, K
  <2>4. K[n + 1] = <<p.kind>> /\ K[n + 1] # <<>>
    <3>1. K[n + 1] = <<a[n + 1].kind>>
      BY <1>6, <2>3
    <3>2. a[n + 1].kind = p.kind
      BY <1>1, <1>3
    <3> QED BY <3>1, <3>2
  <2>5. \A m \in DOMAIN K : m > n + 1 => K[m] \in {<<>>, K[n + 1]}
    BY <1>3, <1>5, <2>3, <2>4
  <2>6. Squeeze(K) # <<>> /\ Last(Squeeze(K)) = <<p.kind>>
    BY <1>6, <2>2, <2>3, <2>4, <2>5, SqueezeLast
  <2>7. Squeeze(Append(K, <<p.kind>>)) = Squeezed(Squeeze(K), <<p.kind>>)
    BY <2>2, SqueezeAppend
  <2> QED BY <2>1, <2>2, <2>6, <2>7 DEF Squeezed
<1>8. ASSUME NEW d
      PROVE  Squeeze(Modes(d, b)) = Squeeze(Modes(d, Append(a, p)))
  <2> DEFINE M == {<<Mode(q)>> : q \in Sendable} \cup {<<>>}
             K == Modes(d, a)
             x == IF Device(p) = d THEN <<Mode(p)>> ELSE <<>>
  <2>1. Modes(d, b) = K
    BY <1>4 DEF Modes
  <2>2. /\ K \in Seq(M) /\ Modes(d, Append(a, p)) = Append(K, x)
        /\ x \in M
    BY <1>1, <1>2, ModesAppend
  <2>3. /\ DOMAIN K = DOMAIN a
        /\ \A i \in DOMAIN a :
               K[i] = IF Device(a[i]) = d THEN <<Mode(a[i])>> ELSE <<>>
    BY DEF Modes
  <2>4. Squeeze(Append(K, x)) = Squeezed(Squeeze(K), x)
    <3> HIDE DEF M, K, x
    <3> QED BY <2>2, SqueezeAppend
  <2>5. CASE Device(p) # d
    <3>1. x = <<>>
      BY <2>5
    <3> HIDE DEF M, K, x
    <3> QED BY <2>1, <2>2, <2>4, <3>1 DEF Squeezed
  <2>6. CASE Device(p) = d
    <3>1. x = <<Mode(p)>> /\ x # <<>>
      BY <2>6
    <3> HIDE DEF M, K, x
    <3>2. K[n + 1] = x
      BY <1>1, <1>3, <1>6, <2>3, <2>6, <3>1
    <3>3. \A m \in DOMAIN K : m > n + 1 => K[m] \in {<<>>, K[n + 1]}
      BY <1>3, <1>5, <2>3, <2>6
    <3>4. Squeeze(K) # <<>> /\ Last(Squeeze(K)) = x
      BY <1>6, <2>2, <2>3, <3>1, <3>2, <3>3, SqueezeLast
    <3> QED BY <2>1, <2>2, <2>4, <3>4 DEF Squeezed
  <2> QED BY <2>5, <2>6
<1> QED BY <1>7, <1>8 DEF SameOrder, a, b

-----------------------------------------------------------------------------
(* The packet queue: the latest of every device arrives.                   *)

(* What is latest in b, other than motion, is latest in a.                 *)
LatestIn(a, b) ==
    \A n \in DOMAIN b :
        IsLatest(b, n) /\ b[n].kind \notin RelativeKinds =>
            \E k \in DOMAIN a :
                /\ IsLatest(a, k)
                /\ Device(a[k]) = Device(b[n])
                /\ a[k].at = b[n].at

(* Packets about the same device are of the same kind.                     *)
LEMMA DeviceKind ==
    ASSUME NEW p, NEW q, Device(p) = Device(q)
    PROVE  p.kind = q.kind
<1>1. Device(p)[1] = p.kind
  BY DEF Device
<1>2. Device(q)[1] = q.kind
  BY DEF Device
<1> QED BY <1>1, <1>2

LEMMA LatestThrough ==
    ASSUME NEW a, NEW b, NEW c, LatestIn(a, b), LatestIn(b, c)
    PROVE  LatestIn(a, c)
<1> SUFFICES ASSUME NEW n \in DOMAIN c, IsLatest(c, n),
                    c[n].kind \notin RelativeKinds
             PROVE  \E k \in DOMAIN a : /\ IsLatest(a, k)
                                        /\ Device(a[k]) = Device(c[n])
                                        /\ a[k].at = c[n].at
  BY DEF LatestIn
<1>1. PICK m \in DOMAIN b : /\ IsLatest(b, m)
                            /\ Device(b[m]) = Device(c[n])
                            /\ b[m].at = c[n].at
  BY DEF LatestIn
<1>2. b[m].kind \notin RelativeKinds
  BY <1>1, DeviceKind
<1>3. PICK k \in DOMAIN a : /\ IsLatest(a, k)
                            /\ Device(a[k]) = Device(b[m])
                            /\ a[k].at = b[m].at
  BY <1>1, <1>2 DEF LatestIn
<1> QED BY <1>1, <1>3

(* One more packet at the end of both.                                     *)
LEMMA LatestAppend ==
    ASSUME NEW a \in Seq(Sendable), NEW b \in Seq(Sendable),
           NEW p \in Sendable, LatestIn(a, b)
    PROVE  LatestIn(Append(a, p), Append(b, p))
<1> DEFINE x == Append(a, p)
           y == Append(b, p)
           l == Len(a)
           m == Len(b)
<1>1. /\ l \in Nat /\ m \in Nat /\ DOMAIN a = 1 .. l /\ DOMAIN b = 1 .. m
      /\ DOMAIN x = 1 .. l + 1 /\ DOMAIN y = 1 .. m + 1
      /\ x[l + 1] = p /\ y[m + 1] = p
      /\ \A i \in 1 .. l : x[i] = a[i]
      /\ \A i \in 1 .. m : y[i] = b[i]
  OBVIOUS
<1> HIDE DEF x, y, l, m
<1> SUFFICES ASSUME NEW n \in DOMAIN y, IsLatest(y, n),
                    y[n].kind \notin RelativeKinds
             PROVE  \E k \in DOMAIN x : /\ IsLatest(x, k)
                                        /\ Device(x[k]) = Device(y[n])
                                        /\ x[k].at = y[n].at
  BY DEF LatestIn, x, y
<1>2. CASE n = m + 1
  <2>1. l + 1 \in DOMAIN x /\ IsLatest(x, l + 1)
    BY <1>1 DEF IsLatest
  <2> QED BY <1>1, <1>2, <2>1
<1>3. CASE n # m + 1
  <2>1. n \in DOMAIN b /\ y[n] = b[n] /\ m + 1 \in DOMAIN y /\ m + 1 > n
    BY <1>1, <1>3
  <2>2. Device(p) # Device(b[n])
    BY <1>1, <2>1 DEF IsLatest
  <2>3. IsLatest(b, n)
    <3> SUFFICES ASSUME NEW i \in DOMAIN b, i > n
                 PROVE  Device(b[i]) # Device(b[n])
      BY DEF IsLatest
    <3>1. i \in DOMAIN y /\ y[i] = b[i]
      BY <1>1
    <3> QED BY <2>1, <3>1 DEF IsLatest
  <2>4. PICK k \in DOMAIN a : /\ IsLatest(a, k)
                              /\ Device(a[k]) = Device(b[n])
                              /\ a[k].at = b[n].at
    BY <2>1, <2>3 DEF LatestIn
  <2>5. k \in DOMAIN x /\ x[k] = a[k]
    BY <1>1
  <2>6. IsLatest(x, k)
    <3> SUFFICES ASSUME NEW i \in DOMAIN x, i > k
                 PROVE  Device(x[i]) # Device(x[k])
      BY DEF IsLatest
    <3>1. CASE i = l + 1
      BY <1>1, <2>2, <2>4, <2>5, <3>1
    <3>2. CASE i # l + 1
      <4>1. i \in DOMAIN a /\ x[i] = a[i]
        BY <1>1, <3>2
      <4> QED BY <2>4, <2>5, <4>1 DEF IsLatest
    <3> QED BY <3>1, <3>2
  <2> QED BY <2>1, <2>4, <2>5, <2>6
<1> QED BY <1>2, <1>3

(* Batching a packet makes its position the latest of its device.          *)
LEMMA LatestBatched ==
    ASSUME NEW D \in Seq(Sendable), NEW s \in DrainStates,
           NEW t \in DrainStates, NEW p \in InputPackets, Passes(s),
           ~s.stopped, Batch(s.sent, p) = "batched",
           t.sent = Merge(s.sent, p), t.kept = s.kept
    PROVE  LatestIn(Now(D, t), Append(Now(D, s), p))
<1> DEFINE a == Now(D, s)
           b == Now(D, t)
           y == Append(a, p)
           n == Len(D)
           l == Len(s.kept)
<1>1. /\ a \in Seq(Sendable) /\ n \in Nat /\ l \in Nat
      /\ Len(a) = n + 1 + l /\ DOMAIN a = 1 .. n + 1 + l
      /\ a[n + 1] = s.sent
      /\ \A i \in n + 2 .. n + 1 + l : a[i] = s.kept[i - (n + 1)]
  BY NowAt
<1>2. s.sent \in Sendable /\ p \in Sendable
  BY DEF DrainStates, Sendable
<1>3. /\ p.kind = s.sent.kind /\ Device(p) = Device(s.sent)
      /\ s.sent.kind \notin RelativeKinds => Merge(s.sent, p) = p
  BY <1>2, BatchedAlike
<1>4. /\ DOMAIN b = DOMAIN a
      /\ \A i \in DOMAIN a : /\ i # n + 1 => b[i] = a[i]
                             /\ Device(b[i]) = Device(a[i])
      /\ b[n + 1] = Merge(s.sent, p)
  BY BatchedNow, NowAt
<1>5. /\ DOMAIN y = 1 .. n + 2 + l /\ y[n + 2 + l] = p
      /\ \A i \in DOMAIN a : y[i] = a[i]
  <2> HIDE DEF a, n, l
  <2>1. /\ DOMAIN y = 1 .. Len(a) + 1 /\ y[Len(a) + 1] = p
        /\ \A i \in 1 .. Len(a) : y[i] = a[i]
    BY <1>1, <1>2
  <2>2. Len(a) + 1 = n + 2 + l
    BY <1>1
  <2> QED BY <1>1, <2>1, <2>2
<1> HIDE DEF a, b, n, l, y
<1>6. ASSUME NEW i \in DOMAIN a, i > n + 1 PROVE Device(a[i]) # Device(s.sent)
  <2>1. i \in n + 2 .. n + 1 + l /\ i - (n + 1) \in 1 .. l
    BY <1>1, <1>6
  <2>2. a[i] = s.kept[i - (n + 1)]
    BY <1>1, <2>1
  <2>3. Device(s.kept[i - (n + 1)]) # Device(s.sent)
    BY <2>1 DEF Passes, l
  <2> QED BY <2>2, <2>3
<1> SUFFICES ASSUME NEW m \in DOMAIN y, IsLatest(y, m),
                    y[m].kind \notin RelativeKinds
             PROVE  \E k \in DOMAIN b : /\ IsLatest(b, k)
                                        /\ Device(b[k]) = Device(y[m])
                                        /\ b[k].at = y[m].at
  BY DEF LatestIn, b, y, a
<1>7. CASE m = n + 2 + l
  <2>1. s.sent.kind \notin RelativeKinds
    BY <1>3, <1>5, <1>7
  <2>2. n + 1 \in DOMAIN b /\ b[n + 1] = p
    BY <1>1, <1>3, <1>4, <2>1
  <2>3. IsLatest(b, n + 1)
    BY <1>1, <1>3, <1>4, <1>6, <2>2 DEF IsLatest
  <2> QED BY <1>5, <1>7, <2>2, <2>3
<1>8. CASE m # n + 2 + l
  <2>1. m \in 1 .. n + 1 + l /\ n + 2 + l \in 1 .. n + 2 + l
    <3>1. m \in 1 .. n + 2 + l
      BY <1>5
    <3>2. n \in Nat /\ l \in Nat
      BY <1>1
    <3> QED BY <1>8, <3>1, <3>2
  <2>2. /\ m \in DOMAIN a /\ y[m] = a[m] /\ m \in DOMAIN b
        /\ n + 2 + l \in DOMAIN y /\ n + 2 + l > m
    <3>1. m \in DOMAIN a /\ n + 2 + l \in DOMAIN y
      <4>1. DOMAIN a = 1 .. n + 1 + l /\ DOMAIN y = 1 .. n + 2 + l
        BY <1>1, <1>5
      <4> QED BY <2>1, <4>1
    <3>2. n + 2 + l > m
      BY <1>1, <2>1
    <3>3. y[m] = a[m] /\ m \in DOMAIN b
      BY <1>4, <1>5, <3>1, Zenon
    <3> QED BY <3>1, <3>2, <3>3
  <2>3. Device(p) # Device(a[m])
    BY <1>5, <2>2 DEF IsLatest
  <2>4. m # n + 1 /\ b[m] = a[m]
    BY <1>1, <1>3, <1>4, <2>2, <2>3
  <2>5. IsLatest(b, m)
    <3> SUFFICES ASSUME NEW i \in DOMAIN b, i > m
                 PROVE  Device(b[i]) # Device(b[m])
      BY DEF IsLatest
    <3>1. i \in DOMAIN y /\ y[i] = a[i] /\ Device(b[i]) = Device(a[i])
      BY <1>1, <1>4, <1>5
    <3> QED BY <2>2, <2>4, <3>1 DEF IsLatest
  <2> QED BY <2>2, <2>4, <2>5
<1> QED BY <1>7, <1>8

-----------------------------------------------------------------------------
(* The packet queue: motion is lost only by sums that overflow.            *)

(* Compared with u, which batched nothing, the run at s has lost multiples *)
(* of the range of a short, and none unless two deltas overflowed.         *)
MotionHeld(D, first, s, u) ==
    /\ (Motion(Now(D, u)) - Motion(Now(D, s))) % (2 * Half) = 0
    /\ \/ /\ Motion(Now(D, u)) = Motion(Now(D, s))
          /\ s.sent.kind \in RelativeKinds => s.sent = first
       \/ \E j \in 1 .. Len(u.kept) :
              Overflows(Delta(first), Delta(u.kept[j]))

(* The motion of the stream once a packet is batched.                      *)
LEMMA MotionBatched ==
    ASSUME NEW D \in Seq(Sendable), NEW s \in DrainStates,
           NEW t \in DrainStates, NEW p \in InputPackets, Passes(s),
           ~s.stopped, Batch(s.sent, p) = "batched",
           t.sent = Merge(s.sent, p), t.kept = s.kept
    PROVE  LET off == Motion(Now(D, s)) + Delta(p) - Motion(Now(D, t))
           IN  /\ off \in {0, 2 * Half, -(2 * Half)}
               /\ s.sent.kind \notin RelativeKinds => off = 0
<1> DEFINE a == Now(D, s)
           b == Now(D, t)
<1>1. s.sent \in Sendable /\ t.sent \in Sendable /\ p \in Sendable
  BY DEF DrainStates, Sendable
<1>2. /\ p.kind = s.sent.kind /\ t.sent.kind = s.sent.kind
      /\ s.sent.kind \in RelativeKinds =>
             t.sent.kind \in RelativeKinds
             /\ Delta(t.sent) = Wrap(Delta(s.sent) + Delta(p))
  BY <1>1, BatchedAlike, MergedAlike
<1>3. a \in Seq(Sendable) /\ b \in Seq(Sendable)
  BY NowAt
<1>4. Motion(a) \in Int /\ Motion(b) \in Int /\ Motion(D) \in Int
  BY <1>1, <1>3, MotionAppend
<1>5. CASE s.sent.kind \in RelativeKinds
  <2>1. s.kept = <<>> /\ t.kept = <<>>
    <3>1. s.kept \in Seq(InputPackets)
      BY DEF DrainStates
    <3>2. ASSUME Len(s.kept) # 0 PROVE FALSE
      <4>1. 1 \in 1 .. Len(s.kept)
        BY <3>1, <3>2
      <4> QED BY <1>5, <4>1 DEF Passes
    <3> QED BY <3>1, <3>2
  <2>2. a = Append(D, s.sent) /\ b = Append(D, t.sent)
    <3>1. /\ Append(D, s.sent) \in Seq(Sendable)
          /\ Append(D, t.sent) \in Seq(Sendable)
      BY <1>1
    <3>2. /\ Append(D, s.sent) \o <<>> = Append(D, s.sent)
          /\ Append(D, t.sent) \o <<>> = Append(D, t.sent)
      BY <3>1, ConcatEmptySeq
    <3> QED BY <2>1, <3>2 DEF Now
  <2>3. /\ Motion(Append(D, s.sent)) = Motion(D) + Delta(s.sent)
        /\ Motion(Append(D, t.sent)) = Motion(D) + Delta(t.sent)
    BY <1>1, MotionAppend
  <2>4. Delta(s.sent) \in Shorts /\ Delta(p) \in Shorts /\ Shorts \subseteq Int
    BY <1>1, <1>2, <1>5, QueueAssumption, RelativeDeltas DEF Shorts
  <2>5. (Delta(s.sent) + Delta(p)) - Delta(t.sent)
            \in {0, 2 * Half, -(2 * Half)}
    BY <1>2, <1>5, <2>4, WrapSum
  <2>6. /\ Motion(a) = Motion(D) + Delta(s.sent)
        /\ Motion(b) = Motion(D) + Delta(t.sent)
    BY <2>2, <2>3
  <2>7. Delta(s.sent) \in Int /\ Delta(p) \in Int /\ Delta(t.sent) \in Int
    BY <1>1, RelativeDeltas
  <2>8. Motion(a) + Delta(p) - Motion(b) =
            (Delta(s.sent) + Delta(p)) - Delta(t.sent)
    <3> HIDE DEF a, b
    <3> QED BY <1>4, <2>6, <2>7
  <2> QED BY <1>5, <2>5, <2>8
<1>6. CASE s.sent.kind \notin RelativeKinds
  <2>1. \A i \in DOMAIN a : b[i].kind = a[i].kind /\
                            (i # Len(D) + 1 => b[i] = a[i])
    BY BatchedNow
  <2>2. DOMAIN b = DOMAIN a /\ a[Len(D) + 1] = s.sent
    BY BatchedNow, NowAt
  <2> HIDE DEF a, b
  <2>3. ASSUME NEW i \in DOMAIN a PROVE Delta(b[i]) = Delta(a[i])
    <3>1. CASE i = Len(D) + 1
      <4>1. /\ a[i].kind \notin RelativeKinds
            /\ b[i].kind \notin RelativeKinds
        BY <1>6, <2>1, <2>2, <3>1
      <4> QED BY <4>1 DEF Delta
    <3>2. CASE i # Len(D) + 1
      BY <2>1, <3>2
    <3> QED BY <3>1, <3>2
  <2>4. Deltas(b) = Deltas(a)
    BY <2>2, <2>3 DEF Deltas
  <2>5. Motion(b) = Motion(a)
    BY <2>4 DEF Motion
  <2>6. Delta(p) = 0
    BY <1>2, <1>6 DEF Delta
  <2> QED BY <1>4, <1>6, <2>5, <2>6 DEF a, b
<1> QED BY <1>5, <1>6

LEMMA MotionStep ==
    ASSUME NEW D \in Seq(Sendable), NEW first \in Sendable,
           NEW s \in DrainStates, NEW u \in DrainStates,
           NEW v \in DrainStates, NEW p \in InputPackets,
           Passes(s), MotionHeld(D, first, s, u),
           v.sent = u.sent, v.kept = Append(u.kept, p)
    PROVE  MotionHeld(D, first, DrainOne(s, p), v)
<1> DEFINE t == DrainOne(s, p)
           K == 2 * Half
           lost == Motion(Now(D, u)) - Motion(Now(D, s))
           left == Motion(Now(D, v)) - Motion(Now(D, t))
           Bad(w) == \E j \in 1 .. Len(w.kept) :
                         Overflows(Delta(first), Delta(w.kept[j]))
<1>1. t \in DrainStates /\ p \in Sendable /\ s.sent \in Sendable
  BY DrainOneType DEF Sendable, DrainStates
<1>2. /\ Now(D, s) \in Seq(Sendable) /\ Now(D, t) \in Seq(Sendable)
      /\ Now(D, u) \in Seq(Sendable) /\ Now(D, v) \in Seq(Sendable)
  BY <1>1, NowAt
<1>3. /\ Motion(Now(D, s)) \in Int /\ Motion(Now(D, t)) \in Int
      /\ Motion(Now(D, u)) \in Int /\ Motion(Now(D, v)) \in Int
      /\ Delta(p) \in Int
  BY <1>1, <1>2, MotionAppend, RelativeDeltas
<1>4. Motion(Now(D, v)) = Motion(Now(D, u)) + Delta(p)
  <2>1. Now(D, v) = Append(Now(D, u), p)
    BY NowAppend
  <2> QED BY <1>1, <1>2, <2>1, MotionAppend
<1>5. /\ Len(v.kept) = Len(u.kept) + 1 /\ Len(u.kept) \in Nat
      /\ v.kept[Len(u.kept) + 1] = p
      /\ \A i \in 1 .. Len(u.kept) : v.kept[i] = u.kept[i]
  BY DEF DrainStates
<1>6. Bad(u) => Bad(v)
  <2> SUFFICES ASSUME NEW j \in 1 .. Len(u.kept),
                      Overflows(Delta(first), Delta(u.kept[j]))
               PROVE  Bad(v)
    OBVIOUS
  <2>1. j \in 1 .. Len(v.kept) /\ v.kept[j] = u.kept[j]
    BY <1>5
  <2> QED BY <2>1
<1>7. /\ lost % K = 0
      /\ \/ lost = 0 /\ (s.sent.kind \in RelativeKinds => s.sent = first)
         \/ Bad(u)
  BY <1>3 DEF MotionHeld
<1> DEFINE Alike == /\ Motion(Now(D, v)) = Motion(Now(D, t))
                    /\ t.sent.kind \in RelativeKinds => t.sent = first
<1>8. ASSUME left % K = 0, Alike \/ Bad(v)
      PROVE  MotionHeld(D, first, t, v)
  <2>1. (Motion(Now(D, v)) - Motion(Now(D, t))) % (2 * Half) = 0
    BY <1>8
  <2> HIDE DEF t
  <2> QED BY <1>8, <2>1, Zenon DEF MotionHeld
<1>9. CASE t.sent = s.sent /\ t.kept = Append(s.kept, p)
  <2>1. Now(D, t) = Append(Now(D, s), p)
    BY <1>1, <1>9, NowAppend
  <2>2. Motion(Now(D, t)) = Motion(Now(D, s)) + Delta(p)
    BY <1>1, <1>2, <2>1, MotionAppend
  <2>3. left = lost
    BY <1>3, <1>4, <2>2
  <2>4. left % K = 0 /\ (lost = 0 => Motion(Now(D, v)) = Motion(Now(D, t)))
    BY <1>3, <1>7, <2>3
  <2>5. Alike \/ Bad(v)
    <3> HIDE DEF t
    <3> QED BY <1>6, <1>7, <1>9, <2>4
  <2> QED BY <1>8, <2>4, <2>5
<1>10. CASE /\ ~s.stopped /\ Batch(s.sent, p) = "batched"
            /\ t.sent = Merge(s.sent, p) /\ t.kept = s.kept
  <2> DEFINE off == Motion(Now(D, s)) + Delta(p) - Motion(Now(D, t))
  <2>1. /\ off \in {0, K, -K}
        /\ s.sent.kind \notin RelativeKinds => off = 0
    BY <1>1, <1>10, MotionBatched
  <2>2. K \in Nat \ {0}
    BY QueueAssumption
  <2>3. left = lost + off /\ lost \in Int /\ off \in Int
    BY <1>3, <1>4
  <2>4. left % K = 0
    <3> HIDE DEF K, lost, off, left
    <3>1. (lost + K) % K = lost % K /\ (lost - K) % K = lost % K
      BY <2>2, <2>3, ModShift
    <3>2. left \in {lost, lost + K, lost - K}
      BY <2>1, <2>2, <2>3
    <3> QED BY <1>7, <3>1, <3>2
  <2>5. t.sent.kind = s.sent.kind
    BY <1>1, <1>10, MergedAlike
  <2>6. CASE s.sent.kind \notin RelativeKinds
    <3>1. lost = 0 => Motion(Now(D, v)) = Motion(Now(D, t))
      BY <1>3, <2>1, <2>3, <2>6
    <3>2. Alike \/ Bad(v)
      <4> HIDE DEF t
      <4> QED BY <1>6, <1>7, <2>5, <2>6, <3>1
    <3> QED BY <1>8, <2>4, <3>2
  <2>7. CASE s.sent.kind \in RelativeKinds
    <3>1. Overflows(Delta(s.sent), Delta(p))
      BY <1>1, <1>10, <2>7, BatchedAlike
    <3>2. s.sent = first => Bad(v)
      <4>1. Len(u.kept) + 1 \in 1 .. Len(v.kept)
        BY <1>5
      <4> QED BY <1>5, <3>1, <4>1
    <3>3. Bad(v)
      BY <1>6, <1>7, <2>7, <3>2
    <3> QED BY <1>8, <2>4, <3>3
  <2> QED BY <2>6, <2>7
<1>11. \/ t.sent = s.sent /\ t.kept = Append(s.kept, p)
       \/ /\ ~s.stopped /\ Batch(s.sent, p) = "batched"
          /\ t.sent = Merge(s.sent, p) /\ t.kept = s.kept
  BY DrainCases
<1> QED BY <1>9, <1>10, <1>11

-----------------------------------------------------------------------------
(* The packet queue: what stays queued stays in the order received.        *)

(* Any two positions of a stand for two of b, in the same order.           *)
Embedded(a, b) ==
    \A i, j \in DOMAIN a :
        i <= j => \E k, l \in DOMAIN b : /\ k <= l /\ (i < j => k < l)
                                         /\ a[i] = b[k] /\ a[j] = b[l]

(* One more packet at the end of b, or of both.                            *)
LEMMA EmbeddedAppend ==
    ASSUME NEW a \in Seq(InputPackets), NEW b \in Seq(InputPackets),
           NEW p \in InputPackets, Embedded(a, b)
    PROVE  Embedded(a, Append(b, p)) /\ Embedded(Append(a, p), Append(b, p))
<1> DEFINE x == Append(a, p)
           y == Append(b, p)
           n == Len(a)
           m == Len(b)
<1>1. /\ n \in Nat /\ m \in Nat /\ DOMAIN a = 1 .. n /\ DOMAIN b = 1 .. m
      /\ DOMAIN x = 1 .. n + 1 /\ DOMAIN y = 1 .. m + 1
      /\ x[n + 1] = p /\ y[m + 1] = p
      /\ \A i \in 1 .. n : x[i] = a[i]
      /\ \A i \in 1 .. m : y[i] = b[i]
  OBVIOUS
<1> HIDE DEF x, y, n, m
<1>2. /\ DOMAIN b \subseteq DOMAIN y
      /\ \A k \in DOMAIN b : y[k] = b[k] /\ k < m + 1
  BY <1>1
<1>3. Embedded(a, y)
  <2> SUFFICES ASSUME NEW i \in DOMAIN a, NEW j \in DOMAIN a, i <= j
               PROVE  \E k, l \in DOMAIN y :
                          /\ k <= l /\ (i < j => k < l)
                          /\ a[i] = y[k] /\ a[j] = y[l]
    BY DEF Embedded
  <2>1. PICK k \in DOMAIN b, l \in DOMAIN b :
            /\ k <= l /\ (i < j => k < l)
            /\ a[i] = b[k] /\ a[j] = b[l]
    BY DEF Embedded
  <2> QED BY <1>2, <2>1
<1>4. Embedded(x, y)
  <2> SUFFICES ASSUME NEW i \in DOMAIN x, NEW j \in DOMAIN x, i <= j
               PROVE  \E k, l \in DOMAIN y :
                          /\ k <= l /\ (i < j => k < l)
                          /\ x[i] = y[k] /\ x[j] = y[l]
    BY DEF Embedded
  <2>1. i \in 1 .. n + 1 /\ j \in 1 .. n + 1
    BY <1>1
  <2>2. CASE j # n + 1
    <3>1. i \in DOMAIN a /\ j \in DOMAIN a /\ x[i] = a[i] /\ x[j] = a[j]
      BY <1>1, <2>1, <2>2
    <3> QED BY <1>3, <3>1 DEF Embedded
  <2>3. CASE j = n + 1 /\ i # n + 1
    <3>1. i \in DOMAIN a /\ x[i] = a[i] /\ i <= i
      BY <1>1, <2>1, <2>3
    <3>2. PICK k \in DOMAIN b : a[i] = b[k]
      BY <3>1 DEF Embedded
    <3>3. /\ k \in DOMAIN y /\ m + 1 \in DOMAIN y /\ k < m + 1
          /\ x[i] = y[k] /\ x[j] = y[m + 1]
      BY <1>1, <1>2, <2>3, <3>1, <3>2
    <3> QED BY <1>1, <3>3
  <2>4. CASE j = n + 1 /\ i = n + 1
    <3>1. m + 1 \in DOMAIN y /\ x[i] = y[m + 1] /\ x[j] = y[m + 1]
      BY <1>1, <2>4
    <3> QED BY <1>1, <2>4, <3>1
  <2> QED BY <2>2, <2>3, <2>4
<1> QED BY <1>3, <1>4 DEF x, y

LEMMA EmbeddedThrough ==
    ASSUME NEW a, NEW b, NEW c, Embedded(a, b), Embedded(b, c)
    PROVE  Embedded(a, c)
<1> SUFFICES ASSUME NEW i \in DOMAIN a, NEW j \in DOMAIN a, i <= j
             PROVE  \E k, l \in DOMAIN c :
                        /\ k <= l /\ (i < j => k < l)
                        /\ a[i] = c[k] /\ a[j] = c[l]
  BY DEF Embedded
<1>1. PICK k \in DOMAIN b, l \in DOMAIN b :
          /\ k <= l /\ (i < j => k < l) /\ a[i] = b[k] /\ a[j] = b[l]
  BY DEF Embedded
<1>2. PICK x \in DOMAIN c, y \in DOMAIN c :
          /\ x <= y /\ (k < l => x < y) /\ b[k] = c[x] /\ b[l] = c[y]
  BY <1>1 DEF Embedded
<1> QED BY <1>1, <1>2

(* The rest of a queue is embedded in the queue.                           *)
LEMMA TailEmbedded ==
    ASSUME NEW q \in Seq(InputPackets), q # <<>>
    PROVE  Embedded(Tail(q), q)
<1> DEFINE t == Tail(q)
<1>1. /\ t \in Seq(InputPackets) /\ Len(t) = Len(q) - 1
      /\ \A i \in 1 .. Len(t) : t[i] = q[i + 1]
  BY HeadTailProperties
<1>2. Len(q) \in Nat /\ DOMAIN q = 1 .. Len(q) /\ DOMAIN t = 1 .. Len(t)
  BY <1>1
<1> HIDE DEF t
<1> SUFFICES ASSUME NEW i \in DOMAIN t, NEW j \in DOMAIN t, i <= j
             PROVE  \E k, l \in DOMAIN q :
                        /\ k <= l /\ (i < j => k < l)
                        /\ t[i] = q[k] /\ t[j] = q[l]
  BY DEF Embedded, t
<1>3. i \in 1 .. Len(t) /\ j \in 1 .. Len(t)
  BY <1>2
<1>4. i + 1 \in DOMAIN q /\ j + 1 \in DOMAIN q
  <2>1. i + 1 \in 1 .. Len(q) /\ j + 1 \in 1 .. Len(q)
    BY <1>1, <1>2, <1>3
  <2> QED BY <1>2, <2>1
<1>5. t[i] = q[i + 1] /\ t[j] = q[j + 1]
  BY <1>1, <1>3
<1>6. i + 1 <= j + 1 /\ (i < j => i + 1 < j + 1)
  BY <1>3
<1> QED BY <1>4, <1>5, <1>6

-----------------------------------------------------------------------------
(* The packet queue: a run of the worker, compared with u, which leaves    *)
(* all packets that the run has looked at in the queue.                    *)
Faithful(D, first, s, u) ==
    /\ Len(s.kept) <= Len(u.kept)
    /\ Embedded(s.kept, u.kept)
    /\ Passes(s)
    /\ SameOrder(Now(D, s), Now(D, u))
    /\ LatestIn(Now(D, s), Now(D, u))
    /\ MotionHeld(D, first, s, u)

LEMMA FaithfulStep ==
    ASSUME NEW D \in Seq(Sendable), NEW first \in Sendable,
           NEW s \in DrainStates, NEW u \in DrainStates,
           NEW v \in DrainStates, NEW p \in InputPackets,
           Faithful(D, first, s, u),
           v.sent = u.sent, v.kept = Append(u.kept, p)
    PROVE  Faithful(D, first, DrainOne(s, p), v)
<1> DEFINE t == DrainOne(s, p)
           a == Now(D, s)
           b == Now(D, u)
<1>1. t \in DrainStates /\ p \in Sendable
  BY DrainOneType DEF Sendable
<1>2. a \in Seq(Sendable) /\ b \in Seq(Sendable)
  BY NowAt
<1>3. Now(D, v) = Append(b, p)
  BY NowAppend
<1>4. /\ s.kept \in Seq(InputPackets) /\ u.kept \in Seq(InputPackets)
      /\ Len(s.kept) \in Nat /\ Len(u.kept) \in Nat
      /\ Len(Append(s.kept, p)) = Len(s.kept) + 1
      /\ Len(Append(u.kept, p)) = Len(u.kept) + 1
  BY DEF DrainStates
<1>5. /\ Len(s.kept) <= Len(u.kept) /\ Embedded(s.kept, u.kept) /\ Passes(s)
      /\ SameOrder(a, b) /\ LatestIn(a, b) /\ MotionHeld(D, first, s, u)
  BY DEF Faithful
<1>6. Passes(t)
  BY <1>5, PassesStep
<1>7. MotionHeld(D, first, t, v)
  BY <1>5, MotionStep
<1>8. /\ SameOrder(Append(a, p), Append(b, p))
      /\ LatestIn(Append(a, p), Append(b, p))
  BY <1>1, <1>2, <1>5, OrderAppend, LatestAppend
<1>9. /\ Embedded(s.kept, Append(u.kept, p))
      /\ Embedded(Append(s.kept, p), Append(u.kept, p))
  BY <1>4, <1>5, EmbeddedAppend
<1>10. CASE t.sent = s.sent /\ t.kept = Append(s.kept, p)
  <2>1. Now(D, t) = Append(a, p)
    BY <1>1, <1>10, NowAppend
  <2> HIDE DEF t, a, b
  <2>2. Len(t.kept) <= Len(v.kept) /\ Embedded(t.kept, v.kept)
    BY <1>4, <1>5, <1>9, <1>10
  <2>3. SameOrder(Now(D, t), Now(D, v)) /\ LatestIn(Now(D, t), Now(D, v))
    BY <1>3, <1>8, <2>1
  <2> QED BY <1>6, <1>7, <2>2, <2>3 DEF Faithful, t
<1>11. CASE /\ ~s.stopped /\ Batch(s.sent, p) = "batched"
            /\ t.sent = Merge(s.sent, p) /\ t.kept = s.kept
  <2>1. SameOrder(Now(D, t), Append(a, p))
    BY <1>1, <1>5, <1>11, OrderBatched
  <2>2. LatestIn(Now(D, t), Append(a, p))
    BY <1>1, <1>5, <1>11, LatestBatched
  <2> HIDE DEF t, a, b
  <2>3. SameOrder(Now(D, t), Append(b, p))
    BY <1>8, <2>1 DEF SameOrder
  <2>4. LatestIn(Now(D, t), Append(b, p))
    BY <1>8, <2>2, LatestThrough
  <2>5. Len(t.kept) <= Len(v.kept) /\ Embedded(t.kept, v.kept)
    BY <1>4, <1>5, <1>9, <1>11
  <2>6. SameOrder(Now(D, t), Now(D, v)) /\ LatestIn(Now(D, t), Now(D, v))
    BY <1>3, <2>3, <2>4
  <2> QED BY <1>6, <1>7, <2>5, <2>6 DEF Faithful, t
<1>12. \/ t.sent = s.sent /\ t.kept = Append(s.kept, p)
       \/ /\ ~s.stopped /\ Batch(s.sent, p) = "batched"
          /\ t.sent = Merge(s.sent, p) /\ t.kept = s.kept
  BY DrainCases
<1> QED BY <1>10, <1>11, <1>12

(* Nothing is a multiple of the range of a short.                          *)
LEMMA ZeroMod == 0 % (2 * Half) = 0
<1> DEFINE K == 2 * Half
<1>1. K \in Nat \ {0}
  BY QueueAssumption
<1> HIDE DEF K
<1>2. K * 0 + 0 = 0 /\ 0 \in 0 .. K - 1
  BY <1>1
<1>3. (K * 0 + 0) % K = 0
  BY <1>1, <1>2, ModUnique
<1> QED BY <1>2, <1>3 DEF K

(* Before the loop both are the same.                                      *)
LEMMA FaithfulStart ==
    ASSUME NEW D \in Seq(Sendable), NEW first \in Sendable,
           NEW s \in DrainStates, NEW u \in DrainStates,
           s.sent = first, u.sent = first, s.kept = <<>>, u.kept = <<>>
    PROVE  Faithful(D, first, s, u)
<1>1. Now(D, s) = Now(D, u)
  BY DEF Now
<1>2. SameOrder(Now(D, s), Now(D, u))
  BY <1>1 DEF SameOrder
<1>3. LatestIn(Now(D, s), Now(D, u))
  BY <1>1 DEF LatestIn
<1>4. Passes(s) /\ Embedded(s.kept, u.kept) /\ Len(s.kept) <= Len(u.kept)
  BY DEF Passes, Embedded
<1>5. MotionHeld(D, first, s, u)
  <2>1. Motion(Now(D, s)) \in Int
    BY NowAt, MotionAppend
  <2>2. Motion(Now(D, u)) - Motion(Now(D, s)) = 0
    BY <1>1, <2>1
  <2> QED BY <1>1, <2>2, ZeroMod DEF MotionHeld
<1> QED BY <1>2, <1>3, <1>4, <1>5 DEF Faithful

(* So a whole run over the queue q is faithful to q.                       *)
LEMMA DrainFaithful ==
    ASSUME NEW D \in Seq(Sendable), NEW q \in Seq(InputPackets), q # <<>>
    PROVE  LET r == Drain(Head(q), Tail(q))
               u == [sent |-> Head(q), kept |-> Tail(q), stopped |-> TRUE]
           IN  /\ r \in DrainStates /\ u \in DrainStates
               /\ Faithful(D, Head(q), r, u)
               /\ Now(D, u) = D \o q
<1> DEFINE first == Head(q)
           rest == Tail(q)
           n == Len(rest)
           U(m) == [sent |-> first, kept |-> SubSeq(rest, 1, m),
                    stopped |-> TRUE]
<1>1. /\ first \in InputPackets /\ rest \in Seq(InputPackets)
      /\ Len(rest) = Len(q) - 1
      /\ \A i \in 1 .. Len(rest) : rest[i] = q[i + 1]
  BY HeadTailProperties
<1>2. /\ first \in Sendable /\ n \in Nat
      /\ \A i \in 1 .. n : rest[i] \in InputPackets
  BY <1>1 DEF Sendable
<1>3. PICK e \in [0 .. n -> DrainStates] :
          /\ e[0] = DrainStart(first) /\ e[n] = Drain(first, rest)
          /\ \A m \in 1 .. n : e[m] = DrainOne(e[m - 1], rest[m])
  BY <1>1, <1>2, DrainTrace
<1> HIDE DEF first, rest, n
<1>4. ASSUME NEW m \in 0 .. n
      PROVE  /\ U(m) \in DrainStates /\ U(m).sent = first
             /\ U(m).kept = SubSeq(rest, 1, m)
             /\ SubSeq(rest, 1, m) \in Seq(InputPackets)
             /\ Len(SubSeq(rest, 1, m)) = m
             /\ \A i \in 1 .. m : SubSeq(rest, 1, m)[i] = rest[i]
  <2>1. \A i \in 1 .. m : rest[i] \in InputPackets
    BY <1>2
  <2>2. /\ SubSeq(rest, 1, m) \in Seq(InputPackets)
        /\ Len(SubSeq(rest, 1, m)) = IF 1 <= m THEN m - 1 + 1 ELSE 0
        /\ \A i \in 1 .. m - 1 + 1 : SubSeq(rest, 1, m)[i] = rest[1 + i - 1]
    BY <1>2, <2>1, SubSeqProperties
  <2>3. Len(SubSeq(rest, 1, m)) = m
    BY <1>2, <2>2
  <2>4. ASSUME NEW i \in 1 .. m PROVE SubSeq(rest, 1, m)[i] = rest[i]
    <3>1. i \in 1 .. m - 1 + 1 /\ 1 + i - 1 = i
      BY <1>2
    <3> QED BY <2>2, <3>1
  <2>5. U(m) \in DrainStates
    BY <1>2, <2>2 DEF DrainStates
  <2> QED BY <2>2, <2>3, <2>4, <2>5
<1>5. ASSUME NEW m \in 1 .. n
      PROVE  SubSeq(rest, 1, m) = Append(SubSeq(rest, 1, m - 1), rest[m])
  <2>1. m \in 0 .. n /\ m - 1 \in 0 .. n /\ m - 1 + 1 = m /\ m \in 1 .. m
    BY <1>2
  <2> DEFINE x == SubSeq(rest, 1, m - 1)
             y == SubSeq(rest, 1, m)
  <2>2. /\ x \in Seq(InputPackets) /\ y \in Seq(InputPackets)
        /\ Len(x) = m - 1 /\ Len(y) = m
        /\ \A i \in 1 .. m - 1 : x[i] = rest[i]
        /\ \A i \in 1 .. m : y[i] = rest[i]
    BY <1>4, <2>1
  <2> HIDE DEF x, y
  <2>3. /\ Len(y) = Len(x) + 1 /\ y[Len(x) + 1] = rest[m]
        /\ \A i \in 1 .. Len(x) : y[i] = x[i]
    BY <2>1, <2>2
  <2>4. y = Append(x, rest[m])
    BY <1>2, <2>2, <2>3, IsAppend
  <2> QED BY <2>4 DEF x, y
<1> HIDE DEF U
<1> DEFINE P == {m \in 0 .. n : Faithful(D, first, e[m], U(m))}
<1>6. 0 .. n \subseteq P
  <2>1. 0 \in P
    <3>1. 0 \in 0 .. n
      BY <1>2
    <3>2. e[0].sent = first /\ e[0].kept = <<>> /\ e[0] \in DrainStates
      <4>1. e[0] = [sent |-> first, kept |-> <<>>, stopped |-> FALSE]
        BY <1>3 DEF DrainStart
      <4>2. e[0] \in DrainStates
        BY <3>1
      <4> QED BY <4>1, <4>2
    <3>3. U(0) \in DrainStates /\ U(0).sent = first /\ U(0).kept = <<>>
      BY <1>4, <3>1
    <3>4. Faithful(D, first, e[0], U(0))
      BY <1>2, <3>2, <3>3, FaithfulStart
    <3> QED BY <3>1, <3>4
  <2>2. ASSUME NEW m \in 1 .. n, m - 1 \in P PROVE m \in P
    <3>1. m \in 0 .. n /\ m - 1 \in 0 .. n
      BY <1>2
    <3>2. /\ U(m - 1) \in DrainStates /\ U(m) \in DrainStates
          /\ U(m).sent = U(m - 1).sent
          /\ U(m).kept = Append(U(m - 1).kept, rest[m])
      BY <1>4, <1>5, <3>1
    <3>3. e[m - 1] \in DrainStates /\ rest[m] \in InputPackets
      BY <1>2, <3>1
    <3>4. Faithful(D, first, e[m - 1], U(m - 1))
      BY <2>2
    <3>5. Faithful(D, first, DrainOne(e[m - 1], rest[m]), U(m))
      BY <1>2, <3>2, <3>3, <3>4, FaithfulStep
    <3> QED BY <1>3, <3>1, <3>5
  <2> HIDE DEF P
  <2> QED BY <1>2, <2>1, <2>2, UpTo
<1>7. SubSeq(rest, 1, n) = rest
  BY <1>1, SubSeqFull DEF n
<1>8. Faithful(D, first, e[n], U(n)) /\ n \in 0 .. n /\ e[n] \in DrainStates
  BY <1>2, <1>6
<1>9. U(n) = [sent |-> first, kept |-> rest, stopped |-> TRUE]
  BY <1>7 DEF U
<1>10. Now(D, U(n)) = D \o q
  <2> DEFINE w == Now(D, U(n))
             y == D \o q
             l == Len(D)
  <2>1. /\ U(n) \in DrainStates /\ U(n).sent = first /\ U(n).kept = rest
    BY <1>4, <1>7, <1>8
  <2>2. /\ w \in Seq(Sendable) /\ l \in Nat
        /\ Len(w) = l + 1 + n
        /\ \A i \in 1 .. l : w[i] = D[i]
        /\ w[l + 1] = first
        /\ \A i \in l + 2 .. l + 1 + n : w[i] = rest[i - (l + 1)]
    <3> DEFINE u == U(n)
    <3> HIDE DEF w
    <3>1. /\ Now(D, u) \in Seq(Sendable) /\ l \in Nat
          /\ Len(Now(D, u)) = l + 1 + Len(u.kept)
          /\ \A i \in 1 .. l : Now(D, u)[i] = D[i]
          /\ Now(D, u)[l + 1] = u.sent
          /\ \A i \in l + 2 .. l + 1 + Len(u.kept) :
                 Now(D, u)[i] = u.kept[i - (l + 1)]
      BY <2>1, NowAt
    <3>2. w = Now(D, u) /\ u.sent = first /\ u.kept = rest /\ Len(rest) = n
      BY <2>1 DEF w, n
    <3> HIDE DEF u, l
    <3> QED BY <3>1, <3>2
  <2>3. q \in Seq(Sendable) /\ Len(q) = n + 1 /\ q[1] = first
    <3>1. InputPackets \subseteq Sendable
      BY DEF Sendable
    <3>2. q \in Seq(Sendable)
      BY <3>1, SeqMonotonic
    <3>3. Len(q) \in Nat /\ Len(q) = n + 1 /\ q[1] = first
      BY <1>1 DEF n, first
    <3> QED BY <3>2, <3>3
  <2>4. /\ y \in Seq(Sendable) /\ Len(y) = l + Len(q)
        /\ \A i \in 1 .. l + Len(q) : y[i] = IF i <= l THEN D[i] ELSE q[i - l]
    BY <2>3, ConcatProperties
  <2> HIDE DEF w, y, l
  <2>5. Len(w) = Len(y)
    BY <1>2, <2>2, <2>3, <2>4
  <2>6. ASSUME NEW i \in 1 .. Len(w) PROVE w[i] = y[i]
    <3>1. i \in 1 .. l + Len(q) /\ i \in 1 .. l + 1 + n
      BY <2>2, <2>4, <2>5
    <3>2. CASE i <= l
      <4>1. i \in 1 .. l
        BY <2>2, <3>1, <3>2
      <4> QED BY <2>2, <2>4, <3>1, <3>2, <4>1
    <3>3. CASE i = l + 1
      <4>1. i - l = 1 /\ ~(i <= l)
        BY <2>2, <3>3
      <4>2. y[i] = q[i - l]
        BY <2>4, <3>1, <4>1
      <4> QED BY <2>2, <2>3, <3>3, <4>1, <4>2
    <3>4. CASE i > l + 1
      <4>1. /\ i \in l + 2 .. l + 1 + n /\ ~(i <= l)
            /\ i - (l + 1) \in 1 .. n /\ i - (l + 1) + 1 = i - l
        BY <1>2, <2>2, <3>1, <3>4
      <4>2. y[i] = q[i - l] /\ w[i] = rest[i - (l + 1)]
        BY <2>2, <2>4, <3>1, <4>1
      <4>3. rest[i - (l + 1)] = q[i - (l + 1) + 1]
        BY <1>1, <4>1 DEF n
      <4> QED BY <4>1, <4>2, <4>3
    <3> QED BY <2>2, <3>1, <3>2, <3>3, <3>4
  <2>7. w = y
    BY <2>2, <2>4, <2>5, <2>6, SeqEqual
  <2> QED BY <2>7 DEF w, y
<1>11. U(n) \in DrainStates
  BY <1>4, <1>8
<1> QED BY <1>3, <1>8, <1>9, <1>10, <1>11 DEF first, rest

-----------------------------------------------------------------------------
(* The packet queue: the invariant. What is queued or delivered says the   *)
(* same as what was received, for all that batching may change; and it is  *)
(* the order in which two queued packets were received that makes a sum    *)
(* that overflows, of a packet and a later one, a sum of two received.     *)
QueueInv ==
    /\ inbox \in Seq(InputPackets)
    /\ delivered \in Seq(Sendable)
    /\ received \in Seq(InputPackets)
    /\ Len(received) <= MaxReceived
    /\ tasks \in Nat /\ pushing \in BOOLEAN
    /\ tasks + (IF pushing THEN 1 ELSE 0) <= Len(received)
    /\ Len(inbox) <= tasks + (IF pushing THEN 1 ELSE 0)
    /\ Len(delivered) + Len(inbox) <= Len(received)
    /\ SameOrder(Stream, received)
    /\ LatestIn(Stream, received)
    /\ Embedded(inbox, received)
    /\ MotionKept

LEMMA QueueInitInv == QueueInit => QueueInv
<1> SUFFICES ASSUME QueueInit PROVE QueueInv
  OBVIOUS
<1>1. /\ inbox = <<>> /\ tasks = 0 /\ pushing = FALSE /\ received = <<>>
      /\ delivered = <<>>
  BY DEF QueueInit
<1>2. Stream = <<>>
  BY <1>1 DEF Stream
<1>3. SameOrder(Stream, received) /\ LatestIn(Stream, received)
  BY <1>1, <1>2 DEF SameOrder, LatestIn
<1>4. Embedded(inbox, received)
  BY <1>1 DEF Embedded
<1>5. MotionKept
  <2>1. received \in Seq(Sendable)
    BY <1>1
  <2>2. Motion(received) \in Int
    <3>1. CASE Sendable = {}
      <4>1. Deltas(received) = <<>>
        BY <1>1 DEF Deltas
      <4>2. <<>> \in Seq(Int) /\ 0 \in Int
        OBVIOUS
      <4>3. FoldLeft(Plus, 0, <<>>) \in Int
        BY <4>2, SumAppend
      <4> QED BY <4>1, <4>3 DEF Motion
    <3>2. CASE Sendable # {}
      <4>1. PICK p \in Sendable : TRUE
        BY <3>2
      <4> QED BY <2>1, <4>1, MotionAppend
    <3> QED BY <3>1, <3>2
  <2>3. Motion(received) - Motion(Stream) = 0
    BY <1>1, <1>2, <2>2
  <2>4. 0 % (2 * Half) = 0
    BY ZeroMod
  <2> QED BY <2>3, <2>4 DEF MotionKept
<1>6. MaxReceived \in Nat
  BY QueueAssumption
<1>7. /\ Len(received) <= MaxReceived
      /\ tasks + (IF pushing THEN 1 ELSE 0) <= Len(received)
      /\ Len(inbox) <= tasks + (IF pushing THEN 1 ELSE 0)
      /\ Len(delivered) + Len(inbox) <= Len(received)
  BY <1>1, <1>6
<1>8. /\ inbox \in Seq(InputPackets) /\ delivered \in Seq(Sendable)
      /\ received \in Seq(InputPackets) /\ tasks \in Nat /\ pushing \in BOOLEAN
  BY <1>1, EmptySeq
<1> QED BY <1>3, <1>4, <1>5, <1>7, <1>8 DEF QueueInv

(* A packet received is the last one of the stream.                        *)
LEMMA PassthroughInv ==
    ASSUME QueueInv, NEW p \in InputPackets, Passthrough(p)
    PROVE  QueueInv'
<1>1. /\ inbox \in Seq(InputPackets) /\ delivered \in Seq(Sendable)
      /\ received \in Seq(InputPackets) /\ tasks \in Nat
      /\ MaxReceived \in Nat
      /\ inbox' = Append(inbox, p) /\ received' = Append(received, p)
      /\ pushing = FALSE /\ pushing' = TRUE
      /\ tasks' = tasks /\ delivered' = delivered
      /\ Len(received) < MaxReceived
  BY QueueAssumption DEF QueueInv, Passthrough
<1>2. /\ Len(inbox') = Len(inbox) + 1 /\ Len(received') = Len(received) + 1
      /\ Len(inbox) \in Nat /\ Len(received) \in Nat /\ Len(delivered) \in Nat
      /\ inbox' \in Seq(InputPackets) /\ received' \in Seq(InputPackets)
  BY <1>1
<1>3. /\ Len(received') <= MaxReceived
      /\ tasks' + (IF pushing' THEN 1 ELSE 0) <= Len(received')
      /\ Len(inbox') <= tasks' + (IF pushing' THEN 1 ELSE 0)
      /\ Len(delivered') + Len(inbox') <= Len(received')
  BY <1>1, <1>2 DEF QueueInv
<1>4. InputPackets \subseteq Sendable /\ p \in Sendable
  BY DEF Sendable
<1>5. inbox \in Seq(Sendable) /\ received \in Seq(Sendable)
  BY <1>1, <1>4, SeqMonotonic
<1>6. Stream \in Seq(Sendable)
  BY <1>1, <1>5, ConcatProperties DEF Stream
<1>7. Stream' = Append(Stream, p)
  BY <1>1, <1>4, <1>5, ConcatAppend DEF Stream
<1>8. SameOrder(Stream', received')
  BY <1>1, <1>4, <1>5, <1>6, <1>7, OrderAppend DEF QueueInv
<1>9. LatestIn(Stream', received')
  BY <1>1, <1>4, <1>5, <1>6, <1>7, LatestAppend DEF QueueInv
<1>10. Embedded(inbox', received')
  BY <1>1, EmbeddedAppend DEF QueueInv
<1>11. MotionKept'
  <2>1. /\ Motion(received') = Motion(received) + Delta(p)
        /\ Motion(Stream') = Motion(Stream) + Delta(p)
        /\ Motion(received) \in Int /\ Motion(Stream) \in Int
        /\ Delta(p) \in Int
    BY <1>1, <1>4, <1>5, <1>6, <1>7, MotionAppend, RelativeDeltas
  <2>2. Motion(received') - Motion(Stream') = Motion(received) - Motion(Stream)
    BY <2>1
  <2>3. SumOverflows => SumOverflows'
    <3> SUFFICES ASSUME NEW m \in DOMAIN received, NEW n \in DOMAIN received,
                        m # n,
                        Overflows(Delta(received[m]), Delta(received[n]))
                 PROVE  SumOverflows'
      BY DEF SumOverflows
    <3>1. /\ m \in DOMAIN received' /\ n \in DOMAIN received'
          /\ received'[m] = received[m] /\ received'[n] = received[n]
      BY <1>1
    <3> QED BY <3>1 DEF SumOverflows
  <2>4. /\ (Motion(received) - Motion(Stream)) % (2 * Half) = 0
        /\ ~SumOverflows => Motion(received) - Motion(Stream) = 0
    BY DEF QueueInv, MotionKept
  <2> QED BY <2>2, <2>3, <2>4, Zenon DEF MotionKept
<1> QED BY <1>1, <1>2, <1>3, <1>8, <1>9, <1>10, <1>11 DEF QueueInv

(* The sum of two multiples is one.                                        *)
LEMMA ModSum ==
    ASSUME NEW K \in Nat \ {0}, NEW a \in Int, NEW b \in Int,
           a % K = 0, b % K = 0
    PROVE  (a + b) % K = 0
<1>1. a \div K \in Int /\ b \div K \in Int
  OBVIOUS
<1>2. a = K * (a \div K) + (a % K) /\ b = K * (b \div K) + (b % K)
  OBVIOUS
<1>3. a + b = K * ((a \div K) + (b \div K)) + 0
  BY <1>1, <1>2, Z3
<1>4. (a \div K) + (b \div K) \in Int /\ 0 \in 0 .. K - 1
  BY <1>1
<1>5. (K * ((a \div K) + (b \div K)) + 0) % K = 0
  BY <1>4, ModUnique
<1> QED BY <1>3, <1>5

(* Pushing the task of a packet changes no packet.                         *)
LEMMA PushTaskInv ==
    ASSUME QueueInv, PushTask
    PROVE  QueueInv'
<1>1. /\ pushing = TRUE /\ pushing' = FALSE /\ tasks' = tasks + 1
      /\ inbox' = inbox /\ received' = received /\ delivered' = delivered
      /\ tasks \in Nat
  BY DEF PushTask, QueueInv
<1>2. Stream' = Stream
  BY <1>1 DEF Stream
<1>3. SumOverflows' <=> SumOverflows
  BY <1>1 DEF SumOverflows
<1>4. MotionKept'
  BY <1>1, <1>2, <1>3, Zenon DEF QueueInv, MotionKept
<1>5. /\ tasks' + (IF pushing' THEN 1 ELSE 0) <= Len(received')
      /\ Len(inbox') <= tasks' + (IF pushing' THEN 1 ELSE 0)
  BY <1>1 DEF QueueInv
<1>6. /\ SameOrder(Stream', received') /\ LatestIn(Stream', received')
      /\ Embedded(inbox', received')
  BY <1>1, <1>2 DEF QueueInv
<1>7. /\ inbox' \in Seq(InputPackets) /\ delivered' \in Seq(Sendable)
      /\ received' \in Seq(InputPackets) /\ Len(received') <= MaxReceived
      /\ Len(delivered') + Len(inbox') <= Len(received')
  BY <1>1 DEF QueueInv
<1>8. tasks' \in Nat
  BY <1>1
<1>9. pushing' \in BOOLEAN
  BY <1>1, Zenon
<1> QED BY <1>4, <1>5, <1>6, <1>7, <1>8, <1>9 DEF QueueInv

(* A run of the worker's task.                                             *)
LEMMA NextMessageInv ==
    ASSUME QueueInv, PassthroughNextMessage
    PROVE  QueueInv'
<1>1. /\ tasks > 0 /\ tasks' = tasks - 1 /\ tasks \in Nat
      /\ pushing' = pushing /\ pushing \in BOOLEAN /\ received' = received
      /\ inbox \in Seq(InputPackets) /\ delivered \in Seq(Sendable)
      /\ received \in Seq(InputPackets) /\ Len(received) \in Nat
      /\ Len(received) <= MaxReceived
  BY DEF PassthroughNextMessage, QueueInv
<1>2. /\ tasks + (IF pushing THEN 1 ELSE 0) <= Len(received)
      /\ Len(inbox) <= tasks + (IF pushing THEN 1 ELSE 0)
      /\ Len(delivered) + Len(inbox) <= Len(received)
      /\ Len(inbox) \in Nat /\ Len(delivered) \in Nat
  BY <1>1 DEF QueueInv
<1>3. SumOverflows' <=> SumOverflows
  BY <1>1 DEF SumOverflows
<1>4. CASE inbox = <<>> /\ inbox' = inbox /\ delivered' = delivered
  <2>1. Stream' = Stream
    BY <1>4 DEF Stream
  <2>2. MotionKept'
    BY <1>1, <1>3, <2>1, Zenon DEF QueueInv, MotionKept
  <2>3. /\ tasks' \in Nat
        /\ tasks' + (IF pushing' THEN 1 ELSE 0) <= Len(received')
        /\ Len(inbox') <= tasks' + (IF pushing' THEN 1 ELSE 0)
        /\ Len(delivered') + Len(inbox') <= Len(received')
    BY <1>1, <1>2, <1>4
  <2> QED BY <1>1, <1>4, <2>1, <2>2, <2>3 DEF QueueInv
<1>5. CASE /\ inbox # <<>>
           /\ inbox' = Drain(Head(inbox), Tail(inbox)).kept
           /\ delivered' = Append(delivered, Drain(Head(inbox), Tail(inbox)).sent)
  <2> DEFINE r == Drain(Head(inbox), Tail(inbox))
             u == [sent |-> Head(inbox), kept |-> Tail(inbox), stopped |-> TRUE]
             first == Head(inbox)
             K == 2 * Half
  <2>1. /\ r \in DrainStates /\ u \in DrainStates
        /\ Faithful(delivered, first, r, u)
        /\ Now(delivered, u) = delivered \o inbox
    BY <1>1, <1>5, DrainFaithful
  <2>2. /\ u.kept = Tail(inbox) /\ Len(Tail(inbox)) = Len(inbox) - 1
        /\ Tail(inbox) \in Seq(InputPackets) /\ first \in InputPackets
        /\ \A i \in 1 .. Len(Tail(inbox)) : Tail(inbox)[i] = inbox[i + 1]
        /\ inbox[1] = first /\ 1 \in DOMAIN inbox
        /\ DOMAIN inbox = 1 .. Len(inbox)
    BY <1>1, <1>5, HeadTailProperties
  <2> HIDE DEF r, u, first
  <2>3. r.sent \in Sendable /\ r.kept \in Seq(InputPackets)
    BY <2>1 DEF DrainStates
  <2>4. inbox' = r.kept /\ delivered' = Append(delivered, r.sent)
    BY <1>5 DEF r
  <2>5. Stream' = Now(delivered, r) /\ Stream = Now(delivered, u)
    BY <2>1, <2>4 DEF Stream, Now
  <2>6. /\ Len(r.kept) <= Len(u.kept) /\ Embedded(r.kept, u.kept)
        /\ SameOrder(Stream', Stream) /\ LatestIn(Stream', Stream)
        /\ MotionHeld(delivered, first, r, u)
    BY <2>1, <2>5 DEF Faithful
  <2>7. /\ tasks' \in Nat
        /\ tasks' + (IF pushing' THEN 1 ELSE 0) <= Len(received')
        /\ Len(inbox') <= tasks' + (IF pushing' THEN 1 ELSE 0)
        /\ Len(delivered') + Len(inbox') <= Len(received')
        /\ inbox' \in Seq(InputPackets) /\ delivered' \in Seq(Sendable)
    <3>1. Len(delivered') = Len(delivered) + 1 /\ delivered' \in Seq(Sendable)
      BY <1>1, <2>3, <2>4
    <3>2. Len(inbox') <= Len(inbox) - 1 /\ Len(inbox') \in Nat
      BY <2>2, <2>3, <2>4, <2>6
    <3>3. inbox' \in Seq(InputPackets)
      BY <2>3, <2>4
    <3> QED BY <1>1, <1>2, <3>1, <3>2, <3>3
  <2>8. SameOrder(Stream', received')
    BY <1>1, <2>6 DEF QueueInv, SameOrder
  <2>9. LatestIn(Stream', received')
    BY <1>1, <2>6, LatestThrough DEF QueueInv
  <2>10. Embedded(inbox', received')
    <3>1. Embedded(Tail(inbox), inbox)
      BY <1>1, <1>5, TailEmbedded
    <3>2. Embedded(r.kept, inbox)
      BY <2>2, <2>6, <3>1, EmbeddedThrough
    <3>3. Embedded(r.kept, received)
      BY <3>2, EmbeddedThrough DEF QueueInv
    <3> QED BY <1>1, <2>4, <3>3
  <2>11. MotionKept'
    <3> DEFINE was == Motion(received) - Motion(Stream)
               off == Motion(Stream) - Motion(Stream')
    <3>1. /\ Motion(received) \in Int /\ Motion(Stream) \in Int
          /\ Motion(Stream') \in Int /\ received' = received
      <4>1. /\ Now(delivered, r) \in Seq(Sendable)
            /\ Now(delivered, u) \in Seq(Sendable)
        BY <1>1, <2>1, NowAt
      <4>2. received \in Seq(Sendable)
        <5>1. InputPackets \subseteq Sendable
          BY DEF Sendable
        <5> QED BY <1>1, <5>1, SeqMonotonic
      <4> QED BY <1>1, <2>3, <2>5, <4>1, <4>2, MotionAppend
    <3>2. K \in Nat \ {0}
      BY QueueAssumption
    <3>3. was % K = 0 /\ (~SumOverflows => was = 0)
      BY DEF QueueInv, MotionKept
    <3>4. off % K = 0
      BY <2>5, <2>6 DEF MotionHeld
    <3>5. Motion(received') - Motion(Stream') = was + off
      BY <3>1
    <3>6. (was + off) % K = 0
      <4>1. was \in Int /\ off \in Int
        BY <3>1
      <4> HIDE DEF was, off, K
      <4> QED BY <3>2, <3>3, <3>4, <4>1, ModSum
    <3>7. off = 0 \/ SumOverflows
      <4>1. \/ Motion(Stream) = Motion(Stream')
            \/ \E j \in 1 .. Len(u.kept) :
                   Overflows(Delta(first), Delta(u.kept[j]))
        BY <2>5, <2>6 DEF MotionHeld
      <4>2. CASE Motion(Stream) = Motion(Stream')
        BY <3>1, <4>2
      <4>3. ASSUME NEW j \in 1 .. Len(u.kept),
                   Overflows(Delta(first), Delta(u.kept[j]))
            PROVE  SumOverflows
        <5>1. u.kept[j] = inbox[j + 1] /\ j + 1 \in DOMAIN inbox /\ 1 < j + 1
          <6>1. j + 1 \in 1 .. Len(inbox) /\ j \in 1 .. Len(Tail(inbox))
            BY <1>2, <2>2
          <6> QED BY <2>2, <6>1
        <5>2. 1 <= j + 1
          BY <5>1
        <5>3. PICK k \in DOMAIN received, l \in DOMAIN received :
                  /\ k <= l /\ (1 < j + 1 => k < l)
                  /\ inbox[1] = received[k] /\ inbox[j + 1] = received[l]
          BY <2>2, <5>1, <5>2 DEF QueueInv, Embedded
        <5>4. k # l
          BY <1>1, <5>1, <5>3
        <5>5. Overflows(Delta(received[k]), Delta(received[l]))
          BY <2>2, <4>3, <5>1, <5>3
        <5> QED BY <5>4, <5>5 DEF SumOverflows
      <4> QED BY <4>1, <4>2, <4>3
    <3>8. ~SumOverflows => was + off = 0
      BY <3>3, <3>7
    <3> HIDE DEF was, off
    <3> QED BY <1>3, <3>5, <3>6, <3>8 DEF MotionKept
  <2> QED BY <1>1, <2>7, <2>8, <2>9, <2>10, <2>11 DEF QueueInv
<1> QED BY <1>4, <1>5 DEF PassthroughNextMessage

LEMMA QueueStepInv == QueueInv /\ [QueueNext]_queueVars => QueueInv'
<1> SUFFICES ASSUME QueueInv, [QueueNext]_queueVars
             PROVE  QueueInv'
  OBVIOUS
<1>1. ASSUME NEW p \in InputPackets, Passthrough(p) PROVE QueueInv'
  BY <1>1, PassthroughInv
<1>2. CASE PushTask
  BY <1>2, PushTaskInv
<1>3. CASE PassthroughNextMessage
  BY <1>3, NextMessageInv
<1>4. CASE UNCHANGED queueVars
  <2>1. /\ inbox' = inbox /\ tasks' = tasks /\ pushing' = pushing
        /\ received' = received /\ delivered' = delivered
    BY <1>4 DEF queueVars
  <2>2. Stream' = Stream /\ (SumOverflows' <=> SumOverflows)
    BY <2>1 DEF Stream, SumOverflows
  <2>3. MotionKept'
    BY <2>1, <2>2, Zenon DEF QueueInv, MotionKept
  <2> QED BY <2>1, <2>2, <2>3 DEF QueueInv
<1> QED BY <1>1, <1>2, <1>3, <1>4 DEF QueueNext

(* QueueInv holds throughout: the two threads of passthrough() and         *)
(* passthrough_next_message(), in any interleaving.                        *)
THEOREM QueueSpecInv == QueueSpec => []QueueInv
<1>1. QueueInit => QueueInv
  BY QueueInitInv
<1>2. QueueInv /\ [QueueNext]_queueVars => QueueInv'
  BY QueueStepInv
<1> QED BY <1>1, <1>2, PTL DEF QueueSpec

(* There is a task for every packet in the queue, however many packets     *)
(* earlier tasks took.                                                     *)
THEOREM EveryPacketHasTask == QueueSpec => []NothingStranded
<1>1. QueueInv => NothingStranded
  <2> SUFFICES ASSUME QueueInv PROVE NothingStranded
    OBVIOUS
  <2>1. /\ inbox \in Seq(InputPackets) /\ received \in Seq(InputPackets)
        /\ tasks \in Nat /\ pushing \in BOOLEAN /\ MaxReceived \in Nat
        /\ Len(received) \in Nat /\ Len(inbox) \in Nat
        /\ Len(received) <= MaxReceived
        /\ tasks + (IF pushing THEN 1 ELSE 0) <= Len(received)
        /\ Len(delivered) + Len(inbox) <= Len(received)
        /\ delivered \in Seq(Sendable)
    BY QueueAssumption DEF QueueInv
  <2>2. Len(delivered) \in Nat
    BY <2>1
  <2>3. tasks \in 0 .. MaxReceived /\ Len(delivered) <= Len(received)
    BY <2>1, <2>2
  <2>4. \A p \in ToSet(inbox) : p \in InputPackets
    BY <2>1 DEF ToSet
  <2> QED BY <2>1, <2>3, <2>4 DEF QueueInv, NothingStranded, QueueTypeOK
<1> QED BY <1>1, QueueSpecInv, PTL

(* batch() never hides a transition, nor lets a packet overtake input of   *)
(* another kind.                                                           *)
THEOREM BatchingKeepsOrder == QueueSpec => []OrderKept
<1>1. QueueInv => OrderKept
  BY DEF QueueInv, SameOrder, OrderKept, TransitionsKept, KindsInOrder
<1> QED BY <1>1, QueueSpecInv, PTL

(* batch() loses no latest position and no motion, but for the sums that   *)
(* overflow a short.                                                       *)
THEOREM BatchingKeepsContent == QueueSpec => []ContentKept
<1>1. QueueInv => ContentKept
  BY DEF QueueInv, LatestIn, ContentKept, LatestKept
<1> QED BY <1>1, QueueSpecInv, PTL
=============================================================================
