---------------------------- MODULE InputButtons ----------------------------
(***************************************************************************)
(* The buttons and keys a client holds down (input.cpp), as Solari tracks  *)
(* them and as the platform was told, from the packets of a session to the *)
(* reset() of the join that reaps it.                                      *)
(*                                                                         *)
(* Actors: the control thread, which queues packets while a session lasts; *)
(* the thread that joins it and calls reset(); the pool's one worker,      *)
(* which takes queued tasks in order, and timed tasks when none is queued  *)
(* (module ThreadPool). A session resumed by the same client goes on with  *)
(* the same input_t. Each packet has a task of its own, and packets of     *)
(* buttons and keys are never batched (module InputQueue). The config      *)
(* leaves mouse, keyboard and key repeat enabled.                          *)
(*                                                                         *)
(* The id of a timed task is the task's address: that of a task that has   *)
(* run or was cancelled may be given to a new one while mouse_left_button_ *)
(* timeout or key_press_repeat_id still remembers it.                      *)
(***************************************************************************)
EXTENDS Naturals, Sequences

CONSTANTS
    Keys,
    Ids,            \* task ids: the addresses of the timed tasks
    MaxButtonPackets,   \* bound: the packets clients send
    MaxButtonsQueued,   \* bound: how many of them wait for the worker
    MaxButtonSessions,  \* bound: the sessions, one after the other
    Unset

Buttons == {"left", "right"}

ASSUME ButtonsAssumption ==
    /\ MaxButtonPackets \in Nat
    /\ MaxButtonsQueued \in Nat
    /\ MaxButtonSessions \in Nat \ {0}
    /\ {Unset, "left", "disable", "null"} \cap (Keys \cup Ids) = {}
    /\ Unset \notin {"left", "disable", "null"}

Move(kind) == [kind |-> kind]
Button(b, release) == [kind |-> "button", button |-> b, release |-> release]
Key(k, release) == [kind |-> "key", key |-> k, release |-> release]

ButtonPackets ==
    {Move("abs"), Move("rel")}
    \cup {Button(b, r) : b \in Buttons, r \in BOOLEAN}
    \cup {Key(k, r) : k \in Keys, r \in BOOLEAN}

Reset == [kind |-> "reset"]

Nothing == <<Unset, Unset>>

VARIABLES
    buttonSession,  \* "open", "joined", the steps of reset(), "closed"
    sessions,       \* how many sessions there have been
    buttonsSent,    \* how many packets
    buttonQueue,    \* tasks in the pool: packets and resets
    timers,         \* timed tasks by id: "left", or the key to repeat
    storing,        \* the id a task was given and is about to store, and
                    \* what the timed task is for
    mousePress,     \* mouse_press
    osButton,       \* the buttons the platform was told are down
    leftTimeout,    \* input_t::mouse_left_button_timeout
    keyPress,       \* key_press
    osKey,          \* the keys the platform was told are down
    repeatId        \* key_press_repeat_id

sessionVars == <<buttonSession, sessions, buttonsSent>>
mouseVars   == <<mousePress, osButton, leftTimeout>>
keyVars     == <<keyPress, osKey, repeatId>>
buttonsVars == <<sessionVars, buttonQueue, timers, storing, mouseVars,
                 keyVars>>

ButtonsTypeOK ==
    /\ buttonSession \in {"open", "joined", "repeat cancelled",
                          "left cancelled", "closed"}
    /\ sessions \in 1 .. MaxButtonSessions
    /\ buttonsSent \in 0 .. MaxButtonPackets
    /\ buttonQueue \in Seq(ButtonPackets \cup {Reset})
    /\ timers \in [Ids -> Keys \cup {"left", Unset}]
    /\ storing \in (Ids \X (Keys \cup {"left"})) \cup {Nothing}
    /\ mousePress \in [Buttons -> BOOLEAN]
    /\ osButton \in [Buttons -> BOOLEAN]
    /\ leftTimeout \in Ids \cup {"disable", "null"}
    /\ keyPress \in [Keys -> BOOLEAN]
    /\ osKey \in [Keys -> BOOLEAN]
    /\ repeatId \in Ids \cup {Unset}

ButtonsInit ==
    /\ buttonSession = "open"
    /\ sessions = 1
    /\ buttonsSent = 0
    /\ buttonQueue = <<>>
    /\ timers = [i \in Ids |-> Unset]
    /\ storing = Nothing
    /\ mousePress = [b \in Buttons |-> FALSE]
    /\ osButton = [b \in Buttons |-> FALSE]
    /\ leftTimeout = "null"
    /\ keyPress = [k \in Keys |-> FALSE]
    /\ osKey = [k \in Keys |-> FALSE]
    /\ repeatId = Unset

-----------------------------------------------------------------------------
(* Timed tasks.                                                            *)

Without(id) == [i \in Ids |-> IF i = id THEN Unset ELSE timers[i]]

(* pushDelayed: the new task's address is none that a task has, not even   *)
(* the one that runs. It is stored by the next step of the task.           *)
Arm(table, task, running) ==
    \E i \in {j \in Ids : table[j] = Unset} \ {running} :
        /\ timers' = [table EXCEPT ![i] = task]
        /\ storing' = <<i, task>>

-----------------------------------------------------------------------------
(* Control thread and joining thread.                                      *)

ReceiveButton(p) ==
    /\ buttonSession = "open"
    /\ buttonsSent < MaxButtonPackets
    /\ Len(buttonQueue) < MaxButtonsQueued
    /\ buttonsSent' = buttonsSent + 1
    /\ buttonQueue' = Append(buttonQueue, p)
    /\ UNCHANGED <<buttonSession, sessions, timers, storing, mouseVars,
                   keyVars>>

(* The session was taken out of the control thread's list: controlEnd.     *)
JoinButtons ==
    /\ buttonSession = "open"
    /\ buttonSession' = "joined"
    /\ UNCHANGED <<sessions, buttonsSent, buttonQueue, timers, storing,
                   mouseVars, keyVars>>

ResetCancelsRepeat ==
    /\ buttonSession = "joined"
    /\ buttonSession' = "repeat cancelled"
    /\ timers' = Without(repeatId)
    /\ UNCHANGED <<sessions, buttonsSent, buttonQueue, storing, mouseVars,
                   keyVars>>

ResetCancelsLeft ==
    /\ buttonSession = "repeat cancelled"
    /\ buttonSession' = "left cancelled"
    /\ timers' = Without(leftTimeout)
    /\ UNCHANGED <<sessions, buttonsSent, buttonQueue, storing, mouseVars,
                   keyVars>>

ResetPushes ==
    /\ buttonSession = "left cancelled"
    /\ buttonSession' = "closed"
    /\ buttonQueue' = Append(buttonQueue, Reset)
    /\ UNCHANGED <<sessions, buttonsSent, timers, storing, mouseVars, keyVars>>

Resume ==
    /\ buttonSession = "closed"
    /\ sessions < MaxButtonSessions
    /\ buttonSession' = "open"
    /\ sessions' = sessions + 1
    /\ UNCHANGED <<buttonsSent, buttonQueue, timers, storing, mouseVars,
                   keyVars>>

-----------------------------------------------------------------------------
(* Worker: queued tasks.                                                   *)

TakeButton(p) ==
    /\ storing = Nothing
    /\ buttonQueue # <<>>
    /\ Head(buttonQueue) = p
    /\ buttonQueue' = Tail(buttonQueue)

RelMove ==
    /\ TakeButton(Move("rel"))
    /\ leftTimeout' = "disable"
    /\ UNCHANGED <<sessionVars, timers, storing, mousePress, osButton,
                   keyVars>>

AbsMove ==
    /\ TakeButton(Move("abs"))
    /\ leftTimeout' = IF leftTimeout = "disable" THEN "null" ELSE leftTimeout
    /\ UNCHANGED <<sessionVars, timers, storing, mousePress, osButton,
                   keyVars>>

(* The button already is what the packet wants.                            *)
ButtonIdle(b, release) ==
    /\ TakeButton(Button(b, release))
    /\ mousePress[b] # release
    /\ UNCHANGED <<sessionVars, timers, storing, mouseVars, keyVars>>

(* BUTTON_LEFT is released 10 ms later after absolute coordinates.         *)
DelayLeft ==
    /\ TakeButton(Button("left", TRUE))
    /\ mousePress["left"]
    /\ leftTimeout = "null"
    /\ mousePress' = [mousePress EXCEPT !["left"] = FALSE]
    /\ Arm(timers, "left", Unset)
    /\ UNCHANGED <<sessionVars, osButton, leftTimeout, keyVars>>

StoreLeft ==
    /\ storing[2] = "left"
    /\ leftTimeout' = storing[1]
    /\ storing' = Nothing
    /\ UNCHANGED <<sessionVars, buttonQueue, timers, mousePress, osButton,
                   keyVars>>

(* BUTTON_RIGHT pressed while leftTimeout is an id: pressed and released.  *)
ClickRight ==
    /\ TakeButton(Button("right", FALSE))
    /\ ~mousePress["right"]
    /\ leftTimeout \in Ids
    /\ osButton' = [osButton EXCEPT !["right"] = FALSE]
    /\ UNCHANGED <<sessionVars, timers, storing, mousePress, leftTimeout,
                   keyVars>>

PassButton(b, release) ==
    /\ TakeButton(Button(b, release))
    /\ mousePress[b] = release
    /\ ~(b = "left" /\ release /\ leftTimeout = "null")
    /\ ~(b = "right" /\ ~release /\ leftTimeout \in Ids)
    /\ mousePress' = [mousePress EXCEPT ![b] = ~release]
    /\ osButton' = [osButton EXCEPT ![b] = ~release]
    /\ UNCHANGED <<sessionVars, timers, storing, leftTimeout, keyVars>>

KeyIdle(k, release) ==
    /\ TakeButton(Key(k, release))
    /\ keyPress[k] # release
    /\ UNCHANGED <<sessionVars, timers, storing, mouseVars, keyVars>>

(* Faulty variant: the repeat of the key pressed before goes on.           *)
PressKeyKeepsRepeat(k) ==
    /\ TakeButton(Key(k, FALSE))
    /\ ~keyPress[k]
    /\ Arm(timers, k, Unset)
    /\ keyPress' = [keyPress EXCEPT ![k] = TRUE]
    /\ osKey' = [osKey EXCEPT ![k] = TRUE]
    /\ UNCHANGED <<sessionVars, mouseVars, repeatId>>

(* The repeat of the key pressed before is cancelled, another one armed.   *)
(* After a reset() the id may be another task's by now.                    *)
PressKey(k) ==
    /\ TakeButton(Key(k, FALSE))
    /\ ~keyPress[k]
    /\ Arm(Without(repeatId), k, Unset)
    /\ keyPress' = [keyPress EXCEPT ![k] = TRUE]
    /\ osKey' = [osKey EXCEPT ![k] = TRUE]
    /\ UNCHANGED <<sessionVars, mouseVars, repeatId>>

StoreRepeat ==
    /\ storing[2] \in Keys
    /\ repeatId' = storing[1]
    /\ storing' = Nothing
    /\ UNCHANGED <<sessionVars, buttonQueue, timers, mouseVars, keyPress,
                   osKey>>

ReleaseKey(k) ==
    /\ TakeButton(Key(k, TRUE))
    /\ keyPress[k]
    /\ keyPress' = [keyPress EXCEPT ![k] = FALSE]
    /\ osKey' = [osKey EXCEPT ![k] = FALSE]
    /\ UNCHANGED <<sessionVars, timers, storing, mouseVars, repeatId>>

(* Faulty variant: the keys are forgotten, the platform is not told.       *)
ResetInputStateForgets ==
    /\ TakeButton(Reset)
    /\ osButton' = [b \in Buttons |-> osButton[b] /\ ~mousePress[b]]
    /\ mousePress' = [b \in Buttons |-> FALSE]
    /\ keyPress' = [k \in Keys |-> FALSE]
    /\ UNCHANGED <<sessionVars, timers, storing, leftTimeout, osKey,
                   repeatId>>

(* reset_mouse_buttons and reset_keyboard_keys release what is tracked.    *)
ResetInputState ==
    /\ TakeButton(Reset)
    /\ osButton' = [b \in Buttons |-> osButton[b] /\ ~mousePress[b]]
    /\ mousePress' = [b \in Buttons |-> FALSE]
    /\ osKey' = [k \in Keys |-> osKey[k] /\ ~keyPress[k]]
    /\ keyPress' = [k \in Keys |-> FALSE]
    /\ UNCHANGED <<sessionVars, timers, storing, leftTimeout, repeatId>>

-----------------------------------------------------------------------------
(* Worker: timed tasks, when no task is queued.                            *)

Fire(i, task) ==
    /\ storing = Nothing
    /\ buttonQueue = <<>>
    /\ timers[i] = task

(* Faulty variant: the delayed release is dropped.                         *)
LeftTimerDrops(i) ==
    /\ Fire(i, "left")
    /\ timers' = Without(i)
    /\ leftTimeout' = "null"
    /\ UNCHANGED <<sessionVars, buttonQueue, storing, mousePress, osButton,
                   keyVars>>

(* The delayed release, unless the button has been pressed again.          *)
LeftTimer(i) ==
    /\ Fire(i, "left")
    /\ timers' = Without(i)
    /\ \/ /\ mousePress["left"]
          /\ UNCHANGED <<osButton, leftTimeout>>
       \/ /\ ~mousePress["left"]
          /\ osButton' = [osButton EXCEPT !["left"] = FALSE]
          /\ leftTimeout' = "null"
    /\ UNCHANGED <<sessionVars, buttonQueue, storing, mousePress, keyVars>>

(* repeat_key: a pressed key is sent again and the next repeat armed.      *)
RepeatKey(i, k) ==
    /\ Fire(i, k)
    /\ \/ /\ keyPress[k]
          /\ osKey' = [osKey EXCEPT ![k] = TRUE]
          /\ Arm(Without(i), k, i)
          /\ UNCHANGED repeatId
       \/ /\ ~keyPress[k]
          /\ repeatId' = Unset
          /\ timers' = Without(i)
          /\ UNCHANGED <<storing, osKey>>
    /\ UNCHANGED <<sessionVars, buttonQueue, mouseVars, keyPress>>

Client == JoinButtons \/ Resume \/ \E p \in ButtonPackets : ReceiveButton(p)

Joiner == ResetCancelsRepeat \/ ResetCancelsLeft \/ ResetPushes

Queued ==
    \/ RelMove
    \/ AbsMove
    \/ DelayLeft
    \/ ClickRight
    \/ ResetInputState
    \/ \E b \in Buttons, r \in BOOLEAN : ButtonIdle(b, r) \/ PassButton(b, r)
    \/ \E k \in Keys : PressKey(k) \/ ReleaseKey(k)
    \/ \E k \in Keys, r \in BOOLEAN : KeyIdle(k, r)

Stored == StoreLeft \/ StoreRepeat

ButtonsNext ==
    \/ Client
    \/ Joiner
    \/ Queued
    \/ Stored
    \/ \E i \in Ids : LeftTimer(i) \/ \E k \in Keys : RepeatKey(i, k)

ButtonsSpec == ButtonsInit /\ [][ButtonsNext]_buttonsVars

(* Tasks end, queued tasks are taken, timers become due and are taken.     *)
Fairness ==
    /\ WF_buttonsVars(Joiner)
    /\ WF_buttonsVars(Queued)
    /\ WF_buttonsVars(Stored)
    /\ \A i \in Ids : SF_buttonsVars(LeftTimer(i))

ButtonsFairSpec == ButtonsSpec /\ Fairness

-----------------------------------------------------------------------------
(* Properties.                                                             *)

(* One key repeats at a time: pressing a key ends the repeat of the one    *)
(* before, whatever resets, resumes and reused ids came in between.        *)
OneRepeat ==
    \A i, j \in Ids : timers[i] \in Keys /\ timers[j] \in Keys => i = j

(* The reset of a closed session has run.                                  *)
Settled == buttonSession = "closed" /\ buttonQueue = <<>> /\ storing = Nothing

(* "Reset input on session stop to avoid stuck repeated keys": no key is   *)
(* down then, though packets and timers were queued when reset() began.    *)
NoKeyLeftDown == Settled => \A k \in Keys : ~osKey[k]

LeftDelayed ==
    /\ osButton["left"] /\ ~mousePress["left"]
    /\ \E i \in Ids : timers[i] = "left"

(* key_press_repeat_id, cancelled but never cleared by a reset(), is by    *)
(* now the address of the delayed release: the next key cancels that.      *)
Aliased == repeatId \in Ids /\ timers[repeatId] = "left"

(* A left button whose release is delayed is released, unless it is        *)
(* pressed again, the release has the address of an old key repeat, or the *)
(* session ends first. At its end the button stays down for good: reset()  *)
(* cancels the release, and reset_mouse_buttons finds it no longer pressed.*)
LeftIsReleased ==
    LeftDelayed ~>
        \/ ~osButton["left"] \/ mousePress["left"]
        \/ buttonSession # "open"
        \/ Aliased
=============================================================================
