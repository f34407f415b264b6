---------------------------- MODULE MCInputQueue ----------------------------
(***************************************************************************)
(* A few packets of every kind batch() knows, enough to tell its tests     *)
(* apart, and relative motion whose sums overflow.                         *)
(***************************************************************************)
EXTENDS InputQueue

Other == [kind |-> "other", at |-> 1]

Mouse ==
    {[kind |-> "abs", size |-> z, at |-> a] : z \in {1, 2}, a \in {1, 2}}
    \cup {[kind |-> "rel", dx |-> x, dy |-> x] : x \in {-5, 1, 5}}
    \cup {[kind |-> k, dx |-> x] : k \in {"scroll", "hscroll"}, x \in {-8, 7}}
    \cup {Other}

Pads ==
    {[kind |-> "pad", ctrl |-> c, mask |-> 3, buttons |-> b, at |-> a] :
        c \in {0, 1}, b \in {0, 1}, a \in {1, 2}}
    \cup {[kind |-> "pad", ctrl |-> 0, mask |-> 1, buttons |-> 0, at |-> 1],
          Other}

Motions ==
    {[kind |-> "motion", ctrl |-> 0, sensor |-> 1, at |-> a] : a \in {1, 2}}
    \cup {[kind |-> "motion", ctrl |-> c, sensor |-> 2 - c, at |-> 1] :
        c \in {0, 1}}

Contacts ==
    {[kind |-> "touch", event |-> e, pointer |-> p, at |-> 1] :
        e \in {"down", "up", "hover"}, p \in {1, 2}}
    \cup {[kind |-> "touch", event |-> "move", pointer |-> p, at |-> a] :
        p \in {1, 2}, a \in {1, 2}}

PadContacts ==
    {[kind |-> "padtouch", event |-> e, ctrl |-> 0, pointer |-> p, at |-> 1] :
        e \in {"move", "down"}, p \in {1, 2}}
    \cup {[kind |-> "padtouch", event |-> "move", ctrl |-> 1, pointer |-> 1,
           at |-> 1]}

Pens ==
    {[kind |-> "pen", event |-> e, buttons |-> b, tool |-> 1, at |-> 1] :
        e \in {"move", "hover", "down"}, b \in {0, 1}}
    \cup {[kind |-> "pen", event |-> "move", buttons |-> 0, tool |-> 2, at |-> 2]}

AllPackets == Mouse \cup Pads \cup Motions \cup Contacts \cup PadContacts \cup Pens
=============================================================================
