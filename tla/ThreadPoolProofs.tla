--------------------------- MODULE ThreadPoolProofs ---------------------------
(***************************************************************************)
(* Proofs about ThreadPool, for any tasks, addresses, workers and delays:  *)
(* who owns a task object, why a worker may sleep, and that the pool       *)
(* implements the TaskBoard.                                               *)
(***************************************************************************)
EXTENDS ThreadPool, FiniteSetTheorems, SequenceTheorems,
        WellFoundedInduction, TLAPS

-----------------------------------------------------------------------------
(* The first element that passes a test                                    *)

(* A set of positions that is not empty has a least one.                   *)
LEMMA LeastPosition ==
    ASSUME NEW I, I \subseteq Nat, I # {}
    PROVE  Min(I) \in I /\ \A i \in I : Min(I) <= i
<1> DEFINE R == OpToRel(<, Nat)
<1>1. IsWellFoundedOn(R, Nat)
  BY NatLessThanWellFounded
<1>2. \A x \in Nat, y \in Nat : y < x => <<y, x>> \in R
  BY DEF OpToRel
<1> HIDE DEF R
<1>3. \E m \in I : \A y \in I : ~(<<y, m>> \in R)
  BY <1>1, WFMin
<1>4. PICK m \in I : \A y \in I : ~(<<y, m>> \in R)
  BY <1>3
<1>5. ASSUME NEW y \in I PROVE m <= y
  <2>1. y \in Nat /\ m \in Nat
    OBVIOUS
  <2>2. ~(y < m)
    BY <1>2, <1>4, <2>1
  <2> QED
    BY <2>1, <2>2
<1>6. \E x \in I : \A y \in I : x <= y
  BY <1>5
<1> QED
  BY <1>6 DEF Min

(* Timers have times.                                                      *)
LEMMA TimerTyped == \A e \in Timers : e.due \in Nat /\ e.task \in Tasks
BY PoolAssumption DEF Timers, Times

(* Where Insert() puts a timer: behind all that are due no earlier, before *)
(* the first that is.                                                      *)
LEMMA PlaceFound ==
    ASSUME NEW list \in Seq(Timers), NEW timer \in Timers
    PROVE  \E p \in 1 .. (Len(list) + 1) :
              /\ Insert(list, timer) = InsertAt(list, p, timer)
              /\ \A i \in 1 .. (p - 1) : list[i].due >= timer.due
              /\ p # Len(list) + 1 => list[p].due < timer.due
<1> DEFINE I == {i \in 1 .. Len(list) : list[i].due < timer.due}
           p == IF I # {} THEN Min(I) ELSE Len(list) + 1
<1>1. I # {} => Min(I) # 0 /\ Min(I) \in I /\ \A i \in I : Min(I) <= i
  <2> SUFFICES ASSUME I # {} PROVE Min(I) # 0 /\ Min(I) \in I /\ \A i \in I : Min(I) <= i
    OBVIOUS
  <2>1. I \subseteq Nat /\ 0 \notin I
    OBVIOUS
  <2> HIDE DEF I
  <2> QED
    BY <2>1, LeastPosition
<1>2. Insert(list, timer) = InsertAt(list, p, timer)
  BY <1>1 DEF Insert, SelectInSeq
<1>3. \A i \in 1 .. Len(list) : list[i].due \in Nat
  <2>1. \A i \in 1 .. Len(list) : list[i] \in Timers
    OBVIOUS
  <2> QED
    BY <2>1, TimerTyped
<1>4. timer.due \in Nat /\ Len(list) \in Nat
  BY TimerTyped
<1>5. CASE I = {}
  <2>1. p = Len(list) + 1 /\ \A i \in 1 .. Len(list) : ~(list[i].due < timer.due)
    BY <1>5
  <2> HIDE DEF p, I
  <2>2. \A i \in 1 .. (p - 1) : list[i].due >= timer.due
    BY <1>3, <1>4, <2>1
  <2> QED
    BY <1>2, <1>4, <2>1, <2>2
<1>6. CASE I # {}
  <2>1. p \in I /\ \A i \in I : p <= i
    BY <1>1, <1>6
  <2>2. p \in 1 .. Len(list) /\ list[p].due < timer.due
    BY <2>1
  <2> HIDE DEF p
  <2>3. ASSUME NEW i \in 1 .. (p - 1) PROVE list[i].due >= timer.due
    <3>1. i \in 1 .. Len(list) /\ i \notin I
      BY <1>4, <2>1, <2>2
    <3> QED
      BY <1>3, <1>4, <3>1
  <2> QED
    BY <1>2, <1>4, <2>2, <2>3
<1> QED
  BY <1>5, <1>6

(* What a caller's address finds among the timers has that address.        *)
LEMMA IdFound ==
    ASSUME TypeOK, NEW a
    PROVE  Find(a) # 0 => /\ Find(a) \in 1 .. Len(timers)
                          /\ id[timers[Find(a)].task] = a
<1> DEFINE I == {i \in 1 .. Len(timers) : id[timers[i].task] = a}
<1>1. Find(a) = IF I # {} THEN Min(I) ELSE 0
  BY DEF Find, SelectInSeq
<1>2. I # {} => Min(I) \in I
  <2>1. I \subseteq Nat
    OBVIOUS
  <2> HIDE DEF I
  <2> QED
    BY <2>1, LeastPosition
<1> QED
  BY <1>1, <1>2

-----------------------------------------------------------------------------
(* Sequences with an element more or one less                              *)

(* The elements of a sequence from which one has been removed.             *)
LEMMA Removed ==
    ASSUME NEW S, NEW s \in Seq(S), NEW i \in 1 .. Len(s)
    PROVE  /\ RemoveAt(s, i) \in Seq(S)
           /\ Len(RemoveAt(s, i)) = Len(s) - 1
           /\ \A j \in 1 .. (Len(s) - 1) :
                 RemoveAt(s, i)[j] = IF j < i THEN s[j] ELSE s[j + 1]
<1> DEFINE before == SubSeq(s, 1, i - 1)
           after == SubSeq(s, i + 1, Len(s))
<1>0. Len(s) \in Nat /\ \A j \in 1 .. Len(s) : s[j] \in S
  OBVIOUS
<1>1. /\ before \in Seq(S) /\ Len(before) = i - 1
      /\ \A j \in 1 .. (i - 1) : before[j] = s[j]
  <2>1. \A j \in 1 .. (i - 1) : s[j] \in S
    BY <1>0
  <2> QED
    BY <1>0, <2>1, SubSeqProperties
<1>2. /\ after \in Seq(S) /\ Len(after) = Len(s) - i
      /\ \A j \in 1 .. (Len(s) - i) : after[j] = s[j + i]
  <2>1. \A j \in (i + 1) .. Len(s) : s[j] \in S
    BY <1>0
  <2> QED
    BY <1>0, <2>1, SubSeqProperties
<1> HIDE DEF before, after
<1>3. RemoveAt(s, i) = before \o after
  BY DEF RemoveAt, before, after
<1>4. /\ before \o after \in Seq(S)
      /\ Len(before \o after) = Len(before) + Len(after)
      /\ \A j \in 1 .. Len(before) + Len(after) : (before \o after)[j] =
            IF j <= Len(before) THEN before[j] ELSE after[j - Len(before)]
  BY <1>1, <1>2, ConcatProperties
<1>5. ASSUME NEW j \in 1 .. (Len(s) - 1)
      PROVE  RemoveAt(s, i)[j] = IF j < i THEN s[j] ELSE s[j + 1]
  <2>1. CASE j < i
    BY <1>0, <1>1, <1>2, <1>3, <1>4, <2>1
  <2>2. CASE j >= i
    <3>1. (before \o after)[j] = after[j - (i - 1)]
      BY <1>0, <1>1, <1>2, <1>4, <2>2
    <3>2. j - (i - 1) \in 1 .. (Len(s) - i) /\ (j - (i - 1)) + i = j + 1
      BY <1>0, <2>2
    <3>3. after[j - (i - 1)] = s[j + 1]
      BY <1>2, <3>2
    <3> QED
      BY <1>3, <2>2, <3>1, <3>3
  <2> QED
    BY <1>0, <2>1, <2>2
<1> QED
  BY <1>0, <1>1, <1>2, <1>3, <1>4, <1>5

(* The elements of a sequence with a new one at a place.                   *)
LEMMA Inserted ==
    ASSUME NEW S, NEW s \in Seq(S), NEW i \in 1 .. (Len(s) + 1), NEW e \in S
    PROVE  /\ InsertAt(s, i, e) \in Seq(S)
           /\ Len(InsertAt(s, i, e)) = Len(s) + 1
           /\ \A j \in 1 .. (Len(s) + 1) :
                 InsertAt(s, i, e)[j] = IF j < i THEN s[j]
                                        ELSE IF j = i THEN e ELSE s[j - 1]
<1> DEFINE before == SubSeq(s, 1, i - 1)
           after == SubSeq(s, i, Len(s))
<1>0. Len(s) \in Nat /\ \A j \in 1 .. Len(s) : s[j] \in S
  OBVIOUS
<1>1. /\ before \in Seq(S) /\ Len(before) = i - 1
      /\ \A j \in 1 .. (i - 1) : before[j] = s[j]
  <2>1. \A j \in 1 .. (i - 1) : s[j] \in S
    BY <1>0
  <2> QED
    BY <1>0, <2>1, SubSeqProperties
<1>2. /\ after \in Seq(S) /\ Len(after) = Len(s) - i + 1
      /\ \A j \in 1 .. (Len(s) - i + 1) : after[j] = s[j + i - 1]
  <2>1. \A j \in i .. Len(s) : s[j] \in S
    BY <1>0
  <2> QED
    BY <1>0, <2>1, SubSeqProperties
<1> HIDE DEF before, after
<1> DEFINE both == before \o <<e>>
<1>3. /\ both \in Seq(S) /\ Len(both) = i
      /\ \A j \in 1 .. i : both[j] = IF j < i THEN s[j] ELSE e
  BY <1>0, <1>1, ConcatProperties
<1>4. InsertAt(s, i, e) = both \o after
  BY DEF InsertAt, before, after
<1> HIDE DEF both
<1>5. /\ both \o after \in Seq(S)
      /\ Len(both \o after) = Len(both) + Len(after)
      /\ \A j \in 1 .. Len(both) + Len(after) : (both \o after)[j] =
            IF j <= Len(both) THEN both[j] ELSE after[j - Len(both)]
  BY <1>2, <1>3, ConcatProperties
<1>6. ASSUME NEW j \in 1 .. (Len(s) + 1)
      PROVE  InsertAt(s, i, e)[j] = IF j < i THEN s[j]
                                    ELSE IF j = i THEN e ELSE s[j - 1]
  <2>1. CASE j <= i
    BY <1>0, <1>2, <1>3, <1>4, <1>5, <2>1
  <2>2. CASE j > i
    <3>1. (both \o after)[j] = after[j - i]
      BY <1>0, <1>2, <1>3, <1>5, <2>2
    <3>2. j - i \in 1 .. (Len(s) - i + 1) /\ (j - i) + i - 1 = j - 1
      BY <1>0, <2>2
    <3>3. after[j - i] = s[j - 1]
      BY <1>2, <3>2
    <3> QED
      BY <1>0, <1>4, <2>2, <3>1, <3>3
  <2> QED
    BY <1>0, <2>1, <2>2
<1> QED
  BY <1>0, <1>2, <1>3, <1>4, <1>5, <1>6

(* The front of a sequence is what is left without its last element.       *)
LEMMA FrontRemoved ==
    ASSUME NEW S, NEW s \in Seq(S), s # <<>>
    PROVE  /\ Len(s) \in 1 .. Len(s)
           /\ Front(s) \in Seq(S)
           /\ Len(Front(s)) = Len(s) - 1
           /\ \A j \in 1 .. (Len(s) - 1) : Front(s)[j] = s[j]
<1>1. Len(s) \in Nat \ {0} /\ \A j \in 1 .. (Len(s) - 1) : s[j] \in S
  BY EmptySeq
<1> DEFINE f == SubSeq(s, 1, Len(s) - 1)
<1>2. /\ f \in Seq(S)
      /\ Len(f) = IF 1 <= Len(s) - 1 THEN Len(s) - 1 - 1 + 1 ELSE 0
      /\ \A j \in 1 .. Len(s) - 1 - 1 + 1 : f[j] = s[1 + j - 1]
  BY <1>1, SubSeqProperties
<1> HIDE DEF f
<1>3. Front(s) = f
  BY DEF Front, f
<1> QED
  BY <1>1, <1>2, <1>3

-----------------------------------------------------------------------------
(* The two lists                                                           *)

\* No element twice.
Once(s) == \A i, j \in 1 .. Len(s) : s[i] = s[j] => i = j

TasksOf(list) == {list[i].task : i \in DOMAIN list}

\* The soonest is last, and no task has two timers.
InOrder(list) ==
    /\ \A i, j \in 1 .. Len(list) : list[i].task = list[j].task => i = j
    /\ \A i, j \in 1 .. Len(list) : i < j => list[i].due >= list[j].due

(* A task is pushed to the end of the queue.                               *)
LEMMA Appended ==
    ASSUME NEW s \in Seq(Tasks), NEW t \in Tasks
    PROVE  /\ Append(s, t) \in Seq(Tasks)
           /\ Append(s, t) # <<>>
           /\ ToSet(Append(s, t)) = ToSet(s) \cup {t}
           /\ Once(s) /\ t \notin ToSet(s) => Once(Append(s, t))
<1>1. /\ Append(s, t) \in Seq(Tasks)
      /\ Len(Append(s, t)) = Len(s) + 1
      /\ \A i \in 1 .. Len(s) : Append(s, t)[i] = s[i]
      /\ Append(s, t)[Len(s) + 1] = t
      /\ Len(s) \in Nat
  BY AppendProperties
<1> DEFINE a == Append(s, t)
<1> HIDE DEF a
<1>2. DOMAIN a = 1 .. (Len(s) + 1) /\ DOMAIN s = 1 .. Len(s)
  BY <1>1 DEF a
<1>3. ToSet(a) = ToSet(s) \cup {t}
  BY <1>1, <1>2 DEF ToSet, a
<1>4. Once(s) /\ t \notin ToSet(s) => Once(a)
  BY <1>1, <1>2 DEF ToSet, Once, a
<1> QED
  BY <1>1, <1>3, <1>4, EmptySeq DEF a

(* The oldest is popped.                                                   *)
LEMMA Popped ==
    ASSUME NEW s \in Seq(Tasks), s # <<>>
    PROVE  /\ Head(s) \in ToSet(s)
           /\ Head(s) \in Tasks
           /\ Tail(s) \in Seq(Tasks)
           /\ Once(s) => Once(Tail(s)) /\ ToSet(Tail(s)) = ToSet(s) \ {Head(s)}
<1>1. /\ Tail(s) \in Seq(Tasks) /\ Head(s) = s[1]
      /\ Len(Tail(s)) = Len(s) - 1
      /\ \A i \in 1 .. (Len(s) - 1) : Tail(s)[i] = s[i + 1]
      /\ Len(s) \in Nat \ {0}
  BY HeadTailProperties, EmptySeq
<1> DEFINE a == Tail(s)
<1> HIDE DEF a
<1>2. DOMAIN a = 1 .. (Len(s) - 1) /\ DOMAIN s = 1 .. Len(s)
  BY <1>1 DEF a
<1>3. Head(s) \in ToSet(s) /\ Head(s) \in Tasks
  BY <1>1, <1>2 DEF ToSet
<1>4. ASSUME Once(s) PROVE Once(a) /\ ToSet(a) = ToSet(s) \ {Head(s)}
  <2>1. Once(a)
    BY <1>1, <1>2, <1>4 DEF Once, a
  <2>2. ToSet(a) \subseteq ToSet(s) \ {Head(s)}
    BY <1>1, <1>2, <1>4 DEF Once, ToSet, a
  <2>3. ASSUME NEW x \in ToSet(s) \ {Head(s)} PROVE x \in ToSet(a)
    <3>1. PICK i \in 1 .. Len(s) : s[i] = x
      BY <1>2 DEF ToSet
    <3>2. i - 1 \in 1 .. (Len(s) - 1) /\ a[i - 1] = x
      BY <1>1, <3>1 DEF a
    <3> QED
      BY <1>2, <3>2 DEF ToSet
  <2> QED
    BY <2>1, <2>2, <2>3
<1> QED
  BY <1>1, <1>3, <1>4 DEF a

\* When a timer of the list is due, 0 for a task that has none.
DueIn(list, t) ==
    IF t \in TasksOf(list)
    THEN list[SelectInSeq(list, LAMBDA e : e.task = t)].due
    ELSE 0

(* A task that has a timer is due when the timer is.                       *)
LEMMA DueIs ==
    ASSUME NEW list \in Seq(Timers), InOrder(list), NEW i \in 1 .. Len(list)
    PROVE  DueIn(list, list[i].task) = list[i].due
<1> DEFINE t == list[i].task
           I == {j \in 1 .. Len(list) : list[j].task = t}
<1>1. I = {i}
  BY DEF InOrder
<1>2. Min(I) \in I
  <2>1. I \subseteq Nat /\ I # {}
    BY <1>1
  <2> HIDE DEF I
  <2> QED
    BY <2>1, LeastPosition
<1>3. SelectInSeq(list, LAMBDA e : e.task = t) = Min(I)
  BY <1>1 DEF SelectInSeq
<1>4. t \in TasksOf(list)
  BY DEF TasksOf
<1> QED
  BY <1>1, <1>2, <1>3, <1>4 DEF DueIn

(* A list that has the timers of another and perhaps one more tells the    *)
(* same times.                                                             *)
LEMMA SameDue ==
    ASSUME NEW list \in Seq(Timers), InOrder(list),
           NEW other \in Seq(Timers), InOrder(other),
           NEW u, u \in TasksOf(list) <=> u \in TasksOf(other),
           \A i \in 1 .. Len(list) : list[i].task = u =>
              \E j \in 1 .. Len(other) : other[j] = list[i]
    PROVE  DueIn(list, u) = DueIn(other, u)
<1>1. CASE u \notin TasksOf(list)
  BY <1>1 DEF DueIn
<1>2. CASE u \in TasksOf(list)
  <2>1. PICK i \in 1 .. Len(list) : list[i].task = u
    BY <1>2 DEF TasksOf
  <2>2. PICK j \in 1 .. Len(other) : other[j] = list[i]
    BY <2>1
  <2>3. DueIn(list, u) = list[i].due
    BY <2>1, DueIs
  <2>4. DueIn(other, u) = other[j].due
    BY <2>1, <2>2, DueIs
  <2> QED
    BY <2>2, <2>3, <2>4
<1> QED
  BY <1>1, <1>2

(* A new timer leaves the list in order.                                   *)
LEMMA TimerAdded ==
    ASSUME NEW list \in Seq(Timers), InOrder(list), NEW timer \in Timers,
           timer.task \notin TasksOf(list)
    PROVE  /\ Insert(list, timer) \in Seq(Timers)
           /\ InOrder(Insert(list, timer))
           /\ TasksOf(Insert(list, timer)) = TasksOf(list) \cup {timer.task}
           /\ DueIn(Insert(list, timer), timer.task) = timer.due
           /\ \A u : u # timer.task =>
                 DueIn(Insert(list, timer), u) = DueIn(list, u)
<1> DEFINE n == Len(list)
           new == Insert(list, timer)
<1>1. PICK p \in 1 .. (n + 1) :
         /\ new = InsertAt(list, p, timer)
         /\ \A i \in 1 .. (p - 1) : list[i].due >= timer.due
         /\ p # n + 1 => list[p].due < timer.due
  <2>1. \E p \in 1 .. (Len(list) + 1) :
           /\ Insert(list, timer) = InsertAt(list, p, timer)
           /\ \A i \in 1 .. (p - 1) : list[i].due >= timer.due
           /\ p # Len(list) + 1 => list[p].due < timer.due
    BY PlaceFound
  <2> QED
    BY <2>1
<1>2. /\ new \in Seq(Timers) /\ Len(new) = n + 1
      /\ \A j \in 1 .. (n + 1) :
            new[j] = IF j < p THEN list[j] ELSE IF j = p THEN timer ELSE list[j - 1]
  <2>1. new = InsertAt(list, p, timer)
    BY <1>1
  <2> HIDE DEF new
  <2>2. /\ InsertAt(list, p, timer) \in Seq(Timers)
        /\ Len(InsertAt(list, p, timer)) = Len(list) + 1
        /\ \A j \in 1 .. (Len(list) + 1) :
              InsertAt(list, p, timer)[j] =
                 IF j < p THEN list[j] ELSE IF j = p THEN timer ELSE list[j - 1]
    BY Inserted
  <2> QED
    BY <2>1, <2>2
<1>3. n \in Nat /\ p \in Nat /\ DOMAIN list = 1 .. n
  OBVIOUS
<1>4. \A i \in 1 .. n : list[i].due \in Nat
  <2>1. \A i \in 1 .. n : list[i] \in Timers
    OBVIOUS
  <2> QED
    BY <2>1, TimerTyped
<1>5. timer.due \in Nat
  BY TimerTyped
<1> HIDE DEF n, new
<1>6. DOMAIN new = 1 .. (n + 1)
  BY <1>2, <1>3
<1>7. \A i \in 1 .. n : list[i].task # timer.task
  BY <1>3 DEF TasksOf
<1>8. \A i, j \in 1 .. n : i < j => list[i].due >= list[j].due
  BY DEF InOrder, n
<1>9. \A i, j \in 1 .. n : list[i].task = list[j].task => i = j
  BY DEF InOrder, n
<1>10. ASSUME NEW i \in 1 .. (n + 1), NEW j \in 1 .. (n + 1), i < j
       PROVE  /\ new[i].due >= new[j].due
              /\ new[i].task # new[j].task
  <2>1. CASE j < p
    <3>1. i \in 1 .. n /\ j \in 1 .. n /\ i < p
      BY <1>3, <1>10, <2>1
    <3>2. new[i] = list[i] /\ new[j] = list[j]
      BY <1>2, <2>1, <3>1
    <3> QED
      BY <1>8, <1>9, <1>10, <3>1, <3>2
  <2>2. CASE i < p /\ j = p
    <3>1. i \in 1 .. n /\ i \in 1 .. (p - 1)
      BY <1>3, <2>2
    <3>2. new[i] = list[i] /\ new[j] = timer
      BY <1>2, <2>2
    <3> QED
      BY <1>1, <1>7, <3>1, <3>2
  <2>3. CASE i < p /\ p < j
    <3>1. i \in 1 .. n /\ j - 1 \in 1 .. n /\ i < j - 1
      BY <1>3, <2>3
    <3>2. new[i] = list[i] /\ new[j] = list[j - 1]
      BY <1>2, <1>3, <2>3
    <3> QED
      BY <1>8, <1>9, <3>1, <3>2
  <2>4. CASE i = p
    <3>1. j - 1 \in 1 .. n /\ p \in 1 .. n /\ p # n + 1 /\ p <= j - 1
      BY <1>3, <1>10, <2>4
    <3>2. list[p].due >= list[j - 1].due
      BY <1>4, <1>8, <3>1, <1>3
    <3>3. new[i] = timer /\ new[j] = list[j - 1]
      BY <1>2, <1>3, <1>10, <2>4
    <3>4. list[p].due < timer.due
      BY <1>1, <3>1
    <3>5. timer.due >= list[j - 1].due
      BY <1>4, <1>5, <3>1, <3>2, <3>4
    <3> QED
      BY <1>7, <3>1, <3>3, <3>5
  <2>5. CASE p < i
    <3>1. i - 1 \in 1 .. n /\ j - 1 \in 1 .. n /\ i - 1 < j - 1
      BY <1>3, <1>10, <2>5
    <3>2. new[i] = list[i - 1] /\ new[j] = list[j - 1]
      BY <1>2, <1>3, <1>10, <2>5
    <3> QED
      BY <1>8, <1>9, <3>1, <3>2
  <2> QED
    BY <1>3, <1>10, <2>1, <2>2, <2>3, <2>4, <2>5
<1>11. InOrder(new)
  <2>1. Len(new) = n + 1
    BY <1>2
  <2> QED
    BY <1>3, <1>10, <2>1 DEF InOrder
<1>12. \A i \in 1 .. n : \E j \in 1 .. (n + 1) : new[j] = list[i]
  <2> TAKE i \in 1 .. n
  <2>1. CASE i < p
    <3>1. i \in 1 .. (n + 1) /\ new[i] = list[i]
      BY <1>2, <1>3, <2>1
    <3> QED
      BY <3>1
  <2>2. CASE i >= p
    <3>1. i + 1 \in 1 .. (n + 1) /\ new[i + 1] = list[i]
      BY <1>2, <1>3, <2>2
    <3> QED
      BY <3>1
  <2> QED
    BY <1>3, <2>1, <2>2
<1>13. \A j \in 1 .. (n + 1) : new[j] = timer \/ \E i \in 1 .. n : new[j] = list[i]
  <2> TAKE j \in 1 .. (n + 1)
  <2>1. CASE j < p
    <3>1. j \in 1 .. n /\ new[j] = list[j]
      BY <1>2, <1>3, <2>1
    <3> QED
      BY <3>1
  <2>2. CASE j > p
    <3>1. j - 1 \in 1 .. n /\ new[j] = list[j - 1]
      BY <1>2, <1>3, <2>2
    <3> QED
      BY <3>1
  <2>3. CASE j = p
    BY <1>2, <2>3, <1>3
  <2> QED
    BY <1>3, <2>1, <2>2, <2>3
<1>14. new[p] = timer /\ p \in 1 .. (n + 1)
  BY <1>2, <1>3
<1>15. TasksOf(new) = TasksOf(list) \cup {timer.task}
  <2>1. timer.task \in TasksOf(new)
    BY <1>6, <1>14 DEF TasksOf
  <2>2. ASSUME NEW i \in 1 .. n PROVE list[i].task \in TasksOf(new)
    BY <1>6, <1>12 DEF TasksOf
  <2>3. ASSUME NEW j \in 1 .. (n + 1)
        PROVE  new[j].task \in TasksOf(list) \cup {timer.task}
    BY <1>3, <1>13 DEF TasksOf
  <2> QED
    BY <1>3, <1>6, <2>1, <2>2, <2>3 DEF TasksOf
<1>16. DueIn(new, timer.task) = timer.due
  BY <1>2, <1>11, <1>14, DueIs
<1>17. ASSUME NEW u, u # timer.task PROVE DueIn(new, u) = DueIn(list, u)
  <2>1. u \in TasksOf(list) <=> u \in TasksOf(new)
    BY <1>15, <1>17
  <2>2. \A i \in 1 .. Len(list) : \E j \in 1 .. Len(new) : new[j] = list[i]
    BY <1>2, <1>12 DEF n
  <2> QED
    BY <1>2, <1>11, <2>1, <2>2, SameDue
<1>18. /\ new \in Seq(Timers) /\ InOrder(new)
       /\ TasksOf(new) = TasksOf(list) \cup {timer.task}
       /\ DueIn(new, timer.task) = timer.due
       /\ \A u : u # timer.task => DueIn(new, u) = DueIn(list, u)
  BY <1>2, <1>11, <1>15, <1>16, <1>17
<1> QED
  BY <1>18 DEF new

(* A timer that is taken out leaves the list in order.                     *)
LEMMA TimerRemoved ==
    ASSUME NEW list \in Seq(Timers), InOrder(list), NEW p \in 1 .. Len(list)
    PROVE  /\ RemoveAt(list, p) \in Seq(Timers)
           /\ InOrder(RemoveAt(list, p))
           /\ TasksOf(RemoveAt(list, p)) = TasksOf(list) \ {list[p].task}
           /\ \A u : u # list[p].task =>
                 DueIn(RemoveAt(list, p), u) = DueIn(list, u)
           /\ RemoveAt(list, p) # <<>> =>
                 Last(RemoveAt(list, p)).due >= Last(list).due
<1> DEFINE n == Len(list)
           new == RemoveAt(list, p)
<1>1. /\ new \in Seq(Timers) /\ Len(new) = n - 1
      /\ \A j \in 1 .. (n - 1) : new[j] = IF j < p THEN list[j] ELSE list[j + 1]
  BY Removed
<1>2. n \in Nat \ {0} /\ p \in 1 .. n /\ DOMAIN list = 1 .. n
  OBVIOUS
<1>3. \A i \in 1 .. n : list[i].due \in Nat
  <2>1. \A i \in 1 .. n : list[i] \in Timers
    OBVIOUS
  <2> QED
    BY <2>1, TimerTyped
<1>4. new # <<>> => n - 1 \in 1 .. n /\ n - 1 # 0
  BY <1>1, <1>2, EmptySeq
<1>5. \A i, j \in 1 .. n : i < j => list[i].due >= list[j].due
  BY DEF InOrder
<1>6. \A i, j \in 1 .. n : list[i].task = list[j].task => i = j
  BY DEF InOrder
<1> HIDE DEF n, new
<1>7. DOMAIN new = 1 .. (n - 1)
  BY <1>1, <1>2
<1> DEFINE at(j) == IF j < p THEN j ELSE j + 1
<1>8. \A j \in 1 .. (n - 1) :
         at(j) \in 1 .. n /\ at(j) # p /\ new[j] = list[at(j)]
  BY <1>1, <1>2
<1>9. \A i, j \in 1 .. (n - 1) : i < j => at(i) < at(j)
  BY <1>2
<1>10. \A i \in 1 .. n : i # p => \E j \in 1 .. (n - 1) : at(j) = i
  <2> SUFFICES ASSUME NEW i \in 1 .. n, i # p PROVE \E j \in 1 .. (n - 1) : at(j) = i
    OBVIOUS
  <2>1. CASE i < p
    <3>1. i \in 1 .. (n - 1) /\ at(i) = i
      BY <1>2, <2>1
    <3> QED
      BY <3>1
  <2>2. CASE i > p
    <3>1. i - 1 \in 1 .. (n - 1) /\ at(i - 1) = i
      BY <1>2, <2>2
    <3> QED
      BY <3>1
  <2> QED
    BY <1>2, <2>1, <2>2
<1>11. \A i, j \in 1 .. (n - 1) : at(i) = at(j) => i = j
  BY <1>2
<1> HIDE DEF at
<1>12. InOrder(new)
  <2>1. Len(new) = n - 1
    BY <1>1
  <2>2. ASSUME NEW i \in 1 .. (n - 1), NEW j \in 1 .. (n - 1)
        PROVE  /\ new[i].task = new[j].task => i = j
               /\ i < j => new[i].due >= new[j].due
    BY <1>5, <1>6, <1>8, <1>9, <1>11
  <2> QED
    BY <2>1, <2>2 DEF InOrder
<1>13. TasksOf(new) = TasksOf(list) \ {list[p].task}
  <2>1. ASSUME NEW x \in TasksOf(new) PROVE x \in TasksOf(list) \ {list[p].task}
    <3>1. PICK j \in 1 .. (n - 1) : new[j].task = x
      BY <1>7 DEF TasksOf
    <3>2. at(j) \in 1 .. n /\ at(j) # p /\ list[at(j)].task = x
      BY <1>8, <3>1
    <3> QED
      BY <1>2, <1>6, <3>2 DEF TasksOf
  <2>2. ASSUME NEW x \in TasksOf(list) \ {list[p].task} PROVE x \in TasksOf(new)
    <3>1. PICK i \in 1 .. n : list[i].task = x
      BY <1>2 DEF TasksOf
    <3>2. i # p
      BY <3>1
    <3>3. PICK j \in 1 .. (n - 1) : at(j) = i
      BY <1>10, <3>2
    <3>4. new[j].task = x
      BY <1>8, <3>1, <3>3
    <3> QED
      BY <1>7, <3>4 DEF TasksOf
  <2> QED
    BY <2>1, <2>2
<1>14. ASSUME NEW u, u # list[p].task PROVE DueIn(new, u) = DueIn(list, u)
  <2>1. u \in TasksOf(new) <=> u \in TasksOf(list)
    BY <1>13, <1>14
  <2>2. \A j \in 1 .. Len(new) : \E i \in 1 .. Len(list) : list[i] = new[j]
    BY <1>1, <1>8 DEF n
  <2> QED
    BY <1>1, <1>12, <2>1, <2>2, SameDue
<1>15. new # <<>> => Last(new).due >= Last(list).due
  <2> SUFFICES ASSUME new # <<>> PROVE Last(new).due >= Last(list).due
    OBVIOUS
  <2>1. n - 1 \in 1 .. (n - 1) /\ n \in 1 .. n
    BY <1>2, <1>4
  <2>2. at(n - 1) \in 1 .. n /\ new[n - 1] = list[at(n - 1)]
    BY <1>8, <2>1
  <2>3. list[at(n - 1)].due >= list[n].due
    <3>1. CASE at(n - 1) = n
      BY <1>3, <2>1, <3>1
    <3>2. CASE at(n - 1) < n
      BY <1>5, <2>1, <2>2, <3>2
    <3> QED
      BY <1>2, <2>2, <3>1, <3>2
  <2> QED
    BY <1>1, <2>2, <2>3 DEF Last, n
<1>16. /\ new \in Seq(Timers) /\ InOrder(new)
       /\ TasksOf(new) = TasksOf(list) \ {list[p].task}
       /\ \A u : u # list[p].task => DueIn(new, u) = DueIn(list, u)
       /\ new # <<>> => Last(new).due >= Last(list).due
  BY <1>1, <1>12, <1>13, <1>14, <1>15
<1> QED
  BY <1>16 DEF new

(* To pop the timer at the back is to remove the last one.                 *)
LEMMA BackRemoved ==
    ASSUME NEW list \in Seq(Timers), list # <<>>
    PROVE  /\ Len(list) \in 1 .. Len(list)
           /\ Front(list) = RemoveAt(list, Len(list))
<1>1. Len(list) \in Nat /\ Len(list) \in 1 .. Len(list)
  BY FrontRemoved
<1>2. /\ Front(list) \in Seq(Timers) /\ Len(Front(list)) = Len(list) - 1
      /\ \A j \in 1 .. (Len(list) - 1) : Front(list)[j] = list[j]
  BY FrontRemoved
<1>3. /\ RemoveAt(list, Len(list)) \in Seq(Timers)
      /\ Len(RemoveAt(list, Len(list))) = Len(list) - 1
      /\ \A j \in 1 .. (Len(list) - 1) : RemoveAt(list, Len(list))[j] = list[j]
  BY <1>1, Removed
<1> QED
  BY <1>1, <1>2, <1>3, SeqEqual

-----------------------------------------------------------------------------
(* The inductive invariant                                                 *)

Live == Queued \cup Running

\* A task object is in one place, under an address of its own.
Owned ==
    /\ Once(tasks)
    /\ InOrder(timers)
    /\ ToSet(tasks) \cap TimedTasks = {}
    /\ Queued \cap Running = {}
    /\ \A w \in Workers : job[w] # None <=> pc[w] \in {"run", "drainrun"}
    /\ \A v, w \in Workers : v # w => job[v] = None \/ job[v] # job[w]
    /\ \A t, u \in Live : t # u => id[t] # id[u]

\* What has run or was cancelled has no object, and what has no id is new.
Settled ==
    /\ Live \cap (done \cup erased) = {}
    /\ done \cap erased = {}
    /\ \A t \in Tasks : id[t] = None <=> t \notin Live \cup done \cup erased

\* The lock is held from the look at the lists to the wait.
Guarded ==
    \A w \in Workers :
        /\ pc[w] \in {"ready", "wait"} <=> lock = w
        /\ pc[w] = "wait" => continue /\ tasks = <<>>

Inv ==
    /\ TypeOK
    /\ Owned
    /\ Settled
    /\ Guarded
    /\ SleepsForAReason

-----------------------------------------------------------------------------
(* The ways of a task object                                               *)

Labels == {"loop", "pop", "run", "lock", "ready", "wait", "waiting", "drain",
           "drainrun", "ended"}

(* What is queued or running is a task.                                    *)
LEMMA LiveTasks ==
    ASSUME TypeOK
    PROVE  /\ TasksOf(timers) = TimedTasks
           /\ Queued \subseteq Tasks /\ Running \subseteq Tasks
           /\ Live \subseteq Tasks
<1>1. TimedTasks = TasksOf(timers)
  BY DEF TimedTasks, TasksOf
<1>2. ToSet(tasks) \subseteq Tasks
  BY DEF ToSet, TypeOK
<1>3. TimedTasks \subseteq Tasks
  <2>1. \A i \in DOMAIN timers : timers[i] \in Timers
    BY DEF TypeOK
  <2> QED
    BY <2>1, TimerTyped DEF TimedTasks
<1>4. Running \subseteq Tasks
  BY DEF Running, TypeOK
<1> QED
  BY <1>1, <1>2, <1>3, <1>4 DEF Live, Queued

(* A step that moves no task object.                                       *)
LEMMA NothingMoves ==
    ASSUME Owned, Settled, UNCHANGED <<listVars, id, job, fateVars>>,
           \A w \in Workers : pc'[w] \in {"run", "drainrun"}
                                 <=> pc[w] \in {"run", "drainrun"}
    PROVE  Owned' /\ Settled'
BY DEF Owned, Settled, listVars, fateVars, Once, InOrder, TimedTasks, Queued,
       Running, Live

(* A new task gets an object at an address that no live one has.           *)
LEMMA NewObject ==
    ASSUME TypeOK, Owned, Settled, NEW t \in Tasks, id[t] = None, Allocate(t),
           Queued' = Queued \cup {t}, UNCHANGED <<job, fateVars>>
    PROVE  /\ t \notin Live \cup done \cup erased
           /\ id' \in [Tasks -> Addresses \cup {None}]
           /\ Queued' \cap Running' = {}
           /\ \A u, v \in Live' : u # v => id'[u] # id'[v]
           /\ Settled'
<1>1. t \notin Live \cup done \cup erased
  BY DEF Settled
<1>2. PICK a \in Addresses : /\ \A u \in Live : id[u] # a
                             /\ id' = [id EXCEPT ![t] = a]
  BY DEF Allocate, Live
<1>3. a # None
  BY PoolAssumption
<1>4. /\ id' \in [Tasks -> Addresses \cup {None}]
      /\ id'[t] = a
      /\ \A u \in Tasks : u # t => id'[u] = id[u]
  BY <1>2 DEF TypeOK
<1>5. Running' = Running /\ Live' = Live \cup {t} /\ done' = done /\ erased' = erased
  BY DEF Running, Live, fateVars
<1>6. Queued' \cap Running' = {}
  BY <1>1, <1>5 DEF Live, Owned
<1>7. \A u, v \in Live' : u # v => id'[u] # id'[v]
  BY <1>1, <1>2, <1>4, <1>5, LiveTasks DEF Owned
<1>8. Settled'
  BY <1>1, <1>3, <1>4, <1>5 DEF Settled
<1> QED
  BY <1>1, <1>4, <1>6, <1>7, <1>8

(* An object that goes from a list to a worker is still the only one.      *)
LEMMA Taken ==
    ASSUME TypeOK, Owned, Settled, NEW w \in Workers, NEW t \in Queued,
           job[w] = None, job' = [job EXCEPT ![w] = t],
           Queued' = Queued \ {t}, UNCHANGED <<id, fateVars>>
    PROVE  /\ job' \in [Workers -> Tasks \cup {None}]
           /\ Running' = Running \cup {t}
           /\ Queued' \cap Running' = {}
           /\ \A u, v \in Workers : u # v => job'[u] = None \/ job'[u] # job'[v]
           /\ \A u, v \in Live' : u # v => id'[u] # id'[v]
           /\ Settled'
<1>1. t \in Tasks /\ t # None
  BY LiveTasks, PoolAssumption
<1>2. /\ job' \in [Workers -> Tasks \cup {None}]
      /\ job'[w] = t
      /\ \A v \in Workers : v # w => job'[v] = job[v]
  BY <1>1 DEF TypeOK
<1>3. Running' = Running \cup {t}
  BY <1>1, <1>2 DEF Running
<1>4. \A v \in Workers : job[v] # t
  BY <1>1 DEF Owned, Running
<1>5. Live' = Live /\ Queued' \cap Running' = {}
  BY <1>3 DEF Live, Owned
<1>6. \A u, v \in Workers : u # v => job'[u] = None \/ job'[u] # job'[v]
  BY <1>2, <1>4 DEF Owned
<1>7. /\ \A u, v \in Live' : u # v => id'[u] # id'[v]
      /\ Settled'
  BY <1>5 DEF Owned, Settled, fateVars
<1> QED
  BY <1>2, <1>3, <1>5, <1>6, <1>7

(* One that is gone has no claim left.                                     *)
LEMMA Gone ==
    ASSUME TypeOK, Owned, Settled, NEW t \in Live, Live' = Live \ {t}, id' = id,
           \/ done' = done \cup {t} /\ erased' = erased
           \/ done' = done /\ erased' = erased \cup {t}
    PROVE  /\ \A u, v \in Live' : u # v => id'[u] # id'[v]
           /\ Settled'
<1>1. t \in Tasks
  BY LiveTasks
<1> QED
  BY <1>1 DEF Owned, Settled

(* Who is awoken goes back to the loop, and runs nothing yet.              *)
LEMMA Awoken ==
    ASSUME TypeOK, NEW W, W \subseteq Waiting, Awaken(W)
    PROVE  /\ pc' \in [Workers -> Labels]
           /\ wake' \in [Workers -> Times \cup {None}]
           /\ \A w \in Workers :
                 /\ pc'[w] = IF w \in W THEN "loop" ELSE pc[w]
                 /\ w \notin W => wake'[w] = wake[w]
                 /\ w \in W => pc[w] = "waiting"
                 /\ pc'[w] \in {"run", "drainrun"} <=> pc[w] \in {"run", "drainrun"}
BY DEF Awaken, TypeOK, Labels, Waiting

(* notify_one() wakes one of those who wait, notify_all() all of them.     *)
LEMMA Notified ==
    ASSUME TypeOK, NotifyOne \/ NotifyAll
    PROVE  \E W \in SUBSET Waiting :
              /\ pc' = [w \in Workers |-> IF w \in W THEN "loop" ELSE pc[w]]
              /\ wake' = [w \in Workers |-> IF w \in W THEN None ELSE wake[w]]
              /\ NotifyAll => W = Waiting
              /\ Waiting # {} => W # {}
<1>1. CASE NotifyAll
  BY <1>1 DEF NotifyAll, Awaken
<1>2. CASE ~NotifyAll /\ \E w \in Waiting : Awaken({w})
  BY <1>2 DEF Awaken
<1>3. CASE ~NotifyAll /\ Waiting = {} /\ UNCHANGED <<pc, wake>>
  <2>1. /\ pc' = [w \in Workers |-> IF w \in {} THEN "loop" ELSE pc[w]]
        /\ wake' = [w \in Workers |-> IF w \in {} THEN None ELSE wake[w]]
    BY <1>3 DEF TypeOK
  <2> QED
    BY <1>3, <2>1
<1> QED
  BY <1>1, <1>2, <1>3 DEF NotifyOne

LEMMA PushKeeps ==
    ASSUME TypeOK, Owned, Settled, NEW t \in Tasks, Push(t)
    PROVE  /\ TypeOK' /\ Owned' /\ Settled'
           /\ t \notin Live \cup done \cup erased
           /\ Queued' = Queued \cup {t} /\ Running' = Running
<1>1. /\ tasks' \in Seq(Tasks) /\ ToSet(tasks') = ToSet(tasks) \cup {t}
      /\ Once(tasks) /\ t \notin ToSet(tasks) => Once(tasks')
  <2>1. tasks' = Append(tasks, t) /\ tasks \in Seq(Tasks)
    BY DEF Push, TypeOK
  <2> QED
    BY <2>1, Appended
<1>2. timers' = timers /\ job' = job /\ TimedTasks' = TimedTasks
  BY DEF Push, TimedTasks
<1>3. Queued' = Queued \cup {t} /\ Running' = Running
  BY <1>1, <1>2 DEF Queued, Running
<1>4. /\ t \notin Live \cup done \cup erased
      /\ id' \in [Tasks -> Addresses \cup {None}]
      /\ Queued' \cap Running' = {}
      /\ \A u, v \in Live' : u # v => id'[u] # id'[v]
      /\ Settled'
  BY <1>2, <1>3, NewObject DEF Push
<1>5. PICK W \in SUBSET Waiting : Awaken(W)
  BY Notified DEF Push, Awaken
<1>6. /\ pc' \in [Workers -> Labels]
      /\ wake' \in [Workers -> Times \cup {None}]
      /\ \A w \in Workers : pc'[w] \in {"run", "drainrun"}
                               <=> pc[w] \in {"run", "drainrun"}
  BY <1>5, Awoken
<1>7. TypeOK'
  BY <1>1, <1>2, <1>4, <1>6 DEF TypeOK, Push, Labels, fateVars
<1>8. Owned'
  <2>1. Once(tasks') /\ ToSet(tasks') \cap TimedTasks' = {}
    BY <1>1, <1>2, <1>4 DEF Owned, Live, Queued
  <2>2. InOrder(timers')
    BY <1>2 DEF Owned
  <2>3. /\ \A w \in Workers : job'[w] # None <=> pc'[w] \in {"run", "drainrun"}
        /\ \A v, w \in Workers : v # w => job'[v] = None \/ job'[v] # job'[w]
    BY <1>2, <1>6 DEF Owned
  <2> QED
    BY <1>4, <2>1, <2>2, <2>3 DEF Owned
<1> QED
  BY <1>3, <1>4, <1>7, <1>8

LEMMA PushDelayedKeeps ==
    ASSUME TypeOK, Owned, Settled, NEW t \in Tasks, NEW d \in Delays,
           PushDelayed(t, d)
    PROVE  /\ TypeOK' /\ Owned' /\ Settled'
           /\ t \notin Live \cup done \cup erased
           /\ Queued' = Queued \cup {t} /\ Running' = Running
           /\ DueIn(timers', t) = now + d /\ now + d \in Times
           /\ \A u : u # t => DueIn(timers', u) = DueIn(timers, u)
           /\ Waiting' = {}
<1> DEFINE timer == [due |-> now + d, task |-> t]
<1>1. timer \in Timers /\ now + d \in Times /\ timer.task = t /\ timer.due = now + d
  BY PoolAssumption DEF PushDelayed, Timers, Times, TypeOK
<1>2. t \notin Live \cup done \cup erased
  BY DEF PushDelayed, Settled
<1>3. timers \in Seq(Timers) /\ InOrder(timers) /\ timers' = Insert(timers, timer)
  BY DEF PushDelayed, TypeOK, Owned
<1>4. t \notin TasksOf(timers) /\ TasksOf(timers) = TimedTasks
  BY <1>2, LiveTasks DEF Live, Queued
<1> HIDE DEF timer
<1>5. /\ timers' \in Seq(Timers) /\ InOrder(timers')
      /\ TasksOf(timers') = TasksOf(timers) \cup {t}
      /\ DueIn(timers', t) = now + d
      /\ \A u : u # t => DueIn(timers', u) = DueIn(timers, u)
  BY <1>1, <1>3, <1>4, TimerAdded
<1>6. tasks' = tasks /\ job' = job /\ TimedTasks' = TimedTasks \cup {t}
  BY <1>4, <1>5 DEF PushDelayed, TimedTasks, TasksOf
<1>7. Queued' = Queued \cup {t} /\ Running' = Running
  BY <1>6 DEF Queued, Running
<1>8. /\ id' \in [Tasks -> Addresses \cup {None}]
      /\ Queued' \cap Running' = {}
      /\ \A u, v \in Live' : u # v => id'[u] # id'[v]
      /\ Settled'
  BY <1>6, <1>7, NewObject DEF PushDelayed
<1>9. /\ pc' \in [Workers -> Labels]
      /\ wake' \in [Workers -> Times \cup {None}]
      /\ \A w \in Workers : /\ pc'[w] \in {"run", "drainrun"}
                               <=> pc[w] \in {"run", "drainrun"}
                            /\ pc'[w] # "waiting"
  <2>1. Awaken(Waiting)
    BY DEF PushDelayed, NotifyAll
  <2> QED
    BY <2>1, Awoken DEF Waiting
<1>10. TypeOK'
  BY <1>5, <1>6, <1>8, <1>9 DEF TypeOK, PushDelayed, Labels, fateVars
<1>11. Owned'
  <2>1. Once(tasks') /\ ToSet(tasks') \cap TimedTasks' = {}
    BY <1>2, <1>6 DEF Owned, Live, Queued
  <2>2. /\ \A w \in Workers : job'[w] # None <=> pc'[w] \in {"run", "drainrun"}
        /\ \A v, w \in Workers : v # w => job'[v] = None \/ job'[v] # job'[w]
    BY <1>6, <1>9 DEF Owned
  <2> QED
    BY <1>5, <1>8, <2>1, <2>2 DEF Owned
<1> QED
  BY <1>1, <1>2, <1>5, <1>7, <1>8, <1>9, <1>10, <1>11 DEF Waiting

(* cancel() either finds no timer at the address, or removes one, which    *)
(* may be another task's than the one its caller means.                    *)
LEMMA CancelKeeps ==
    ASSUME TypeOK, Owned, Settled, NEW t \in Tasks, Cancel(t)
    PROVE  /\ TypeOK' /\ Owned' /\ Settled'
           /\ Running' = Running /\ done' = done /\ pc' = pc
           /\ \/ Queued' = Queued /\ timers' = timers /\ erased' = erased
              \/ \E u \in TimedTasks :
                    /\ Queued' = Queued \ {u} /\ erased' = erased \cup {u}
                    /\ u \notin TasksOf(timers')
                    /\ \A v : v # u => DueIn(timers', v) = DueIn(timers, v)
           /\ timers' # <<>> => timers # <<>> /\ Last(timers').due >= Last(timers).due
<1> DEFINE i == Find(id[t])
<1>1. /\ tasks' = tasks /\ job' = job /\ id' = id /\ done' = done
      /\ pc' = pc /\ wake' = wake /\ lock' = lock /\ now' = now
      /\ continue' = continue
  BY DEF Cancel, workerVars
<1>2. Running' = Running
  BY <1>1 DEF Running
<1>3. CASE i = 0
  <2>1. timers' = timers /\ erased' = erased
    BY <1>3 DEF Cancel
  <2>2. TypeOK'
    BY <1>1, <2>1 DEF TypeOK
  <2>3. Owned' /\ Settled'
    BY <1>1, <2>1, NothingMoves DEF listVars, fateVars
  <2>4. Queued' = Queued
    BY <1>1, <2>1 DEF Queued, TimedTasks
  <2>5. timers # <<>> => Last(timers).due >= Last(timers).due
    <3>1. timers # <<>> => timers[Len(timers)] \in Timers
      BY EmptySeq DEF TypeOK
    <3> QED
      BY <3>1, TimerTyped DEF Last
  <2> QED
    BY <1>1, <1>2, <2>1, <2>2, <2>3, <2>4, <2>5
<1>4. CASE i # 0
  <2>1. i \in 1 .. Len(timers)
    BY <1>4, IdFound
  <2>2. timers' = RemoveAt(timers, i) /\ erased' = erased \cup {timers[i].task}
    BY <1>4 DEF Cancel
  <2> HIDE DEF i
  <2> DEFINE u == timers[i].task
  <2>3. timers \in Seq(Timers) /\ InOrder(timers)
    BY DEF TypeOK, Owned
  <2>4. /\ timers' \in Seq(Timers) /\ InOrder(timers')
        /\ TasksOf(timers') = TasksOf(timers) \ {u}
        /\ \A v : v # u => DueIn(timers', v) = DueIn(timers, v)
        /\ timers' # <<>> => Last(timers').due >= Last(timers).due
    BY <2>1, <2>2, <2>3, TimerRemoved
  <2>5. u \in TimedTasks /\ TasksOf(timers) = TimedTasks
    BY <2>1, <2>3, LiveTasks DEF TimedTasks
  <2>6. u \in Tasks /\ u \in Live
    BY <2>5, LiveTasks DEF Live, Queued
  <2>7. TimedTasks' = TimedTasks \ {u}
    BY <2>4, <2>5 DEF TimedTasks, TasksOf
  <2>8. timers # <<>>
    BY <2>1, <2>3
  <2> HIDE DEF u
  <2>9. erased' = erased \cup {u}
    BY <2>2 DEF u
  <2>10. Queued' = Queued \ {u}
    BY <1>1, <2>5, <2>7 DEF Queued, Owned
  <2>11. Live' = Live \ {u}
    BY <1>2, <2>5, <2>10 DEF Live, Owned, Queued
  <2>12. (\A v, w \in Live' : v # w => id'[v] # id'[w]) /\ Settled'
    BY <1>1, <2>6, <2>9, <2>11, Gone
  <2>13. TypeOK'
    BY <1>1, <2>4, <2>6, <2>9 DEF TypeOK
  <2>14. Owned'
    <3>1. Once(tasks') /\ ToSet(tasks') \cap TimedTasks' = {}
      BY <1>1, <2>7 DEF Owned
    <3>2. Queued' \cap Running' = {}
      BY <1>2, <2>10 DEF Owned
    <3>3. /\ \A w \in Workers : job'[w] # None <=> pc'[w] \in {"run", "drainrun"}
          /\ \A v, w \in Workers : v # w => job'[v] = None \/ job'[v] # job'[w]
      BY <1>1 DEF Owned
    <3> QED
      BY <2>4, <2>12, <3>1, <3>2, <3>3 DEF Owned
  <2> QED
    BY <1>1, <1>2, <2>4, <2>5, <2>8, <2>9, <2>10, <2>12, <2>13, <2>14
<1> QED
  BY <1>3, <1>4

(* pop() hands one object to the worker, or leaves everything where it is. *)
LEMMA PopMoves ==
    ASSUME TypeOK, Owned, Settled, NEW w \in Workers,
           NEW found \in {"run", "drainrun"},
           NEW otherwise \in Labels \ {"run", "drainrun"},
           Pop(w, found, otherwise), pc[w] \in {"pop", "drain"},
           UNCHANGED <<now, id, continue, lock, wake, fateVars>>
    PROVE  /\ TypeOK' /\ Owned' /\ Settled'
           /\ \/ /\ Goto(w, otherwise)
                 /\ tasks = <<>> /\ ~TimerDue
                 /\ UNCHANGED <<job, listVars>>
                 /\ Queued' = Queued /\ Running' = Running
              \/ \E t \in Queued :
                    /\ Goto(w, found)
                    /\ Queued' = Queued \ {t} /\ Running' = Running \cup {t}
                    /\ t \notin TasksOf(timers')
                    /\ DueIn(timers, t) <= now
                    /\ \A u : u # t => DueIn(timers', u) = DueIn(timers, u)
                    /\ tasks = <<>> => tasks' = <<>>
           /\ timers' # <<>> => timers # <<>> /\ Last(timers').due >= Last(timers).due
<1>1. /\ id' = id /\ done' = done /\ erased' = erased /\ continue' = continue
      /\ lock' = lock /\ wake' = wake /\ now' = now
  BY DEF fateVars
<1>2. job[w] = None /\ now \in Nat
  BY PoolAssumption DEF Owned, TypeOK, Times
<1>3. pc' \in [Workers -> Labels]
  BY DEF Pop, Goto, TypeOK, Labels
<1>4. timers \in Seq(Timers) /\ InOrder(timers) /\ tasks \in Seq(Tasks) /\ Once(tasks)
  BY DEF TypeOK, Owned
<1>5. timers # <<>> => Last(timers) \in Timers
  <2>1. timers # <<>> => Len(timers) \in 1 .. Len(timers)
    BY <1>4, BackRemoved
  <2> QED
    BY <1>4, <2>1 DEF Last
<1>6. timers # <<>> => Last(timers).due >= Last(timers).due
  BY <1>5, TimerTyped
<1>7. \A v \in Workers : v # w =>
         pc'[v] \in {"run", "drainrun"} <=> pc[v] \in {"run", "drainrun"}
  BY DEF Pop, Goto, TypeOK
<1>8. CASE tasks = <<>> /\ ~TimerDue
  <2>1. Goto(w, otherwise) /\ UNCHANGED <<job, listVars>>
    BY <1>8 DEF Pop
  <2>2. /\ pc'[w] \notin {"run", "drainrun"}
        /\ pc[w] \notin {"run", "drainrun"}
    BY <2>1 DEF Goto, TypeOK
  <2>3. Owned' /\ Settled'
    BY <1>1, <1>7, <2>1, <2>2, NothingMoves DEF fateVars
  <2>4. Queued' = Queued /\ Running' = Running
    BY <2>1 DEF Queued, Running, TimedTasks, listVars
  <2>5. TypeOK'
    BY <1>1, <1>3, <2>1 DEF TypeOK, Labels, listVars
  <2> QED
    BY <1>6, <1>8, <2>1, <2>3, <2>4, <2>5 DEF listVars
<1>9. CASE tasks # <<>>
  <2> DEFINE t == Head(tasks)
  <2>1. /\ job' = [job EXCEPT ![w] = t] /\ tasks' = Tail(tasks)
        /\ timers' = timers /\ Goto(w, found)
    BY <1>9 DEF Pop
  <2>2. /\ t \in ToSet(tasks) /\ t \in Tasks /\ tasks' \in Seq(Tasks)
        /\ Once(tasks') /\ ToSet(tasks') = ToSet(tasks) \ {t}
    BY <1>4, <1>9, <2>1, Popped
  <2> HIDE DEF t
  <2>3. t \in Queued /\ t \notin TimedTasks /\ TimedTasks' = TimedTasks
    BY <2>1, <2>2 DEF Queued, Owned, TimedTasks
  <2>4. Queued' = Queued \ {t}
    BY <2>2, <2>3 DEF Queued
  <2>5. /\ job' \in [Workers -> Tasks \cup {None}]
        /\ Running' = Running \cup {t}
        /\ Queued' \cap Running' = {}
        /\ \A u, v \in Workers : u # v => job'[u] = None \/ job'[u] # job'[v]
        /\ \A u, v \in Live' : u # v => id'[u] # id'[v]
        /\ Settled'
    BY <1>1, <1>2, <2>1, <2>3, <2>4, Taken DEF fateVars
  <2>6. TypeOK'
    BY <1>1, <1>3, <2>1, <2>2, <2>5 DEF TypeOK, Labels
  <2>7. t \notin TasksOf(timers') /\ DueIn(timers, t) = 0 /\ timers' = timers
    <3>1. t \notin TasksOf(timers)
      BY <2>3, LiveTasks
    <3> QED
      BY <2>1, <3>1 DEF DueIn
  <2>8. \A v \in Workers : job'[v] # None <=> pc'[v] \in {"run", "drainrun"}
    <3>1. job'[w] = t /\ t # None /\ pc'[w] = found
      BY <2>1, <2>2, PoolAssumption DEF Goto, TypeOK
    <3>2. \A v \in Workers : v # w => job'[v] = job[v]
      BY <2>1 DEF TypeOK
    <3> QED
      BY <1>7, <3>1, <3>2 DEF Owned
  <2>9. Owned'
    <3>1. InOrder(timers') /\ ToSet(tasks') \cap TimedTasks' = {}
      BY <1>4, <2>1, <2>2, <2>3 DEF Owned
    <3> QED
      BY <2>2, <2>5, <2>8, <3>1 DEF Owned
  <2> QED
    BY <1>2, <1>6, <1>9, <2>1, <2>3, <2>4, <2>5, <2>6, <2>7, <2>9
<1>10. CASE tasks = <<>> /\ TimerDue
  <2> DEFINE p == Len(timers)
             t == timers[p].task
  <2>1. /\ job' = [job EXCEPT ![w] = t] /\ tasks' = tasks
        /\ timers' = Front(timers) /\ Goto(w, found)
    BY <1>10 DEF Pop, Last
  <2>2. timers # <<>> /\ timers[p].due <= now
    BY <1>10 DEF TimerDue, Last
  <2>3. p \in 1 .. Len(timers) /\ timers' = RemoveAt(timers, p)
    BY <1>4, <2>1, <2>2, BackRemoved
  <2>4. /\ timers' \in Seq(Timers) /\ InOrder(timers')
        /\ TasksOf(timers') = TasksOf(timers) \ {t}
        /\ \A v : v # t => DueIn(timers', v) = DueIn(timers, v)
        /\ timers' # <<>> => Last(timers').due >= Last(timers).due
    <3> HIDE DEF p
    <3> QED
      BY <1>4, <2>3, TimerRemoved
  <2>5. t \in TimedTasks /\ TasksOf(timers) = TimedTasks
    BY <1>4, <2>3, LiveTasks DEF TimedTasks
  <2>6. DueIn(timers, t) <= now
    BY <1>4, <2>2, <2>3, DueIs
  <2>7. TimedTasks' = TimedTasks \ {t}
    BY <2>4, <2>5 DEF TimedTasks, TasksOf
  <2> HIDE DEF t, p
  <2>8. t \in Queued /\ t \in Tasks /\ t \notin ToSet(tasks)
    BY <2>5, LiveTasks DEF Queued, Owned
  <2>9. Queued' = Queued \ {t}
    BY <2>1, <2>7, <2>8 DEF Queued
  <2>10. /\ job' \in [Workers -> Tasks \cup {None}]
         /\ Running' = Running \cup {t}
         /\ Queued' \cap Running' = {}
         /\ \A u, v \in Workers : u # v => job'[u] = None \/ job'[u] # job'[v]
         /\ \A u, v \in Live' : u # v => id'[u] # id'[v]
         /\ Settled'
    BY <1>1, <1>2, <2>1, <2>8, <2>9, Taken DEF fateVars
  <2>11. TypeOK'
    BY <1>1, <1>3, <2>1, <2>4, <2>10 DEF TypeOK, Labels
  <2>12. \A v \in Workers : job'[v] # None <=> pc'[v] \in {"run", "drainrun"}
    <3>1. job'[w] = t /\ t # None /\ pc'[w] = found
      BY <2>1, <2>8, PoolAssumption DEF Goto, TypeOK
    <3>2. \A v \in Workers : v # w => job'[v] = job[v]
      BY <2>1 DEF TypeOK
    <3> QED
      BY <1>7, <3>1, <3>2 DEF Owned
  <2>13. Owned'
    <3>1. Once(tasks') /\ ToSet(tasks') \cap TimedTasks' = {}
      BY <2>1, <2>7 DEF Owned
    <3> QED
      BY <2>4, <2>10, <2>12, <3>1 DEF Owned
  <2>14. t \notin TasksOf(timers')
    BY <2>4
  <2> QED
    BY <1>10, <2>1, <2>2, <2>4, <2>6, <2>8, <2>9, <2>10, <2>11, <2>13, <2>14
<1> QED
  BY <1>8, <1>9, <1>10

(* A task that has run has no object any more.                             *)
LEMMA RunKeeps ==
    ASSUME TypeOK, Owned, Settled, NEW w \in Workers, Run(w)
    PROVE  /\ TypeOK' /\ Owned' /\ Settled'
           /\ job[w] \in Running
           /\ Queued' = Queued /\ Running' = Running \ {job[w]}
<1> DEFINE t == job[w]
<1>1. /\ job' = [job EXCEPT ![w] = None] /\ done' = done \cup {t}
      /\ pc' = [pc EXCEPT ![w] = IF pc[w] = "run" THEN "loop" ELSE "drain"]
      /\ pc[w] \in {"run", "drainrun"}
      /\ UNCHANGED <<now, tasks, timers, id, continue, lock, wake, erased>>
  BY DEF Run, Goto, listVars
<1>2. t # None /\ t \in Running /\ t \in Tasks
  BY <1>1 DEF Owned, Running, TypeOK
<1> HIDE DEF t
<1>3. /\ job' \in [Workers -> Tasks \cup {None}] /\ job'[w] = None /\ job[w] = t
      /\ \A v \in Workers : v # w => job'[v] = job[v] /\ job[v] # t
  BY <1>1, <1>2 DEF TypeOK, Owned, t
<1>4. Running' = Running \ {t}
  BY <1>2, <1>3 DEF Running
<1>5. Queued' = Queued /\ TimedTasks' = TimedTasks
  BY <1>1 DEF Queued, TimedTasks
<1>6. t \in Live /\ Live' = Live \ {t}
  BY <1>2, <1>4, <1>5 DEF Live, Owned
<1>7. (\A u, v \in Live' : u # v => id'[u] # id'[v]) /\ Settled'
  BY <1>1, <1>6, Gone
<1>8. /\ pc' \in [Workers -> Labels] /\ pc'[w] \in {"loop", "drain"}
      /\ \A v \in Workers : v # w => pc'[v] = pc[v]
  BY <1>1 DEF TypeOK, Labels
<1>9. TypeOK'
  BY <1>1, <1>2, <1>3, <1>8 DEF TypeOK, Labels
<1>10. Owned'
  <2>1. Once(tasks') /\ InOrder(timers') /\ ToSet(tasks') \cap TimedTasks' = {}
    BY <1>1, <1>5 DEF Owned
  <2>2. Queued' \cap Running' = {}
    BY <1>4, <1>5 DEF Owned
  <2>3. /\ \A v \in Workers : job'[v] # None <=> pc'[v] \in {"run", "drainrun"}
        /\ \A u, v \in Workers : u # v => job'[u] = None \/ job'[u] # job'[v]
    BY <1>3, <1>8 DEF Owned
  <2> QED
    BY <1>7, <2>1, <2>2, <2>3 DEF Owned
<1> QED
  BY <1>2, <1>4, <1>5, <1>7, <1>9, <1>10 DEF t

(* The steps that leave tasks where they are.                              *)
Idle(w) ==
    Loop(w) \/ TakeLock(w) \/ CheckReady(w) \/ Wait(w) \/ Wake(w) \/ WakeSpuriously(w)

LEMMA IdleKeeps ==
    ASSUME TypeOK, Owned, Settled, NEW w \in Workers, Idle(w)
    PROVE  /\ TypeOK' /\ Owned' /\ Settled'
           /\ Queued' = Queued /\ Running' = Running
           /\ UNCHANGED <<now, tasks, timers, id, continue, job, done, erased>>
<1>1. UNCHANGED <<now, tasks, timers, id, continue, job, done, erased>>
  BY DEF Idle, Loop, TakeLock, CheckReady, Wait, Wake, WakeSpuriously, listVars,
         fateVars
<1>2. lock' \in Workers \cup {None}
  BY DEF Idle, Loop, TakeLock, CheckReady, Wait, Wake, WakeSpuriously, TypeOK
<1>3. /\ pc' \in [Workers -> Labels]
      /\ \A v \in Workers :
            pc'[v] \in {"run", "drainrun"} <=> pc[v] \in {"run", "drainrun"}
  <2>1. CASE Loop(w) \/ TakeLock(w) \/ CheckReady(w) \/ Wait(w)
    <3>1. PICK l \in Labels \ {"run", "drainrun"} : Goto(w, l)
      BY <2>1 DEF Loop, TakeLock, CheckReady, Wait, Labels
    <3>2. pc[w] \notin {"run", "drainrun"}
      BY <2>1 DEF Loop, TakeLock, CheckReady, Wait
    <3> QED
      BY <3>1, <3>2 DEF Goto, TypeOK, Labels
  <2>2. CASE Wake(w) \/ WakeSpuriously(w)
    <3>1. Awaken({w}) /\ {w} \subseteq Waiting
      BY <2>2 DEF Wake, WakeSpuriously, Waiting
    <3> QED
      BY <3>1, Awoken
  <2> QED
    BY <2>1, <2>2 DEF Idle
<1>4. wake' \in [Workers -> Times \cup {None}]
  <2>1. CASE Wait(w)
    <3>1. timers # <<>> => Last(timers) \in Timers
      <4>1. timers \in Seq(Timers)
        BY DEF TypeOK
      <4>2. timers # <<>> => Len(timers) \in 1 .. Len(timers)
        BY <4>1, BackRemoved
      <4> QED
        BY <4>1, <4>2 DEF Last
    <3> QED
      BY <2>1, <3>1 DEF Wait, TypeOK, Timers
  <2>2. CASE Wake(w) \/ WakeSpuriously(w)
    <3>1. Awaken({w}) /\ {w} \subseteq Waiting
      BY <2>2 DEF Wake, WakeSpuriously, Waiting
    <3> QED
      BY <3>1, Awoken
  <2>3. CASE Loop(w) \/ TakeLock(w) \/ CheckReady(w)
    BY <2>3 DEF Loop, TakeLock, CheckReady, TypeOK
  <2> QED
    BY <2>1, <2>2, <2>3 DEF Idle
<1>5. TypeOK'
  BY <1>1, <1>2, <1>3, <1>4 DEF TypeOK, Labels
<1>6. Owned' /\ Settled'
  BY <1>1, <1>3, NothingMoves DEF listVars, fateVars
<1>7. Queued' = Queued /\ Running' = Running
  BY <1>1 DEF Queued, Running, TimedTasks
<1> QED
  BY <1>1, <1>5, <1>6, <1>7

-----------------------------------------------------------------------------
(* The invariant is inductive                                              *)

LEMMA InitInv == Init => Inv
<1> SUFFICES ASSUME Init PROVE Inv
  OBVIOUS
<1>1. TypeOK
  BY PoolAssumption DEF Init, TypeOK, Times
<1>2. Queued = {} /\ Running = {} /\ TimedTasks = {}
  BY DEF Init, Queued, Running, ToSet, TimedTasks
<1>3. Owned
  BY <1>2 DEF Init, Owned, Live, Once, InOrder, ToSet
<1>4. Settled
  BY <1>2 DEF Init, Settled, Live
<1>5. Guarded
  BY PoolAssumption DEF Init, Guarded
<1>6. SleepsForAReason
  BY DEF Init, SleepsForAReason, Waiting
<1> QED
  BY <1>1, <1>3, <1>4, <1>5, <1>6 DEF Inv

(* The soonest timer has a time.                                           *)
LEMMA SoonestTyped ==
    ASSUME NEW list \in Seq(Timers), list # <<>>
    PROVE  Last(list).due \in Times
<1>1. Len(list) \in 1 .. Len(list)
  BY BackRemoved
<1>2. Last(list) \in Timers
  BY <1>1 DEF Last
<1> QED
  BY <1>2 DEF Timers

(* Who sleeps may go on sleeping when a timer goes, or a task does.        *)
LEMMA SleepOn ==
    ASSUME TypeOK, TypeOK', SleepsForAReason, Waiting' = Waiting,
           continue' = continue, wake' = wake,
           Waiting # {} /\ tasks' # <<>> =>
              \E v \in Workers : pc'[v] \notin {"waiting", "wait"},
           timers' # <<>> => timers # <<>> /\ Last(timers').due >= Last(timers).due
    PROVE  SleepsForAReason'
<1> SUFFICES ASSUME NEW w \in Waiting
             PROVE  /\ continue'
                    /\ tasks' # <<>> =>
                          \E v \in Workers : pc'[v] \notin {"waiting", "wait"}
                    /\ timers' # <<>> =>
                          wake'[w] # None /\ wake'[w] <= Last(timers').due
  BY DEF SleepsForAReason
<1>1. continue
  BY DEF SleepsForAReason
<1>2. ASSUME timers' # <<>>
      PROVE  wake[w] # None /\ wake[w] <= Last(timers').due
  <2>1. wake[w] # None /\ wake[w] <= Last(timers).due
    BY <1>2 DEF SleepsForAReason
  <2>2. Last(timers).due \in Times /\ Last(timers').due \in Times
    BY <1>2, SoonestTyped DEF TypeOK
  <2>3. wake[w] \in Times
    BY <2>1 DEF TypeOK, Waiting
  <2> QED
    BY <1>2, <2>1, <2>2, <2>3, PoolAssumption DEF Times
<1> QED
  BY <1>1, <1>2

(* A task in the wrong list does not put a worker to sleep.                *)
LEMMA SleepStep ==
    ASSUME Inv, [Next]_vars, TypeOK'
    PROVE  Guarded' /\ SleepsForAReason'
<1> USE DEF Inv, TypeOK
<1>1. CASE Tick \/ UNCHANGED vars
  BY <1>1 DEF Tick, vars, listVars, workerVars, Guarded, SleepsForAReason, Waiting
<1>2. CASE Stop \/ \E t \in Tasks, d \in Delays : PushDelayed(t, d)
  <2>1. lock = None /\ lock' = lock /\ Awaken(Waiting)
    BY <1>2 DEF Stop, PushDelayed, NotifyAll
  <2>2. \A w \in Workers : pc'[w] = IF w \in Waiting THEN "loop" ELSE pc[w]
    BY <2>1, Awoken
  <2>3. \A w \in Workers : pc[w] \notin {"ready", "wait"}
    BY <2>1, PoolAssumption DEF Guarded
  <2>4. Waiting' = {} /\ \A w \in Workers : pc'[w] \notin {"ready", "wait"}
    BY <2>2, <2>3 DEF Waiting
  <2> QED
    BY <2>1, <2>4, PoolAssumption DEF Guarded, SleepsForAReason
<1>3. ASSUME NEW t \in Tasks, Push(t) PROVE Guarded' /\ SleepsForAReason'
  <2>1. lock = None /\ lock' = lock /\ continue' = continue /\ timers' = timers
    BY <1>3 DEF Push
  <2>2. PICK W \in SUBSET Waiting : Awaken(W) /\ (Waiting # {} => W # {})
    BY <1>3, Notified DEF Push, Awaken
  <2>3. \A w \in Workers :
           /\ pc'[w] = IF w \in W THEN "loop" ELSE pc[w]
           /\ w \notin W => wake'[w] = wake[w]
    BY <2>2, Awoken
  <2>4. \A w \in Workers : pc[w] \notin {"ready", "wait"}
    BY <2>1, PoolAssumption DEF Guarded
  <2>5. Guarded'
    BY <2>1, <2>3, <2>4, PoolAssumption DEF Guarded
  <2>6. Waiting' = Waiting \ W /\ W \subseteq Workers
    BY <2>2, <2>3 DEF Waiting
  <2>7. Waiting' # {} => \E v \in Workers : pc'[v] = "loop"
    BY <2>2, <2>3, <2>6
  <2>8. ASSUME NEW w \in Waiting'
        PROVE  /\ continue'
               /\ \E v \in Workers : pc'[v] \notin {"waiting", "wait"}
               /\ timers' # <<>> =>
                     wake'[w] # None /\ wake'[w] <= Last(timers').due
    <3>1. w \in Waiting /\ wake'[w] = wake[w]
      <4> HIDE DEF Inv, TypeOK
      <4>1. w \in Waiting /\ w \notin W /\ w \in Workers
        BY <2>6 DEF Waiting
      <4> QED
        BY <2>3, <4>1
    <3>2. /\ continue
          /\ timers # <<>> => wake[w] # None /\ wake[w] <= Last(timers).due
      BY <3>1 DEF SleepsForAReason
    <3>3. \E v \in Workers : pc'[v] \notin {"waiting", "wait"}
      BY <2>7
    <3> QED
      BY <2>1, <3>1, <3>2, <3>3
  <2>9. SleepsForAReason'
    BY <2>8 DEF SleepsForAReason
  <2> QED
    BY <2>5, <2>9
<1>4. ASSUME NEW t \in Tasks, Cancel(t) PROVE Guarded' /\ SleepsForAReason'
  <2>1. /\ timers' # <<>> => timers # <<>> /\ Last(timers').due >= Last(timers).due
        /\ UNCHANGED <<tasks, continue, lock, pc, wake>>
    BY <1>4, CancelKeeps DEF Cancel, workerVars
  <2>2. Guarded' /\ Waiting' = Waiting
    BY <2>1 DEF Guarded, Waiting
  <2>3. Waiting # {} /\ tasks' # <<>> =>
           \E v \in Workers : pc'[v] \notin {"waiting", "wait"}
    BY <2>1 DEF SleepsForAReason
  <2> QED
    BY <2>1, <2>2, <2>3, SleepOn
<1>5. ASSUME NEW w \in Workers, PopNext(w) \/ Drain(w)
      PROVE  Guarded' /\ SleepsForAReason'
  <2>1. PICK found \in {"run", "drainrun"}, otherwise \in {"lock", "ended"} :
           /\ Pop(w, found, otherwise)
           /\ pc[w] \in {"pop", "drain"}
           /\ UNCHANGED <<now, id, continue, lock, wake, fateVars>>
    BY <1>5 DEF PopNext, Drain
  <2>2. otherwise \in Labels \ {"run", "drainrun"}
    BY DEF Labels
  <2>3. /\ tasks = <<>> => tasks' = <<>>
        /\ timers' # <<>> => timers # <<>> /\ Last(timers').due >= Last(timers).due
    BY <2>1, <2>2, PopMoves DEF listVars
  <2>4. /\ pc'[w] \notin {"ready", "wait", "waiting"}
        /\ pc[w] \notin {"ready", "wait", "waiting"}
        /\ \A v \in Workers : v # w => pc'[v] = pc[v]
    BY <2>1 DEF Pop, Goto
  <2>5. lock' = lock /\ continue' = continue /\ wake' = wake
    BY <2>1
  <2>6. Guarded'
    BY <2>3, <2>4, <2>5 DEF Guarded
  <2>7. Waiting' = Waiting /\ \E v \in Workers : pc'[v] \notin {"wait", "waiting"}
    BY <2>4 DEF Waiting
  <2> QED
    BY <2>3, <2>5, <2>6, <2>7, SleepOn
<1>6. ASSUME NEW w \in Workers, Run(w) PROVE Guarded' /\ SleepsForAReason'
  <2>1. UNCHANGED <<tasks, timers, continue, lock, wake>>
    BY <1>6 DEF Run, listVars
  <2>2. /\ pc'[w] \notin {"ready", "wait", "waiting"}
        /\ pc[w] \notin {"ready", "wait", "waiting"}
        /\ \A v \in Workers : v # w => pc'[v] = pc[v]
    BY <1>6 DEF Run, Goto
  <2> QED
    BY <2>1, <2>2 DEF Guarded, SleepsForAReason, Waiting
<1>7. ASSUME NEW w \in Workers, Idle(w) PROVE Guarded' /\ SleepsForAReason'
  <2>1. UNCHANGED <<tasks, timers, continue>>
    BY <1>7, IdleKeeps
  <2>2. CASE Loop(w)
    <3>1. /\ pc'[w] \notin {"ready", "wait", "waiting"}
          /\ pc[w] \notin {"ready", "wait", "waiting"}
          /\ \A v \in Workers : v # w => pc'[v] = pc[v]
          /\ lock' = lock /\ wake' = wake
      BY <2>2 DEF Loop, Goto
    <3> QED
      BY <2>1, <3>1 DEF Guarded, SleepsForAReason, Waiting
  <2>3. CASE TakeLock(w)
    <3>1. /\ pc'[w] = "ready" /\ pc[w] = "lock" /\ lock = None /\ lock' = w
          /\ \A v \in Workers : v # w => pc'[v] = pc[v]
          /\ wake' = wake
      BY <2>3 DEF TakeLock, Goto
    <3> QED
      BY <2>1, <3>1, PoolAssumption DEF Guarded, SleepsForAReason, Waiting
  <2>4. CASE CheckReady(w)
    <3>1. /\ pc[w] = "ready" /\ wake' = wake
          /\ \A v \in Workers : v # w => pc'[v] = pc[v]
          /\ \/ pc'[w] \in {"loop", "drain"} /\ lock' = None
             \/ /\ pc'[w] = "wait" /\ lock' = lock /\ tasks = <<>> /\ continue
      BY <2>4 DEF CheckReady, Goto
    <3>2. lock = w /\ \A v \in Workers : v # w => pc[v] \notin {"ready", "wait"}
      BY <3>1 DEF Guarded
    <3>3. Guarded'
      BY <2>1, <3>1, <3>2, PoolAssumption DEF Guarded
    <3>4. Waiting' = Waiting
      BY <3>1 DEF Waiting
    <3>5. tasks' # <<>> => \E v \in Workers : pc'[v] \notin {"waiting", "wait"}
      BY <2>1, <3>1
    <3> QED
      BY <2>1, <3>1, <3>3, <3>4, <3>5 DEF SleepsForAReason
  <2>5. CASE Wait(w)
    <3>1. /\ pc[w] = "wait" /\ pc'[w] = "waiting" /\ lock' = None
          /\ \A v \in Workers : v # w => pc'[v] = pc[v] /\ wake'[v] = wake[v]
          /\ wake'[w] = IF timers = <<>> THEN None ELSE Last(timers).due
      BY <2>5 DEF Wait, Goto
    <3>2. /\ lock = w /\ continue /\ tasks = <<>>
          /\ \A v \in Workers : v # w => pc[v] \notin {"ready", "wait"}
      BY <3>1 DEF Guarded
    <3>3. Guarded'
      BY <2>1, <3>1, <3>2, PoolAssumption DEF Guarded
    <3>4. timers # <<>> => Last(timers).due \in Times
      BY SoonestTyped
    <3>5. ASSUME NEW v \in Waiting'
          PROVE  timers' # <<>> => wake'[v] # None /\ wake'[v] <= Last(timers').due
      <4>1. CASE v = w
        BY <2>1, <3>1, <3>4, <4>1, PoolAssumption DEF Times
      <4>2. CASE v # w
        <5>1. v \in Waiting /\ wake'[v] = wake[v]
          BY <3>1, <4>2 DEF Waiting
        <5>2. timers # <<>> => wake[v] # None /\ wake[v] <= Last(timers).due
          BY <5>1 DEF SleepsForAReason
        <5> QED
          BY <2>1, <5>1, <5>2
      <4> QED
        BY <4>1, <4>2
    <3> QED
      BY <2>1, <3>2, <3>3, <3>5 DEF SleepsForAReason
  <2>6. CASE Wake(w) \/ WakeSpuriously(w)
    <3>1. Awaken({w}) /\ {w} \subseteq Waiting /\ lock' = lock
      BY <2>6 DEF Wake, WakeSpuriously, Waiting
    <3>2. /\ pc'[w] = "loop" /\ pc[w] = "waiting"
          /\ \A v \in Workers : v # w => pc'[v] = pc[v] /\ wake'[v] = wake[v]
      BY <3>1, Awoken
    <3> QED
      BY <2>1, <3>1, <3>2 DEF Guarded, SleepsForAReason, Waiting
  <2> QED
    BY <1>7, <2>2, <2>3, <2>4, <2>5, <2>6 DEF Idle
<1> QED
  BY <1>1, <1>2, <1>3, <1>4, <1>5, <1>6, <1>7 DEF Next, WorkerStep, Idle

LEMMA StepInv == Inv /\ [Next]_vars => Inv'
<1> SUFFICES ASSUME Inv, [Next]_vars PROVE Inv'
  OBVIOUS
<1>1. TypeOK /\ Owned /\ Settled
  BY DEF Inv
<1>2. TypeOK' /\ Owned' /\ Settled'
  <2>1. CASE Tick \/ UNCHANGED vars
    <3>1. UNCHANGED <<listVars, id, job, pc, fateVars>>
      BY <2>1 DEF Tick, vars, workerVars
    <3>2. now' \in Times
      BY <1>1, <2>1, PoolAssumption DEF Tick, vars, TypeOK, Times
    <3>3. TypeOK'
      BY <1>1, <2>1, <3>1, <3>2
         DEF TypeOK, Tick, vars, listVars, workerVars, fateVars
    <3> QED
      BY <1>1, <3>1, <3>3, NothingMoves
  <2>2. CASE Stop
    <3>1. UNCHANGED <<now, listVars, id, lock, job, fateVars>> /\ continue' = FALSE
      BY <2>2 DEF Stop
    <3>2. Awaken(Waiting)
      BY <2>2 DEF Stop, NotifyAll
    <3>3. /\ pc' \in [Workers -> Labels]
          /\ wake' \in [Workers -> Times \cup {None}]
          /\ \A w \in Workers : pc'[w] \in {"run", "drainrun"}
                                   <=> pc[w] \in {"run", "drainrun"}
      BY <1>1, <3>2, Awoken
    <3>4. TypeOK'
      BY <1>1, <3>1, <3>3 DEF TypeOK, listVars, fateVars, Labels
    <3> QED
      BY <1>1, <3>1, <3>3, <3>4, NothingMoves
  <2>3. ASSUME NEW t \in Tasks, Push(t) PROVE TypeOK' /\ Owned' /\ Settled'
    BY <1>1, <2>3, PushKeeps
  <2>4. ASSUME NEW t \in Tasks, Cancel(t) PROVE TypeOK' /\ Owned' /\ Settled'
    BY <1>1, <2>4, CancelKeeps
  <2>5. ASSUME NEW t \in Tasks, NEW d \in Delays, PushDelayed(t, d)
        PROVE  TypeOK' /\ Owned' /\ Settled'
    BY <1>1, <2>5, PushDelayedKeeps
  <2>6. ASSUME NEW w \in Workers, PopNext(w) \/ Drain(w)
        PROVE  TypeOK' /\ Owned' /\ Settled'
    BY <1>1, <2>6, PopMoves DEF PopNext, Drain, Labels
  <2>7. ASSUME NEW w \in Workers, Run(w) PROVE TypeOK' /\ Owned' /\ Settled'
    BY <1>1, <2>7, RunKeeps
  <2>8. ASSUME NEW w \in Workers, Idle(w) PROVE TypeOK' /\ Owned' /\ Settled'
    BY <1>1, <2>8, IdleKeeps
  <2> QED
    BY <2>1, <2>2, <2>3, <2>4, <2>5, <2>6, <2>7, <2>8
       DEF Next, WorkerStep, Idle
<1>3. Guarded' /\ SleepsForAReason'
  BY <1>2, SleepStep
<1> QED
  BY <1>2, <1>3 DEF Inv

LEMMA SpecInv == Spec => []Inv
BY InitInv, StepInv, PTL DEF Spec

-----------------------------------------------------------------------------
(* Ownership and sleep                                                     *)

(* A sequence without repetition is as long as it has elements.            *)
LEMMA Counted ==
    ASSUME NEW n \in Nat, NEW f, \A i, j \in 1 .. n : f[i] = f[j] => i = j
    PROVE  Cardinality({f[i] : i \in 1 .. n}) = n
<1> DEFINE S == {f[i] : i \in 1 .. n}
           g == [i \in 1 .. n |-> f[i]]
<1>1. g \in Bijection(1 .. n, S)
  BY DEF Bijection, Injection, Surjection, IsInjective
<1>2. ExistsBijection(1 .. n, S)
  BY <1>1 DEF ExistsBijection
<1> QED
  BY <1>2, FS_CountingElements

(* A task is owned by one list or one worker, once, and no two live task   *)
(* objects have the same id, however callers and workers interleave.       *)
THEOREM TasksHaveOneOwner == Spec => []OneOwner
<1>1. Inv => OneOwner
  <2> SUFFICES ASSUME Inv PROVE OneOwner
    OBVIOUS
  <2>1. Len(tasks) = Cardinality(ToSet(tasks))
    <3>1. Len(tasks) \in Nat /\ DOMAIN tasks = 1 .. Len(tasks)
      BY DEF Inv, TypeOK
    <3>2. \A i, j \in 1 .. Len(tasks) : tasks[i] = tasks[j] => i = j
      BY DEF Inv, Owned, Once
    <3> QED
      BY <3>1, <3>2, Counted DEF ToSet
  <2>2. Len(timers) = Cardinality(TimedTasks)
    <3> DEFINE f == [i \in 1 .. Len(timers) |-> timers[i].task]
    <3>1. Len(timers) \in Nat /\ DOMAIN timers = 1 .. Len(timers)
      BY DEF Inv, TypeOK
    <3>2. \A i, j \in 1 .. Len(timers) : f[i] = f[j] => i = j
      BY DEF Inv, Owned, InOrder
    <3>3. TimedTasks = {timers[i].task : i \in 1 .. Len(timers)}
      BY <3>1 DEF TimedTasks
    <3>4. TimedTasks = {f[i] : i \in 1 .. Len(timers)}
      <4>1. \A i \in 1 .. Len(timers) : f[i] = timers[i].task
        OBVIOUS
      <4> HIDE DEF f
      <4> QED
        BY <3>3, <4>1
    <3> HIDE DEF f
    <3>5. Cardinality({f[i] : i \in 1 .. Len(timers)}) = Len(timers)
      BY <3>1, <3>2, Counted
    <3> QED
      BY <3>4, <3>5
  <2> QED
    BY <2>1, <2>2 DEF Inv, Owned, OneOwner, Live
<1> QED
  BY <1>1, SpecInv, PTL

(* No wakeup is lost: a worker that sleeps has no task to look after that  *)
(* no other will, and wakes up for the soonest timer.                      *)
THEOREM WorkersSleepForAReason == Spec => []SleepsForAReason
BY SpecInv, PTL DEF Inv

-----------------------------------------------------------------------------
(* The pool implements the board                                           *)

\* A task's status tells where it is, and its time which timer it has.
Placed(t) ==
    /\ Status(t) = "queued" <=> t \in Queued
    /\ Status(t) = "running" <=> t \in Running
    /\ t \notin Live \cup done \cup erased => Status(t) = "new"
    /\ t \in done => Status(t) = "done"
    /\ t \in erased => Status(t) = "cancelled"
    /\ DueTime(t) = DueIn(timers, t)

LEMMA StatusIs == Inv => \A t \in Tasks : Placed(t)
<1> SUFFICES ASSUME Inv, NEW t \in Tasks PROVE Placed(t)
  OBVIOUS
<1> USE DEF Placed
<1>1. t \in Live => t \notin done \cup erased
  BY DEF Inv, Settled
<1>2. t \in Queued => t \notin Running
  BY DEF Inv, Owned
<1>3. DueTime(t) = DueIn(timers, t)
  BY LiveTasks DEF Inv, DueTime, DueIn
<1>4. ~(t \in done /\ t \in erased)
  BY DEF Inv, Settled
<1>5. CASE t \in Queued
  <2>1. t \notin Running /\ t \notin done /\ t \notin erased
    BY <1>1, <1>2, <1>5 DEF Live
  <2>2. Status(t) = "queued"
    BY <1>5, <2>1 DEF Status
  <2> QED
    BY <1>3, <1>5, <2>1, <2>2 DEF Live
<1>6. CASE t \in Running
  <2>1. t \notin Queued /\ t \notin done /\ t \notin erased
    BY <1>1, <1>2, <1>6 DEF Live
  <2>2. Status(t) = "running"
    BY <1>6, <2>1 DEF Status
  <2> QED
    BY <1>3, <1>6, <2>1, <2>2 DEF Live
<1>7. CASE t \in done
  <2>1. t \notin Queued /\ t \notin Running /\ t \notin erased
    BY <1>1, <1>4, <1>7 DEF Live
  <2>2. Status(t) = "done"
    BY <1>7, <2>1 DEF Status
  <2> QED
    BY <1>3, <1>7, <2>1, <2>2 DEF Live
<1>8. CASE t \in erased
  <2>1. t \notin Queued /\ t \notin Running /\ t \notin done
    BY <1>1, <1>4, <1>8 DEF Live
  <2>2. Status(t) = "cancelled"
    BY <1>8, <2>1 DEF Status
  <2> QED
    BY <1>3, <1>8, <2>1, <2>2 DEF Live
<1>9. CASE t \notin Live \cup done \cup erased
  <2>1. t \notin Queued /\ t \notin Running /\ t \notin done /\ t \notin erased
    BY <1>9 DEF Live
  <2>2. Status(t) = "new"
    BY <2>1 DEF Status
  <2> QED
    BY <1>3, <2>1, <2>2 DEF Live
<1> QED
  BY <1>5, <1>6, <1>7, <1>8, <1>9 DEF Live

LEMMA StatusNext == Inv' => (\A t \in Tasks : Placed(t))'
BY StatusIs, PTL

(* One that stays where it was keeps its status.                           *)
LEMMA StatusStays ==
    ASSUME NEW t, t \in Queued' <=> t \in Queued, t \in Running' <=> t \in Running,
           t \in done' <=> t \in done, t \in erased' <=> t \in erased
    PROVE  Status(t)' = Status(t)
BY DEF Status

(* The board follows when one task moves and the others stay.              *)
LEMMA BoardMoves ==
    ASSUME NEW t \in Tasks, NEW from, NEW to, NEW time,
           Status(t) = from, Status(t)' = to, DueTime(t)' = time,
           \A u \in Tasks : u # t => Status(u)' = Status(u) /\ DueTime(u)' = DueTime(u),
           now' = now
    PROVE  Board!Move(t, from, to, time)
<1>1. [u \in Tasks |-> Status(u)]' = [[u \in Tasks |-> Status(u)] EXCEPT ![t] = to]
  OBVIOUS
<1>2. [u \in Tasks |-> DueTime(u)]' = [[u \in Tasks |-> DueTime(u)] EXCEPT ![t] = time]
  OBVIOUS
<1> QED
  BY <1>1, <1>2 DEF Board!Move

(* It stays when all do.                                                   *)
LEMMA BoardStays ==
    ASSUME Inv, Inv', Queued' = Queued, Running' = Running,
           UNCHANGED <<now, timers, done, erased>>
    PROVE  UNCHANGED Board!vars
<1>1. \A t \in Tasks : Status(t)' = Status(t)
  BY StatusStays
<1>2. \A t \in Tasks : DueTime(t)' = DueTime(t)
  BY StatusIs, StatusNext DEF Placed
<1> QED
  BY <1>1, <1>2 DEF Board!vars

LEMMA BoardInit == Init => Board!Init
<1> SUFFICES ASSUME Init PROVE Board!Init
  OBVIOUS
<1>1. Inv /\ now = 0 /\ done = {} /\ erased = {}
  BY InitInv DEF Init
<1>2. Queued = {} /\ Running = {} /\ timers = <<>>
  BY DEF Init, Queued, Running, ToSet, TimedTasks
<1>3. ASSUME NEW t \in Tasks PROVE Status(t) = "new" /\ DueTime(t) = 0
  <2>1. Placed(t)
    BY <1>1, StatusIs
  <2>2. t \notin TasksOf(timers)
    BY <1>2 DEF TasksOf
  <2> QED
    BY <1>1, <1>2, <2>1, <2>2 DEF Placed, Live, DueIn
<1> QED
  BY <1>1, <1>3 DEF Board!Init

(* Each step of the pool is one of the board's, or none.                   *)
LEMMA BoardStep ==
    ASSUME Inv, Inv', [Next]_vars
    PROVE  [Board!Next]_Board!vars
<1>1. \A t \in Tasks : Placed(t)
  BY StatusIs
<1>2. \A t \in Tasks : Placed(t)'
  BY StatusNext
<1>3. TypeOK /\ Owned /\ Settled
  BY DEF Inv
<1>4. CASE Tick
  <2>1. UNCHANGED <<tasks, timers, job, done, erased>> /\ now' = now + 1
    BY <1>4 DEF Tick, listVars, workerVars, fateVars
  <2>2. Queued' = Queued /\ Running' = Running
    BY <2>1 DEF Queued, Running, TimedTasks
  <2>3. \A t \in Tasks : Status(t)' = Status(t) /\ DueTime(t)' = DueTime(t)
    BY <1>1, <1>2, <2>1, <2>2, StatusStays DEF Placed
  <2>4. now' \in 0 .. MaxTime /\ now' > now
    BY <1>3, <1>4, <2>1, PoolAssumption DEF Tick, TypeOK, Times
  <2>5. Board!Tick
    BY <2>3, <2>4 DEF Board!Tick, Board!Times
  <2> QED
    BY <2>5 DEF Board!Next
<1>5. CASE Stop \/ UNCHANGED vars
  <2>1. UNCHANGED <<now, tasks, timers, job, done, erased>>
    BY <1>5 DEF Stop, vars, listVars, workerVars, fateVars
  <2>2. Queued' = Queued /\ Running' = Running
    BY <2>1 DEF Queued, Running, TimedTasks
  <2> QED
    BY <2>1, <2>2, BoardStays
<1>6. ASSUME NEW t \in Tasks, Push(t) PROVE [Board!Next]_Board!vars
  <2>1. /\ t \notin Live \cup done \cup erased
        /\ Queued' = Queued \cup {t} /\ Running' = Running
    BY <1>3, <1>6, PushKeeps
  <2>2. UNCHANGED <<now, timers, done, erased>>
    BY <1>6 DEF Push, fateVars
  <2>3. Status(t) = "new" /\ Status(t)' = "queued"
    BY <1>1, <1>2, <2>1 DEF Placed
  <2>4. DueTime(t)' = 0
    <3>1. t \notin TasksOf(timers)
      BY <1>3, <2>1, LiveTasks DEF Live, Queued
    <3> QED
      BY <1>2, <2>2, <3>1 DEF Placed, DueIn
  <2>5. \A u \in Tasks : u # t => Status(u)' = Status(u) /\ DueTime(u)' = DueTime(u)
    BY <1>1, <1>2, <2>1, <2>2, StatusStays DEF Placed
  <2>6. Board!Move(t, "new", "queued", 0) /\ 0 \in Board!Times
    BY <2>2, <2>3, <2>4, <2>5, BoardMoves, PoolAssumption DEF Board!Times
  <2> QED
    BY <2>6 DEF Board!Next, Board!Submit
<1>7. ASSUME NEW t \in Tasks, NEW d \in Delays, PushDelayed(t, d)
      PROVE  [Board!Next]_Board!vars
  <2>1. /\ t \notin Live \cup done \cup erased
        /\ Queued' = Queued \cup {t} /\ Running' = Running
        /\ DueIn(timers', t) = now + d /\ now + d \in Times
        /\ \A u : u # t => DueIn(timers', u) = DueIn(timers, u)
    BY <1>3, <1>7, PushDelayedKeeps
  <2>2. UNCHANGED <<now, done, erased>>
    BY <1>7 DEF PushDelayed, fateVars
  <2>3. Status(t) = "new" /\ Status(t)' = "queued"
    BY <1>1, <1>2, <2>1 DEF Placed
  <2>4. DueTime(t)' = now + d
    BY <1>2, <2>1 DEF Placed
  <2>5. \A u \in Tasks : u # t => Status(u)' = Status(u) /\ DueTime(u)' = DueTime(u)
    BY <1>1, <1>2, <2>1, <2>2, StatusStays DEF Placed
  <2>6. Board!Move(t, "new", "queued", now + d) /\ now + d \in Board!Times
    BY <2>1, <2>2, <2>3, <2>4, <2>5, BoardMoves DEF Board!Times, Times
  <2> QED
    BY <2>6 DEF Board!Next, Board!Submit
<1>8. ASSUME NEW t \in Tasks, Cancel(t) PROVE [Board!Next]_Board!vars
  <2>1. Running' = Running /\ now' = now /\ done' = done
    BY <1>3, <1>8, CancelKeeps DEF Cancel
  <2>2. CASE Queued' = Queued /\ timers' = timers /\ erased' = erased
    BY <2>1, <2>2, BoardStays
  <2>3. ASSUME NEW u \in TimedTasks,
               Queued' = Queued \ {u}, erased' = erased \cup {u},
               u \notin TasksOf(timers'),
               \A v : v # u => DueIn(timers', v) = DueIn(timers, v)
        PROVE  [Board!Next]_Board!vars
    <3>1. u \in Queued /\ u \in Tasks
      BY <1>3, LiveTasks DEF Queued
    <3>2. Status(u) = "queued" /\ Status(u)' = "cancelled" /\ DueTime(u)' = 0
      BY <1>1, <1>2, <2>3, <3>1 DEF Placed, DueIn
    <3>3. \A v \in Tasks : v # u => Status(v)' = Status(v) /\ DueTime(v)' = DueTime(v)
      BY <1>1, <1>2, <2>1, <2>3, StatusStays DEF Placed
    <3>4. Board!Move(u, "queued", "cancelled", 0)
      BY <2>1, <3>1, <3>2, <3>3, BoardMoves
    <3> QED
      BY <3>1, <3>4 DEF Board!Next, Board!Cancel
  <2>4. \/ Queued' = Queued /\ timers' = timers /\ erased' = erased
        \/ \E u \in TimedTasks :
              /\ Queued' = Queued \ {u} /\ erased' = erased \cup {u}
              /\ u \notin TasksOf(timers')
              /\ \A v : v # u => DueIn(timers', v) = DueIn(timers, v)
    BY <1>3, <1>8, CancelKeeps
  <2> QED
    BY <2>2, <2>3, <2>4
<1>9. ASSUME NEW w \in Workers, PopNext(w) \/ Drain(w)
      PROVE  [Board!Next]_Board!vars
  <2>1. PICK found \in {"run", "drainrun"}, otherwise \in {"lock", "ended"} :
           /\ Pop(w, found, otherwise)
           /\ pc[w] \in {"pop", "drain"}
           /\ UNCHANGED <<now, id, continue, lock, wake, fateVars>>
    BY <1>9 DEF PopNext, Drain
  <2>2. otherwise \in Labels \ {"run", "drainrun"}
    BY DEF Labels
  <2>3. UNCHANGED <<now, done, erased>>
    BY <2>1 DEF fateVars
  <2>4. \/ Queued' = Queued /\ Running' = Running /\ timers' = timers
        \/ \E t \in Queued :
              /\ Queued' = Queued \ {t} /\ Running' = Running \cup {t}
              /\ t \notin TasksOf(timers')
              /\ DueIn(timers, t) <= now
              /\ \A u : u # t => DueIn(timers', u) = DueIn(timers, u)
    BY <1>3, <2>1, <2>2, PopMoves DEF listVars
  <2>5. CASE Queued' = Queued /\ Running' = Running /\ timers' = timers
    BY <2>3, <2>5, BoardStays
  <2>6. ASSUME NEW t \in Queued,
               Queued' = Queued \ {t}, Running' = Running \cup {t},
               t \notin TasksOf(timers'), DueIn(timers, t) <= now,
               \A u : u # t => DueIn(timers', u) = DueIn(timers, u)
        PROVE  [Board!Next]_Board!vars
    <3>1. t \in Tasks
      BY <1>3, LiveTasks
    <3>2. /\ Status(t) = "queued" /\ Status(t)' = "running"
          /\ DueTime(t) <= now /\ DueTime(t)' = 0
      BY <1>1, <1>2, <2>6, <3>1 DEF Placed, DueIn
    <3>3. \A u \in Tasks : u # t => Status(u)' = Status(u) /\ DueTime(u)' = DueTime(u)
      BY <1>1, <1>2, <2>3, <2>6, StatusStays DEF Placed
    <3>4. Board!Move(t, "queued", "running", 0)
      BY <2>3, <3>1, <3>2, <3>3, BoardMoves
    <3> QED
      BY <3>1, <3>2, <3>4 DEF Board!Next, Board!Begin
  <2> QED
    BY <2>4, <2>5, <2>6
<1>10. ASSUME NEW w \in Workers, Run(w) PROVE [Board!Next]_Board!vars
  <2>1. PICK t \in Running : /\ t = job[w]
                             /\ Queued' = Queued /\ Running' = Running \ {t}
    BY <1>3, <1>10, RunKeeps
  <2>2. UNCHANGED <<now, timers, erased>> /\ done' = done \cup {t}
    BY <1>10, <2>1 DEF Run, listVars
  <2>3. t \in Tasks /\ t \notin Queued
    BY <1>3, <2>1, LiveTasks DEF Owned
  <2>4. Status(t) = "running" /\ Status(t)' = "done"
    BY <1>1, <1>2, <2>1, <2>2, <2>3 DEF Placed
  <2>5. DueTime(t)' = 0
    <3>1. t \notin TasksOf(timers)
      BY <1>3, <2>3, LiveTasks DEF Queued
    <3> QED
      BY <1>2, <2>2, <2>3, <3>1 DEF Placed, DueIn
  <2>6. \A u \in Tasks : u # t => Status(u)' = Status(u) /\ DueTime(u)' = DueTime(u)
    BY <1>1, <1>2, <2>1, <2>2, StatusStays DEF Placed
  <2>7. Board!Move(t, "running", "done", 0)
    BY <2>2, <2>3, <2>4, <2>5, <2>6, BoardMoves
  <2> QED
    BY <2>3, <2>7 DEF Board!Next, Board!Finish
<1>11. ASSUME NEW w \in Workers, Idle(w) PROVE [Board!Next]_Board!vars
  <2>1. /\ Queued' = Queued /\ Running' = Running
        /\ UNCHANGED <<now, timers, done, erased>>
    BY <1>3, <1>11, IdleKeeps
  <2> QED
    BY <2>1, BoardStays
<1>12. \/ Tick
       \/ Stop \/ UNCHANGED vars
       \/ \E t \in Tasks : Push(t)
       \/ \E t \in Tasks, d \in Delays : PushDelayed(t, d)
       \/ \E t \in Tasks : Cancel(t)
       \/ \E w \in Workers : PopNext(w) \/ Drain(w)
       \/ \E w \in Workers : Run(w)
       \/ \E w \in Workers : Idle(w)
  BY DEF Next, WorkerStep, Idle
<1> QED
  BY <1>4, <1>5, <1>6, <1>7, <1>8, <1>9, <1>10, <1>11, <1>12

(* Whatever the interleaving of callers and workers, a task is run at most *)
(* once, never before its time, and not after cancel() removed it.         *)
THEOREM PoolImplementsBoard == Spec => ImplementsBoard
<1>1. Inv /\ Inv' /\ [Next]_vars => [Board!Next]_Board!vars
  BY BoardStep
<1> QED
  BY <1>1, SpecInv, BoardInit, PTL DEF Spec, ImplementsBoard, Board!Spec

=============================================================================
