---------------------------- MODULE AppHostProofs ----------------------------
(***************************************************************************)
(* Proofs about AppHost, for any apps with any commands and any number of  *)
(* requests: that preparation is undone, that an app which has ended, or   *)
(* was never started, leaves nothing behind, and that a launch ends no app.*)
(* They hold for as long as the code itself keeps track (taint).           *)
(***************************************************************************)
EXTENDS AppHost, SequenceTheorems, TLAPS

-----------------------------------------------------------------------------
(* The inductive invariant                                                 *)

\* Where a function goes on after one that it has called.
Returns == {"zero", "count", "joined"}

\* The steps of functions that are called, but for execute().
Called == {"terminate", "running", "clear", "join", "joining", "erase"}
             \cup Returns \cup InTerminate

\* Where no function is under way.
Outside == Labels \ (Called \cup InExecute \cup {"executed"})

\* Where such a place goes on after a function; that is not everywhere.
Callers == Outside \ {"probe", "begin"}

\* Callers, down to one that was called by nobody.
Stacks ==
    {s \in Seq(Returns \cup Callers) :
        s # <<>> /\ \A i \in 1 .. Len(s) : s[i] \in Callers <=> i = Len(s)}

\* Only the HTTPS thread calls execute(), for an app, and by one launch.
Executing(t) ==
    /\ t = "https"
    /\ request.app \in Apps
    /\ \/ pc[t] \in InExecute /\ stack[t] = <<"executed">>
       \/ /\ pc[t] \in {"terminate"} \cup InTerminate
          /\ stack[t] \in {<<"find", "executed">>, <<"failed", "executed">>}

Shaped ==
    \A t \in Threads :
        \/ pc[t] \in Outside \cup {"executed"} /\ stack[t] = <<>>
        \/ pc[t] \in Called /\ stack[t] \in Stacks
        \/ Executing(t)

\* Where the HTTPS thread was called from, or is.
Base == IF stack["https"] = <<>> THEN pc["https"] ELSE Last(stack["https"])

\* How a launch looks for a running app.
Looks ==
    Base = "launch" =>
        \/ pc["https"] = "launch"
        \/ pc["https"] \in {"running", "zero"} /\ stack["https"] = <<"launch">>
        \/ /\ pc["https"] \in {"terminate"} \cup InTerminate
           /\ stack["https"] = <<"zero", "launch">>

\* Neither a process nor a placebo of the app is on.
Quiet == ~proc.placebo /\ proc.child = "none" /\ ~proc.group

OneInside == \A t, u \in Threads : Inside(t) /\ Inside(u) => t = u

\* What a thread inside proc_t has reached.
Stage(t) ==
    /\ pc[t] = "wait" => ~proc.placebo
    /\ pc[t] \in {"undo", "undoing", "finish", "find", "prep", "spawn"} => Quiet
    /\ pc[t] = "undoing" => proc.it > 0
    /\ pc[t] \in {"finish", "find"} => proc.it = 0
    /\ pc[t] \in {"prep", "spawn"} => proc.id > 0

Stages == \A t \in Threads : Stage(t)

\* Without an app there is nothing left of one.
Clean ==
    /\ proc.child = "none" => ~proc.group
    /\ proc.id <= 0 => Quiet /\ proc.it = 0

Undone ==
    owed = OwedBy(proc.app, IF \E t \in Threads : pc[t] = "undoing"
                            THEN proc.it - 1 ELSE proc.it)

\* A launch has looked for an app and has found none.
Looked ==
    \/ pc["https"] \in {"probe", "begin"}
    \/ pc["https"] = "zero" /\ stack["https"] = <<"launch">>
    \/ pc["https"] = "launch" /\ val["https"] <= 0
    \/ Base = "launching"
    \/ stack["https"] = <<"find", "executed">>

Absent == Looked => Quiet

\* A launch has configured the display and has yet to start the app, or to
\* revert the display.
Owes ==
    /\ request.revert
    /\ \/ pc["https"] \in {"probe", "begin", "find", "refuse"}
       \/ stack["https"] = <<"find", "executed">>
       \/ pc["https"] = "executed" /\ (request.app = NoApp \/ val["https"] # 0)

Configured == display = "changed" => proc.id > 0 \/ Owes

Tracks == OneInside /\ Stages /\ Clean /\ Undone /\ Absent /\ Configured

Inv == TypeOK /\ Shaped /\ Looks /\ (taint = {} => Tracks)

-----------------------------------------------------------------------------
(* Stacks                                                                  *)

LEMMA Started ==
    ASSUME NEW l \in Callers
    PROVE  /\ <<l>> \o <<>> = <<l>>
           /\ <<l>> \in Stacks /\ Last(<<l>>) = l
<1>1. <<l>> \in Seq(Returns \cup Callers)
  OBVIOUS
<1>2. Len(<<l>>) = 1 /\ <<l>>[1] = l /\ <<l>> # <<>>
  OBVIOUS
<1> QED
  BY <1>1, <1>2 DEF Stacks, Last

LEMMA Pushed ==
    ASSUME NEW s \in Stacks, NEW l \in Returns
    PROVE  /\ <<l>> \o s \in Stacks
           /\ Last(<<l>> \o s) = Last(s)
<1> DEFINE q == <<l>> \o s
<1>1. /\ s \in Seq(Returns \cup Callers) /\ s # <<>>
      /\ \A i \in 1 .. Len(s) : s[i] \in Callers <=> i = Len(s)
  BY DEF Stacks
<1>2. <<l>> \in Seq(Returns \cup Callers) /\ Len(<<l>>) = 1 /\ <<l>>[1] = l
  OBVIOUS
<1>3. /\ q \in Seq(Returns \cup Callers) /\ Len(q) = 1 + Len(s)
      /\ q[1] = l /\ \A i \in 2 .. (1 + Len(s)) : q[i] = s[i - 1]
  BY <1>1, <1>2, ConcatProperties
<1>4. Len(s) \in Nat /\ Len(s) # 0
  BY <1>1
<1> HIDE DEF q
<1>5. l \notin Callers
  BY DEF Callers, Outside, Called
<1>6. \A i \in 1 .. Len(q) : q[i] \in Callers <=> i = Len(q)
  <2> SUFFICES ASSUME NEW i \in 1 .. Len(q) PROVE q[i] \in Callers <=> i = Len(q)
    OBVIOUS
  <2>1. CASE i = 1
    BY <1>3, <1>4, <1>5, <2>1
  <2>2. CASE i # 1
    <3>1. i \in 2 .. (1 + Len(s)) /\ i - 1 \in 1 .. Len(s)
      BY <1>3, <1>4, <2>2
    <3>2. q[i] = s[i - 1] /\ (i = Len(q) <=> i - 1 = Len(s))
      BY <1>3, <1>4, <3>1
    <3>3. s[i - 1] \in Callers <=> i - 1 = Len(s)
      BY <1>1, <3>1
    <3> QED
      BY <3>2, <3>3
  <2> QED
    BY <2>1, <2>2
<1>7. q # <<>> /\ q[Len(q)] = s[Len(s)]
  BY <1>3, <1>4
<1> QED
  BY <1>3, <1>6, <1>7 DEF Stacks, Last, q

LEMMA Popped ==
    ASSUME NEW s \in Stacks
    PROVE  /\ s # <<>>
           /\ \/ Head(s) \in Callers /\ Tail(s) = <<>> /\ Last(s) = Head(s)
              \/ /\ Head(s) \in Returns /\ Tail(s) \in Stacks
                 /\ Last(Tail(s)) = Last(s)
<1> DEFINE q == Tail(s)
<1>1. /\ s \in Seq(Returns \cup Callers) /\ s # <<>>
      /\ \A i \in 1 .. Len(s) : s[i] \in Callers <=> i = Len(s)
      /\ \A i \in 1 .. Len(s) : s[i] \in Returns \cup Callers
  BY DEF Stacks
<1>2. /\ Len(s) \in Nat \ {0} /\ Head(s) = s[1]
      /\ q \in Seq(Returns \cup Callers) /\ Len(q) = Len(s) - 1
      /\ \A i \in 1 .. (Len(s) - 1) : q[i] = s[i + 1]
  BY <1>1
<1> HIDE DEF q
<1>3. CASE Len(s) = 1
  <2>1. q = <<>>
    BY <1>2, <1>3
  <2> QED
    BY <1>1, <1>2, <1>3, <2>1 DEF Last, q
<1>4. CASE Len(s) # 1
  <2>1. Head(s) \in Returns
    BY <1>1, <1>2, <1>4
  <2>2. \A i \in 1 .. Len(q) : q[i] \in Callers <=> i = Len(q)
    BY <1>1, <1>2, <1>4
  <2>3. q # <<>> /\ q[Len(q)] = s[Len(s)]
    BY <1>2, <1>4
  <2>4. q \in Stacks /\ Last(q) = Last(s)
    BY <1>2, <2>2, <2>3 DEF Stacks, Last
  <2> QED
    BY <1>1, <2>1, <2>4 DEF q
<1> QED
  BY <1>1, <1>3, <1>4

-----------------------------------------------------------------------------
(* What a step does to the threads                                         *)

Vals == Apps \cup {0, 1, -1, 404}

ThreadsTyped ==
    /\ pc \in [Threads -> Labels]
    /\ stack \in [Threads -> Seq(Labels)]
    /\ val \in [Threads -> Vals]

\* The other threads stay, but for a control thread that starts or ends.
Elsewhere(t) ==
    \A u \in Threads \ {t} :
        /\ stack'[u] = stack[u] /\ val'[u] = val[u]
        /\ \/ pc'[u] = pc[u]
           \/ u = "control" /\ {pc[u], pc'[u]} \subseteq {"loop", "off"}

\* The thread is, or is about to be, in terminate().
Ending == {"terminate"} \cup InTerminate

Walks(t) ==
    /\ pc[t] \in Called \ {"running", "zero"} /\ pc'[t] \in Called \ {"zero"}
    /\ pc[t] \in Ending => pc'[t] \in InTerminate
    /\ stack[t] \in Stacks /\ stack'[t] = stack[t]

Descends(t) ==
    /\ stack[t] \in Stacks
    /\ \/ /\ pc[t] = "running" /\ pc'[t] = "terminate"
          /\ stack'[t] = <<"zero">> \o stack[t]
       \/ /\ pc[t] = "count" /\ pc'[t] = "join"
          /\ stack'[t] = <<"count">> \o stack[t]
       \/ /\ pc[t] = "joining" /\ pc'[t] = "running"
          /\ stack'[t] = <<"joined">> \o stack[t]

Ascends(t) ==
    /\ pc[t] \in Called
    /\ stack[t] \in Stacks
    /\ pc'[t] = Head(stack[t]) /\ stack'[t] = Tail(stack[t])

Rests(t) ==
    /\ pc'[t] \in (Outside \ {"launch", "launching"}) \cup {"executed"}
    /\ stack'[t] = <<>>

Enters(t) ==
    \E n \in Callers :
        /\ pc'[t] \in {"running", "count", "clear", "join", "terminate"}
        /\ stack'[t] = <<n>>
        /\ n = "launch" => pc'[t] = "running"

Within(t) == Walks(t) \/ Descends(t) \/ Ascends(t)

Stays(t) ==
    /\ pc'[t] = pc[t] /\ stack'[t] = stack[t] /\ val'[t] = val[t]
    /\ request' = request

Moved(t) ==
    /\ ThreadsTyped'
    /\ Elsewhere(t)
    /\ t = "https" \/ request' = request
    /\ \/ Within(t)
       \/ Rests(t) \/ Enters(t) \/ Stays(t) \/ Executing(t)'

LEMMA Gone ==
    ASSUME ThreadsTyped, NEW t \in Threads, NEW l \in Labels, Goto(t, l)
    PROVE  /\ ThreadsTyped' /\ Elsewhere(t)
           /\ pc'[t] = l /\ stack'[t] = stack[t]
           /\ val'[t] \in {val[t], 0}
           /\ l \notin {"idle", "loop", "off"} => val'[t] = val[t]
<1>1. Kept(l, val[t]) \in {val[t], 0} /\ val[t] \in Vals /\ 0 \in Vals
  BY DEF Kept, ThreadsTyped, Vals
<1>2. val' \in [Threads -> Vals] /\ pc' \in [Threads -> Labels] /\ stack' = stack
  BY <1>1 DEF Goto, ThreadsTyped
<1>3. Elsewhere(t)
  BY DEF Goto, ThreadsTyped, Elsewhere
<1> QED
  BY <1>1, <1>2, <1>3 DEF Goto, ThreadsTyped, Kept

LEMMA Entered ==
    ASSUME ThreadsTyped, NEW t \in Threads, NEW l \in Labels,
           NEW frames \in Seq(Labels), Enter(t, l, frames)
    PROVE  /\ ThreadsTyped' /\ Elsewhere(t)
           /\ pc'[t] = l /\ stack'[t] = frames \o stack[t]
           /\ val'[t] = val[t]
<1>1. stack[t] \in Seq(Labels)
  BY DEF ThreadsTyped
<1>2. frames \o stack[t] \in Seq(Labels)
  BY <1>1
<1>3. stack' \in [Threads -> Seq(Labels)] /\ stack'[t] = frames \o stack[t]
  BY <1>2 DEF Enter, ThreadsTyped
<1>4. pc' \in [Threads -> Labels] /\ val' = val /\ pc'[t] = l
  BY DEF Enter, ThreadsTyped
<1>5. Elsewhere(t)
  BY DEF Enter, ThreadsTyped, Elsewhere
<1> QED
  BY <1>3, <1>4, <1>5 DEF ThreadsTyped

LEMMA Returned ==
    ASSUME ThreadsTyped, NEW t \in Threads, stack[t] # <<>>,
           NEW v \in Vals, Return(t, v)
    PROVE  /\ ThreadsTyped' /\ Elsewhere(t)
           /\ pc'[t] = Head(stack[t]) /\ stack'[t] = Tail(stack[t])
           /\ val'[t] \in {v, 0}
           /\ Head(stack[t]) \notin {"idle", "loop", "off"} => val'[t] = v
<1>1. stack[t] \in Seq(Labels)
  BY DEF ThreadsTyped
<1>2. Head(stack[t]) \in Labels /\ Tail(stack[t]) \in Seq(Labels)
  BY <1>1
<1>3. stack' \in [Threads -> Seq(Labels)] /\ stack'[t] = Tail(stack[t])
  BY <1>2 DEF Return, ThreadsTyped
<1>4. Kept(Head(stack[t]), v) \in {v, 0} /\ 0 \in Vals
  BY DEF Kept, Vals
<1>5. val' \in [Threads -> Vals] /\ val'[t] = Kept(Head(stack[t]), v)
  BY <1>4 DEF Return, ThreadsTyped
<1>6. pc' \in [Threads -> Labels] /\ pc'[t] = Head(stack[t])
  BY <1>2 DEF Return, ThreadsTyped
<1>7. Elsewhere(t)
  BY DEF Return, ThreadsTyped, Elsewhere
<1> QED
  BY <1>3, <1>4, <1>5, <1>6, <1>7 DEF ThreadsTyped, Kept

LEMMA TypesKnown ==
    ASSUME TypeOK
    PROVE  /\ ThreadsTyped
           /\ proc.id \in Vals /\ request.app \in Apps \cup {NoApp}
           /\ {0, 1, -1, 404} \subseteq Vals
<1>1. proc.id \in Vals /\ request.app \in Apps \cup {NoApp}
  BY DEF TypeOK, Vals
<1> QED
  BY <1>1 DEF TypeOK, ThreadsTyped, Vals

LEMMA ShapeInside ==
    ASSUME Shaped, NEW t \in Threads
    PROVE  /\ pc[t] \in Called \ Ending => stack[t] \in Stacks
           /\ pc[t] \in Ending => stack[t] \in Stacks \/ Executing(t)
           /\ pc[t] \in InExecute => Executing(t)
           /\ pc[t] \in Outside \cup {"executed"} => stack[t] = <<>>
  BY DEF Shaped, Executing, Called, Outside, Returns, Ending, InTerminate, InExecute

LEMMA ExecuteFrames ==
    /\ \A l \in {"find", "failed"} :
          /\ <<l, "executed">> # <<>>
          /\ Head(<<l, "executed">>) = l
          /\ Tail(<<l, "executed">>) = <<"executed">>
    /\ <<"executed">> # <<>>
    /\ Head(<<"executed">>) = "executed"
    /\ Tail(<<"executed">>) = <<>>
    /\ <<"failed">> \o <<"executed">> = <<"failed", "executed">>
    /\ <<"find", "executed">> \o <<>> = <<"find", "executed">>
<1>1. \A l \in {"find", "failed"} :
          /\ <<l, "executed">> # <<>>
          /\ Head(<<l, "executed">>) = l
          /\ Tail(<<l, "executed">>) = <<"executed">>
  OBVIOUS
<1>2. /\ <<"executed">> # <<>>
      /\ Head(<<"executed">>) = "executed"
      /\ Tail(<<"executed">>) = <<>>
  OBVIOUS
<1>3. <<"failed">> \o <<"executed">> = <<"failed", "executed">>
  <2> DEFINE s == <<"failed">>
             r == <<"executed">>
             q == s \o r
  <2>1. s \in Seq({"failed", "executed"}) /\ Len(s) = 1 /\ s[1] = "failed"
    OBVIOUS
  <2>2. r \in Seq({"failed", "executed"}) /\ Len(r) = 1 /\ r[1] = "executed"
    OBVIOUS
  <2>3. q \in Seq({"failed", "executed"}) /\ Len(q) = Len(s) + Len(r)
        /\ \A i \in 1 .. Len(q) : q[i] = IF i <= Len(s) THEN s[i] ELSE r[i - Len(s)]
    BY <2>1, <2>2, ConcatProperties
  <2> HIDE DEF s, r, q
  <2>4. q \in Seq({"failed", "executed"}) /\ Len(q) = 2 /\ q[1] = "failed" /\ q[2] = "executed"
    BY <2>1, <2>2, <2>3
  <2>5. q = <<"failed", "executed">>
    BY <2>4
  <2> QED
    BY <2>5 DEF q, s, r
<1>4. <<"find", "executed">> \o <<>> = <<"find", "executed">>
  OBVIOUS
<1> QED
  BY <1>1, <1>2, <1>3, <1>4

\* The steps of terminate().
LEMMA EndingMoves ==
    ASSUME TypeOK, Shaped, NEW t \in Threads,
           \/ Terminate(t) \/ GroupEnded(t) \/ BeginUndo(t) \/ EndUndo(t) \/ Finish(t)
    PROVE  Moved(t) /\ request' = request
<1>1. /\ ThreadsTyped /\ 0 \in Vals /\ request' = request
      /\ pc[t] \in Ending /\ (stack[t] \in Stacks \/ Executing(t))
      /\ pc[t] \in Called
  BY TypesKnown, ShapeInside
     DEF Terminate, GroupEnded, BeginUndo, EndUndo, Finish, At, Ending, InTerminate,
         reqVars, Called
<1>2. CASE Finish(t)
  <2>1. stack[t] # <<>> /\ Return(t, 0)
    <3>1. pc[t] \notin InExecute
      BY <1>2 DEF Finish, At, InExecute
    <3>2. CASE stack[t] \in Stacks
      BY <1>2, <3>2, Popped DEF Finish
    <3>3. CASE Executing(t)
      BY <1>2, <3>1, <3>3, ExecuteFrames DEF Finish, Executing
    <3> QED
      BY <1>1, <3>2, <3>3
  <2>2. /\ ThreadsTyped' /\ Elsewhere(t)
        /\ pc'[t] = Head(stack[t]) /\ stack'[t] = Tail(stack[t])
    BY <1>1, <2>1, Returned
  <2>3. CASE stack[t] \in Stacks
    BY <1>1, <2>2, <2>3 DEF Moved, Within, Ascends
  <2>4. CASE Executing(t)
    <3>1. /\ Head(stack[t]) \in {"find", "failed"}
          /\ Tail(stack[t]) = <<"executed">>
      <4>1. stack[t] \in {<<"find", "executed">>, <<"failed", "executed">>}
        BY <1>2, <2>4 DEF Executing, Finish, At, InExecute
      <4> QED
        BY <4>1, ExecuteFrames
    <3>2. Executing(t)'
      BY <1>1, <2>2, <2>4, <3>1 DEF Executing, InExecute
    <3> QED
      BY <1>1, <2>2, <3>2 DEF Moved, Within
  <2> QED
    BY <1>1, <2>3, <2>4
<1>3. CASE Terminate(t) \/ GroupEnded(t) \/ BeginUndo(t) \/ EndUndo(t)
  <2>1. PICK l \in InTerminate : Goto(t, l)
    BY <1>3 DEF Terminate, GroupEnded, BeginUndo, EndUndo, InTerminate
  <2>2. /\ ThreadsTyped' /\ Elsewhere(t)
        /\ pc'[t] \in InTerminate /\ stack'[t] = stack[t]
    BY <1>1, <2>1, Gone DEF Labels
  <2>3. CASE stack[t] \in Stacks
    <3>1. Walks(t)
      BY <1>1, <2>2, <2>3 DEF Walks, Called, Ending, InTerminate
    <3> QED
      BY <1>1, <2>2, <3>1 DEF Moved, Within
  <2>4. CASE Executing(t)
    <3>1. Executing(t)'
      BY <1>1, <2>2, <2>4 DEF Executing, InExecute, InTerminate, Ending
    <3> QED
      BY <1>1, <2>2, <3>1 DEF Moved, Within
  <2> QED
    BY <1>1, <2>3, <2>4
<1> QED
  BY <1>2, <1>3

\* The steps of running() and of the functions of a session.
LEMMA CalledMoves ==
    ASSUME TypeOK, Shaped, NEW t \in Threads,
           \/ Running(t) \/ ReturnZero(t) \/ Count(t) \/ Clear(t)
           \/ Join(t) \/ LastSession(t) \/ Joined(t) \/ Erase(t)
    PROVE  Moved(t) /\ Within(t) /\ request' = request
<1>1. /\ ThreadsTyped /\ proc.id \in Vals /\ {0, 1, -1, 404} \subseteq Vals
      /\ request' = request
      /\ pc[t] \in Called \ Ending /\ stack[t] \in Stacks
  BY TypesKnown, ShapeInside
     DEF Running, ReturnZero, Count, Clear, Join, LastSession, Joined, Erase,
         At, Ending, InTerminate, reqVars, Called, Returns
<1>2. stack[t] # <<>>
  BY <1>1, Popped
<1>3. ASSUME NEW v \in Vals, Return(t, v) PROVE Moved(t) /\ Within(t)
  <2>1. /\ ThreadsTyped' /\ Elsewhere(t)
        /\ pc'[t] = Head(stack[t]) /\ stack'[t] = Tail(stack[t])
    BY <1>1, <1>2, <1>3, Returned
  <2> QED
    BY <1>1, <2>1 DEF Moved, Within, Ascends
<1>4. ASSUME NEW l \in {"join", "joining", "erase"}, Goto(t, l),
             pc[t] \in {"clear", "join", "joined"}
      PROVE  Moved(t) /\ Within(t)
  <2>1. /\ ThreadsTyped' /\ Elsewhere(t)
        /\ pc'[t] = l /\ stack'[t] = stack[t]
    BY <1>1, <1>4, Gone DEF Labels
  <2>2. Walks(t)
    BY <1>1, <1>4, <2>1 DEF Walks, Called, Ending, InTerminate, Returns
  <2> QED
    BY <1>1, <2>1, <2>2 DEF Moved, Within
<1>5. ASSUME NEW l \in Labels, NEW n \in Labels, Call(t, l, n),
             <<pc[t], l, n>> \in {<<"running", "terminate", "zero">>,
                                  <<"count", "join", "count">>,
                                  <<"joining", "running", "joined">>}
      PROVE  Moved(t) /\ Within(t)
  <2>1. <<n>> \in Seq(Labels)
    OBVIOUS
  <2>2. /\ ThreadsTyped' /\ Elsewhere(t)
        /\ pc'[t] = l /\ stack'[t] = <<n>> \o stack[t]
    BY <1>1, <1>5, <2>1, Entered DEF Call
  <2>3. Descends(t)
    BY <1>1, <1>5, <2>2 DEF Descends
  <2> QED
    BY <1>1, <2>2, <2>3 DEF Moved, Within
<1>6. CASE Running(t)
  <2>1. \/ Return(t, proc.id) \/ Return(t, 0)
        \/ Call(t, "terminate", "zero") /\ pc[t] = "running"
    BY <1>6 DEF Running, At
  <2> QED
    BY <1>1, <1>3, <1>5, <2>1 DEF Labels
<1>7. CASE ReturnZero(t)
  BY <1>1, <1>3, <1>7 DEF ReturnZero
<1>8. CASE Count(t)
  <2>1. \/ Return(t, 0) \/ Return(t, 1)
        \/ Call(t, "join", "count") /\ pc[t] = "count"
    BY <1>8 DEF Count, At
  <2> QED
    BY <1>1, <1>3, <1>5, <2>1 DEF Labels
<1>9. CASE Clear(t) \/ Join(t) \/ Joined(t)
  <2>1. \/ Return(t, 0)
        \/ \E l \in {"join", "joining", "erase"} :
               Goto(t, l) /\ pc[t] \in {"clear", "join", "joined"}
    BY <1>9 DEF Clear, Join, Joined, At
  <2> QED
    BY <1>1, <1>3, <1>4, <2>1
<1>10. CASE LastSession(t)
  <2>1. Call(t, "running", "joined") /\ pc[t] = "joining"
    BY <1>10 DEF LastSession, At
  <2> QED
    BY <1>1, <1>5, <2>1 DEF Labels
<1>11. CASE Erase(t)
  <2>1. /\ pc' = [pc EXCEPT ![t] = Head(stack[t]), !["control"] = "off"]
        /\ stack' = [stack EXCEPT ![t] = Tail(@)] /\ val' = val
        /\ pc["control"] \in {"loop", "off"} /\ pc[t] = "erase"
    BY <1>11 DEF Erase, At
  <2>2. stack[t] \in Seq(Labels)
    BY <1>1 DEF ThreadsTyped
  <2>3. Head(stack[t]) \in Labels /\ Tail(stack[t]) \in Seq(Labels)
    BY <1>2, <2>2
  <2>4. t # "control"
    BY <2>1
  <2>5. /\ pc' \in [Threads -> Labels] /\ pc'[t] = Head(stack[t])
        /\ \A u \in Threads \ {t, "control"} : pc'[u] = pc[u]
        /\ pc'["control"] = "off"
    BY <1>1, <2>1, <2>3, <2>4 DEF ThreadsTyped, Labels, Threads
  <2>6. /\ stack' \in [Threads -> Seq(Labels)] /\ stack'[t] = Tail(stack[t])
        /\ \A u \in Threads \ {t} : stack'[u] = stack[u]
    BY <1>1, <2>1, <2>3 DEF ThreadsTyped
  <2>7. ThreadsTyped' /\ Elsewhere(t)
    BY <1>1, <2>1, <2>5, <2>6 DEF ThreadsTyped, Elsewhere
  <2> QED
    BY <1>1, <2>5, <2>6, <2>7 DEF Moved, Within, Ascends
<1> QED
  BY <1>1, <1>6, <1>7, <1>8, <1>9, <1>10, <1>11

\* The steps of execute().
LEMMA ExecuteMoves ==
    ASSUME TypeOK, Shaped,
           \/ Find("https") \/ Prepare("https") \/ Prepared("https")
           \/ Spawn("https") \/ Failed("https")
    PROVE  Moved("https") /\ request' = request
<1>1. /\ ThreadsTyped /\ {0, 1, -1, 404} \subseteq Vals
      /\ request' = request /\ "https" \in Threads
      /\ pc["https"] \in InExecute
  BY TypesKnown
     DEF Find, Prepare, Prepared, Spawn, Failed, At, InExecute, reqVars, Threads
<1>2. /\ Executing("https") /\ request.app \in Apps
      /\ stack["https"] = <<"executed">>
  <2>1. Executing("https")
    BY <1>1, ShapeInside
  <2> QED
    BY <1>1, <2>1 DEF Executing, InExecute, InTerminate
<1>3. ASSUME NEW v \in Vals, Return("https", v) PROVE Moved("https")
  <2>1. /\ ThreadsTyped' /\ Elsewhere("https")
        /\ pc'["https"] = "executed" /\ stack'["https"] = <<>>
    BY <1>1, <1>2, <1>3, ExecuteFrames, Returned
  <2> QED
    BY <2>1 DEF Moved, Rests
<1>4. ASSUME NEW l \in {"prep", "spawn"}, Goto("https", l) PROVE Moved("https")
  <2>1. /\ ThreadsTyped' /\ Elsewhere("https")
        /\ pc'["https"] = l /\ stack'["https"] = <<"executed">>
    BY <1>1, <1>2, <1>4, Gone DEF Labels, InExecute
  <2>2. Executing("https")'
    BY <1>1, <1>2, <2>1 DEF Executing, InExecute
  <2> QED
    BY <2>1, <2>2 DEF Moved
<1>5. ASSUME Call("https", "terminate", "failed") PROVE Moved("https")
  <2>1. <<"failed">> \in Seq(Labels) /\ "terminate" \in Labels
    BY DEF Labels, InExecute
  <2>2. /\ ThreadsTyped' /\ Elsewhere("https")
        /\ pc'["https"] = "terminate"
        /\ stack'["https"] = <<"failed">> \o <<"executed">>
    BY <1>1, <1>2, <1>5, <2>1, Entered DEF Call
  <2>3. Executing("https")'
    BY <1>1, <1>2, <2>2, ExecuteFrames DEF Executing
  <2> QED
    BY <2>2, <2>3 DEF Moved
<1>6. \/ Return("https", 0) \/ Return("https", 404) \/ Return("https", -1)
      \/ Goto("https", "prep") \/ Goto("https", "spawn")
      \/ Call("https", "terminate", "failed")
  BY DEF Find, Prepare, Prepared, Spawn, Failed
<1> QED
  BY <1>1, <1>3, <1>4, <1>5, <1>6

LEMMA OutsideFacts ==
    /\ {"idle", "off", "loop", "pop", "answer", "disabled", "counted", "found", "launch",
        "launching", "probe", "begin", "refuse", "resume", "resuming", "reprobe",
        "allow", "cancel", "cancelling", "revert"} \subseteq Outside
    /\ {"idle", "off", "loop", "answer", "disabled", "counted", "found", "launch",
        "launching", "resume", "resuming", "cancel", "cancelling", "revert"}
           \subseteq Callers
    /\ Callers \subseteq Outside
    /\ Outside \subseteq Labels /\ "executed" \in Labels
    /\ {"running", "count", "clear", "join", "terminate"} \subseteq Labels
  BY DEF Callers, Outside, Labels, Called, InTerminate, InExecute, Returns

\* A thread that is not in a function goes on, or calls one.
LEMMA OutsideMoves ==
    ASSUME TypeOK, Shaped, NEW t \in Threads,
           pc[t] \in Outside \cup {"executed"},
           t = "https" \/ request' = request
    PROVE  /\ \A l \in (Outside \ {"launch", "launching"}) \cup {"executed"} :
                  Goto(t, l) => Moved(t)
           /\ \A l \in {"running", "count", "clear", "join", "terminate"},
                 n \in Callers :
                  Call(t, l, n) /\ (n = "launch" => l = "running") => Moved(t)
<1>1. ThreadsTyped /\ stack[t] = <<>>
  BY TypesKnown, ShapeInside
<1>2. ASSUME NEW l \in (Outside \ {"launch", "launching"}) \cup {"executed"}, Goto(t, l)
      PROVE  Moved(t)
  <2>1. /\ ThreadsTyped' /\ Elsewhere(t)
        /\ pc'[t] = l /\ stack'[t] = <<>>
    BY <1>1, <1>2, OutsideFacts, Gone
  <2> QED
    BY <2>1 DEF Moved, Rests
<1>3. ASSUME NEW l \in {"running", "count", "clear", "join", "terminate"},
             NEW n \in Callers, Call(t, l, n), n = "launch" => l = "running"
      PROVE  Moved(t)
  <2>1. <<n>> \in Seq(Labels) /\ l \in Labels
    BY OutsideFacts
  <2>2. /\ ThreadsTyped' /\ Elsewhere(t)
        /\ pc'[t] = l /\ stack'[t] = <<n>> \o <<>>
    BY <1>1, <1>3, <2>1, Entered DEF Call
  <2>3. Enters(t)
    BY <1>3, <2>2, Started DEF Enters
  <2> QED
    BY <2>2, <2>3 DEF Moved
<1> QED
  BY <1>2, <1>3

LEMMA HttpsMoves ==
    ASSUME TypeOK, Shaped,
           \/ LaunchIfFree \/ ConfigureToLaunch \/ Probe \/ Begin
           \/ Raise \/ Refuse
           \/ ResumeIfRunning \/ ConfigureToResume \/ Reprobe \/ Allow
           \/ CancelApp \/ CancelReverts
           \/ Serverinfo \/ Launch \/ Resume \/ Cancel
    PROVE  Moved("https")
<1>1. "https" \in Threads /\ pc["https"] \in Outside \cup {"executed"}
  BY OutsideFacts
     DEF LaunchIfFree, ConfigureToLaunch, Probe, Begin, Raise, Refuse,
         ResumeIfRunning, ConfigureToResume, Reprobe, Allow, CancelApp,
         CancelReverts, Serverinfo, Launch, Resume, Cancel, Serve, At, Threads
<1>2. \/ \E l \in (Outside \ {"launch", "launching"}) \cup {"executed"} : Goto("https", l)
      \/ \E l \in {"running", "count", "clear", "join", "terminate"},
            n \in Callers :
             Call("https", l, n) /\ (n = "launch" => l = "running")
      \/ Begin /\ request.app > 0 /\ Enter("https", "terminate", <<"find", "executed">>)
  <2>1. CASE LaunchIfFree \/ ConfigureToLaunch \/ Probe \/ Raise \/ Refuse
    BY <2>1, OutsideFacts DEF LaunchIfFree, ConfigureToLaunch, Probe, Raise, Refuse
  <2>2. CASE Begin
    BY <2>2, OutsideFacts DEF Begin
  <2>3. CASE ResumeIfRunning \/ ConfigureToResume \/ Reprobe \/ Allow
    BY <2>3, OutsideFacts DEF ResumeIfRunning, ConfigureToResume, Reprobe, Allow
  <2>4. CASE CancelApp \/ CancelReverts
    BY <2>4, OutsideFacts DEF CancelApp, CancelReverts
  <2>5. CASE Serverinfo \/ Launch \/ Resume \/ Cancel
    BY <2>5, OutsideFacts DEF Serverinfo, Launch, Resume, Cancel
  <2> QED
    BY <2>1, <2>2, <2>3, <2>4, <2>5
<1>3. CASE Begin /\ request.app > 0 /\ Enter("https", "terminate", <<"find", "executed">>)
  <2>1. /\ ThreadsTyped /\ stack["https"] = <<>>
        /\ request' = request /\ request.app \in Apps
    BY <1>1, <1>3, TypesKnown, ShapeInside DEF Begin, reqVars, NoApp
  <2>2. <<"find", "executed">> \in Seq(Labels) /\ "terminate" \in Labels
    BY DEF Labels, InExecute
  <2>3. /\ ThreadsTyped' /\ Elsewhere("https")
        /\ pc'["https"] = "terminate" /\ stack'["https"] = <<"find", "executed">>
    BY <1>1, <1>3, <2>1, <2>2, Entered, ExecuteFrames
  <2>4. Executing("https")'
    BY <2>1, <2>3 DEF Executing
  <2> QED
    BY <2>3, <2>4 DEF Moved
<1> QED
  BY <1>1, <1>2, <1>3, OutsideMoves

LEMMA OtherMoves ==
    ASSUME TypeOK, Shaped
    PROVE  /\ DisabledEndsApp \/ CloseApp \/ DisableClient => Moved("web")
           /\ Scan \/ Answer \/ SessionStarts \/ PeerConnects \/ PopReturns
              => Moved("control")
           /\ Reap => Moved("rtsp")
           /\ \/ AppExits \/ GroupExits \/ LaunchExpires \/ SessionStops
              \/ SaveApps
              => Moved("web") /\ UNCHANGED <<pc, stack, val, request>>
<1>1. {"https", "web", "control", "rtsp"} \subseteq Threads /\ ThreadsTyped
  BY TypesKnown DEF Threads
<1>2. ASSUME DisabledEndsApp \/ CloseApp \/ DisableClient PROVE Moved("web")
  <2>1. /\ pc["web"] \in Outside /\ request' = request
        /\ \/ \E l \in {"disabled", "idle"} : Goto("web", l)
           \/ Call("web", "clear", "disabled") \/ Call("web", "count", "counted")
           \/ Call("web", "running", "found") \/ Call("web", "terminate", "idle")
    BY <1>2, OutsideFacts
       DEF DisabledEndsApp, CloseApp, DisableClient, Serve, At, reqVars
  <2> QED
    BY <1>1, <2>1, OutsideMoves, OutsideFacts
<1>3. ASSUME Scan \/ Answer \/ PeerConnects \/ PopReturns PROVE Moved("control")
  <2>1. /\ pc["control"] \in Outside /\ request' = request
        /\ \/ \E l \in {"loop", "pop", "off"} : Goto("control", l)
           \/ Call("control", "running", "answer")
           \/ UNCHANGED threadVars
    BY <1>3, OutsideFacts DEF Scan, Answer, PeerConnects, PopReturns, At, reqVars
  <2>2. CASE UNCHANGED threadVars
    BY <1>1, <2>1, <2>2 DEF threadVars, ThreadsTyped, Moved, Stays, Elsewhere
  <2> QED
    BY <1>1, <2>1, <2>2, OutsideMoves, OutsideFacts
<1>4. ASSUME SessionStarts PROVE Moved("control")
  <2>1. /\ pc["control"] = "off" /\ stack["control"] = <<>>
        /\ pc' = [pc EXCEPT !["control"] = "loop"]
        /\ stack' = stack /\ val' = val /\ request' = request
    BY <1>1, <1>4, ShapeInside, OutsideFacts DEF SessionStarts, reqVars
  <2>2. /\ ThreadsTyped' /\ pc'["control"] = "loop"
        /\ \A u \in Threads \ {"control"} : pc'[u] = pc[u]
    BY <1>1, <2>1, OutsideFacts DEF ThreadsTyped
  <2> QED
    BY <2>1, <2>2, OutsideFacts DEF Moved, Rests, Elsewhere
<1>5. ASSUME Reap PROVE Moved("rtsp")
  <2>1. pc["rtsp"] \in Outside /\ request' = request /\ Call("rtsp", "join", "idle")
    BY <1>5, OutsideFacts DEF Reap, At, reqVars
  <2> QED
    BY <1>1, <2>1, OutsideMoves, OutsideFacts
<1>6. ASSUME \/ AppExits \/ GroupExits \/ LaunchExpires \/ SessionStops
             \/ SaveApps
      PROVE  Moved("web") /\ UNCHANGED <<pc, stack, val, request>>
  <2>1. UNCHANGED <<pc, stack, val, request>>
    BY <1>6 DEF AppExits, GroupExits, LaunchExpires, SessionStops,
        SaveApps, Refresh, threadVars, reqVars
  <2>2. ThreadsTyped'
    BY <1>1, <2>1 DEF ThreadsTyped
  <2> QED
    BY <2>1, <2>2 DEF Moved, Stays, Elsewhere
<1> QED
  BY <1>2, <1>3, <1>4, <1>5, <1>6

\* Next, sorted by what the proofs say of a step.
Ends(t) ==
    Terminate(t) \/ GroupEnded(t) \/ BeginUndo(t) \/ EndUndo(t) \/ Finish(t)

Serves(t) ==
    \/ Running(t) \/ ReturnZero(t) \/ Count(t) \/ Clear(t)
    \/ Join(t) \/ LastSession(t) \/ Joined(t) \/ Erase(t)

Executes ==
    \/ Find("https") \/ Prepare("https") \/ Prepared("https")
    \/ Spawn("https") \/ Failed("https")

Requests ==
    \/ LaunchIfFree \/ ConfigureToLaunch \/ Probe \/ Begin
    \/ Raise \/ Refuse
    \/ ResumeIfRunning \/ ConfigureToResume \/ Reprobe \/ Allow
    \/ CancelApp \/ CancelReverts
    \/ Serverinfo \/ Launch \/ Resume \/ Cancel

Others ==
    \/ DisabledEndsApp \/ CloseApp \/ DisableClient
    \/ Scan \/ Answer \/ SessionStarts \/ PeerConnects \/ PopReturns \/ Reap

Bystands == LaunchExpires \/ SessionStops

Exits == AppExits \/ GroupExits

LEMMA StepKinds ==
    ASSUME Next
    PROVE  \/ \E t \in Threads : Ends(t) \/ Serves(t)
           \/ Executes \/ Requests \/ Others \/ Bystands \/ Exits \/ SaveApps
<1>1. CASE HttpsStep
  BY <1>1 DEF HttpsStep, Proceed, Ends, Serves, Executes, Requests, Threads
<1>2. CASE WebStep \/ ControlStep \/ RtspStep
  BY <1>2 DEF WebStep, ControlStep, RtspStep, Proceed, Ends, Serves, Others, Threads
<1>3. CASE Environment
  BY <1>3 DEF Environment, Requests, Others, Bystands, Exits
<1> QED
  BY <1>1, <1>2, <1>3 DEF Next

LEMMA StepMoves ==
    ASSUME TypeOK, Shaped, Next
    PROVE  \E t \in Threads : Moved(t)
<1>1. {"https", "web", "control", "rtsp"} \subseteq Threads
  BY DEF Threads
<1>2. ASSUME NEW t \in Threads, Ends(t) \/ Serves(t) PROVE Moved(t)
  BY <1>2, EndingMoves, CalledMoves DEF Ends, Serves
<1>3. ASSUME Executes \/ Requests PROVE Moved("https")
  BY <1>3, ExecuteMoves, HttpsMoves DEF Executes, Requests
<1>4. ASSUME Others \/ Bystands \/ Exits \/ SaveApps
      PROVE  Moved("web") \/ Moved("control") \/ Moved("rtsp")
  BY <1>4, OtherMoves DEF Others, Bystands, Exits
<1> QED
  BY <1>1, <1>2, <1>3, <1>4, StepKinds

LEMMA ShapedStep ==
    ASSUME TypeOK, Shaped, Next
    PROVE  Shaped' /\ ThreadsTyped'
<1>1. PICK t \in Threads : Moved(t)
  BY StepMoves
<1> DEFINE Shape(u) == \/ pc[u] \in Outside \cup {"executed"} /\ stack[u] = <<>>
                       \/ pc[u] \in Called /\ stack[u] \in Stacks
                       \/ Executing(u)
<1>2. ASSUME NEW u \in Threads \ {t} PROVE Shape(u)'
  <2>1. /\ Shape(u) /\ stack'[u] = stack[u]
        /\ request' = request \/ u # "https"
        /\ \/ pc'[u] = pc[u]
           \/ u = "control" /\ {pc[u], pc'[u]} \subseteq {"loop", "off"}
    BY <1>1, <1>2 DEF Shaped, Moved, Elsewhere
  <2>2. CASE pc'[u] = pc[u]
    BY <2>1, <2>2 DEF Executing
  <2>3. CASE u = "control" /\ {pc[u], pc'[u]} \subseteq {"loop", "off"}
    <3>1. pc[u] \notin Called /\ pc[u] \in Outside /\ pc'[u] \in Outside
      BY <2>3, OutsideFacts DEF Outside
    <3> QED
      BY <2>1, <2>3, <3>1 DEF Executing
  <2> QED
    BY <2>1, <2>2, <2>3
<1>3. Shape(t)'
  <2>1. CASE Walks(t)
    BY <2>1 DEF Walks
  <2>2. CASE Descends(t)
    BY <2>2, Pushed DEF Descends, Called, Returns
  <2>3. CASE Ascends(t)
    BY <2>3, Popped, OutsideFacts DEF Ascends, Called
  <2>4. CASE Rests(t)
    BY <2>4 DEF Rests
  <2>5. CASE Enters(t)
    BY <2>5, Started DEF Enters, Called, Returns
  <2>6. CASE Stays(t)
    BY <2>6 DEF Stays, Shaped, Executing
  <2> QED
    BY <1>1, <2>1, <2>2, <2>3, <2>4, <2>5, <2>6 DEF Moved, Within
<1> HIDE DEF Shape
<1>4. \A u \in Threads : Shape(u)'
  BY <1>2, <1>3
<1> QED
  BY <1>1, <1>4 DEF Shaped, Shape, Moved

-----------------------------------------------------------------------------
(* How a launch looks for an app                                           *)

LEMMA LaunchFrames ==
    /\ <<"launch">> # <<>> /\ Last(<<"launch">>) = "launch"
    /\ Head(<<"launch">>) = "launch" /\ Tail(<<"launch">>) = <<>>
    /\ <<"zero", "launch">> # <<>>
    /\ Head(<<"zero", "launch">>) = "zero"
    /\ Tail(<<"zero", "launch">>) = <<"launch">>
    /\ <<"zero">> \o <<"launch">> = <<"zero", "launch">>
    /\ Last(<<"executed">>) = "executed"
    /\ \A l \in {"find", "failed"} : Last(<<l, "executed">>) = "executed"
<1>1. /\ <<"launch">> # <<>> /\ Last(<<"launch">>) = "launch"
      /\ Head(<<"launch">>) = "launch" /\ Tail(<<"launch">>) = <<>>
  BY DEF Last
<1>2. /\ <<"zero", "launch">> # <<>>
      /\ Head(<<"zero", "launch">>) = "zero"
      /\ Tail(<<"zero", "launch">>) = <<"launch">>
  OBVIOUS
<1>3. <<"zero">> \o <<"launch">> = <<"zero", "launch">>
  <2> DEFINE s == <<"zero">>
             r == <<"launch">>
             q == s \o r
  <2>1. s \in Seq({"zero", "launch"}) /\ Len(s) = 1 /\ s[1] = "zero"
    OBVIOUS
  <2>2. r \in Seq({"zero", "launch"}) /\ Len(r) = 1 /\ r[1] = "launch"
    OBVIOUS
  <2>3. q \in Seq({"zero", "launch"}) /\ Len(q) = Len(s) + Len(r)
        /\ \A i \in 1 .. Len(q) : q[i] = IF i <= Len(s) THEN s[i] ELSE r[i - Len(s)]
    BY <2>1, <2>2, ConcatProperties
  <2> HIDE DEF s, r, q
  <2>4. q \in Seq({"zero", "launch"}) /\ Len(q) = 2 /\ q[1] = "zero" /\ q[2] = "launch"
    BY <2>1, <2>2, <2>3
  <2>5. q = <<"zero", "launch">>
    BY <2>4
  <2> QED
    BY <2>5 DEF q, s, r
<1>4. Last(<<"executed">>) = "executed"
  BY DEF Last
<1>5. \A l \in {"find", "failed"} : Last(<<l, "executed">>) = "executed"
  BY DEF Last
<1> QED
  BY <1>1, <1>2, <1>3, <1>4, <1>5

\* Where the HTTPS thread was called from stays while a function runs.
LEMMA BaseMoves ==
    ASSUME Moved("https")
    PROVE  /\ Walks("https") \/ Descends("https") \/ Ascends("https") => Base' = Base
           /\ Rests("https") => Base' = pc'["https"]
           /\ Executing("https")' => Base' = "executed"
<1>1. ASSUME Walks("https") PROVE Base' = Base
  BY <1>1, Popped DEF Walks, Base
<1>2. ASSUME Descends("https") PROVE Base' = Base
  <2>1. PICK l \in Returns : stack'["https"] = <<l>> \o stack["https"]
    BY <1>2 DEF Descends, Returns
  <2>2. /\ stack["https"] # <<>> /\ stack'["https"] # <<>>
        /\ Last(stack'["https"]) = Last(stack["https"])
    BY <1>2, <2>1, Pushed, Popped DEF Descends
  <2> QED
    BY <2>2 DEF Base
<1>3. ASSUME Ascends("https") PROVE Base' = Base
  <2>1. stack["https"] # <<>> /\ Base = Last(stack["https"])
    BY <1>3, Popped DEF Ascends, Base
  <2>2. CASE Tail(stack["https"]) = <<>>
    <3>1. Last(stack["https"]) = Head(stack["https"])
      BY <1>3, <2>2, Popped DEF Ascends
    <3> QED
      BY <1>3, <2>1, <2>2, <3>1 DEF Ascends, Base
  <2>3. CASE Tail(stack["https"]) # <<>>
    <3>1. Last(Tail(stack["https"])) = Last(stack["https"])
      BY <1>3, <2>3, Popped DEF Ascends
    <3> QED
      BY <1>3, <2>1, <2>3, <3>1 DEF Ascends, Base
  <2> QED
    BY <2>2, <2>3
<1>4. ASSUME Rests("https") PROVE Base' = pc'["https"]
  BY <1>4 DEF Rests, Base
<1>5. ASSUME Executing("https")' PROVE Base' = "executed"
  BY <1>5, LaunchFrames, ExecuteFrames DEF Executing, Base
<1> QED
  BY <1>1, <1>2, <1>3, <1>4, <1>5

LEMMA LooksStep ==
    ASSUME TypeOK, Shaped, Looks, Next
    PROVE  Looks'
<1>1. PICK t \in Threads : Moved(t)
  BY StepMoves
<1>2. CASE t # "https"
  <2>1. pc'["https"] = pc["https"] /\ stack'["https"] = stack["https"]
    BY <1>1, <1>2 DEF Moved, Elsewhere, Threads
  <2> QED
    BY <2>1 DEF Looks, Base
<1>3. CASE t = "https"
  <2> SUFFICES ASSUME Base' = "launch" PROVE Looks'
    BY DEF Looks
  <2>1. CASE Walks("https")
    <3>1. Base = "launch"
      BY <1>1, <1>3, <2>1, BaseMoves
    <3>2. /\ pc["https"] \in Ending /\ pc'["https"] \in InTerminate
          /\ stack'["https"] = <<"zero", "launch">>
      <4>1. pc["https"] # "launch"
        BY <2>1, OutsideFacts DEF Walks, Outside
      <4> QED
        BY <2>1, <3>1, <4>1 DEF Looks, Walks, Ending
    <3> QED
      BY <3>2 DEF Looks
  <2>2. CASE Descends("https")
    <3>1. Base = "launch"
      BY <1>1, <1>3, <2>2, BaseMoves
    <3>2. /\ pc["https"] = "running" /\ stack["https"] = <<"launch">>
      BY <2>2, <3>1 DEF Looks, Descends, InTerminate
    <3> QED
      BY <2>2, <3>2, LaunchFrames DEF Looks, Descends
  <2>3. CASE Ascends("https")
    <3>1. Base = "launch"
      BY <1>1, <1>3, <2>3, BaseMoves
    <3>2. pc["https"] # "launch"
      BY <2>3, OutsideFacts DEF Ascends, Outside
    <3>3. CASE stack["https"] = <<"launch">>
      BY <2>3, <3>3, LaunchFrames DEF Looks, Ascends
    <3>4. CASE stack["https"] = <<"zero", "launch">>
      BY <2>3, <3>4, LaunchFrames DEF Looks, Ascends
    <3> QED
      BY <3>1, <3>2, <3>3, <3>4 DEF Looks
  <2>4. CASE Rests("https")
    BY <1>1, <1>3, <2>4, BaseMoves DEF Rests
  <2>5. CASE Enters("https")
    <3>1. PICK n \in Callers :
              /\ pc'["https"] \in {"running", "count", "clear", "join", "terminate"}
              /\ stack'["https"] = <<n>>
              /\ n = "launch" => pc'["https"] = "running"
      BY <2>5 DEF Enters
    <3>2. Base' = n
      BY <3>1, Started, Popped DEF Base
    <3> QED
      BY <3>1, <3>2 DEF Looks
  <2>6. CASE Stays("https")
    BY <2>6 DEF Stays, Looks, Base
  <2>7. CASE Executing("https")'
    BY <1>1, <1>3, <2>7, BaseMoves
  <2> QED
    BY <1>1, <1>3, <2>1, <2>2, <2>3, <2>4, <2>5, <2>6, <2>7 DEF Moved, Within
<1> QED
  BY <1>2, <1>3

-----------------------------------------------------------------------------
(* Steps that leave proc_t alone                                           *)

Safely == OneInside /\ Stages /\ Clean /\ Undone

Apart ==
    /\ UNCHANGED <<proc, owed>>
    /\ taint \subseteq taint'
    /\ \A t \in Threads :
           \/ pc'[t] = pc[t]
           \/ {pc[t], pc'[t]} \cap (InTerminate \cup InExecute) = {}

LEMMA InsideLabels ==
    /\ (Callers \cup Outside \cup Returns \cup {"executed", "terminate", "running", "count",
            "clear", "join", "joining", "joined", "erase", "loop", "off"})
           \cap (InTerminate \cup InExecute) = {}
    /\ (Called \ InTerminate) \cap (InTerminate \cup InExecute) = {}
  BY DEF Callers, Outside, Called, Returns, Labels, InTerminate, InExecute

LEMMA ApartKeeps ==
    ASSUME Safely, Apart
    PROVE  Safely'
<1>1. \A t \in Threads : Inside(t)' => Inside(t) /\ pc'[t] = pc[t]
  BY DEF Apart, Inside
<1>2. \A t \in Threads, l \in InTerminate \cup InExecute : pc'[t] = l <=> pc[t] = l
  BY DEF Apart
<1>3. UNCHANGED <<proc, owed>>
  BY DEF Apart
<1>4. OneInside'
  BY <1>1 DEF Safely, OneInside
<1>5. Quiet' = Quiet
  BY <1>3 DEF Quiet
<1>6. Stages'
  <2> SUFFICES ASSUME NEW t \in Threads
               PROVE  /\ pc'[t] = "wait" => ~proc.placebo
                      /\ pc'[t] \in {"undo", "undoing", "finish", "find", "prep", "spawn"}
                             => Quiet
                      /\ pc'[t] = "undoing" => proc.it > 0
                      /\ pc'[t] \in {"finish", "find"} => proc.it = 0
                      /\ pc'[t] \in {"prep", "spawn"} => proc.id > 0
    BY <1>3, <1>5 DEF Stages, Stage
  <2>1. pc'[t] \in InTerminate \cup InExecute => pc'[t] = pc[t]
    BY <1>2
  <2> QED
    BY <2>1 DEF Safely, Stages, Stage, InTerminate, InExecute
<1>7. Clean'
  BY <1>3, <1>5 DEF Safely, Clean
<1>8. Undone'
  <2>1. (\E t \in Threads : pc'[t] = "undoing") <=> (\E t \in Threads : pc[t] = "undoing")
    BY <1>2 DEF InTerminate
  <2> QED
    BY <1>3, <2>1 DEF Safely, Undone
<1> QED
  BY <1>4, <1>6, <1>7, <1>8 DEF Safely

\* Only the mover may enter or leave proc_t.
LEMMA MoverOnly ==
    ASSUME NEW t \in Threads, Elsewhere(t)
    PROVE  \A u \in Threads \ {t} :
               \/ pc'[u] = pc[u]
               \/ {pc[u], pc'[u]} \cap (InTerminate \cup InExecute) = {}
  BY InsideLabels DEF Elsewhere

LEMMA RequestsApart ==
    ASSUME TypeOK, Shaped, Requests \/ Others \/ Bystands
    PROVE  Apart
<1>1. UNCHANGED <<proc, owed>> /\ taint \subseteq taint'
  <2>1. CASE Requests
    BY <2>1 DEF Requests, LaunchIfFree, ConfigureToLaunch, Probe, Begin, Raise, Refuse,
         ResumeIfRunning, ConfigureToResume, Reprobe, Allow, CancelApp,
         CancelReverts, Serverinfo, Launch, Resume, Cancel, noteVars, Note
  <2>2. CASE Others
    BY <2>2 DEF Others, DisabledEndsApp, CloseApp, DisableClient, Scan, Answer,
         SessionStarts, PeerConnects, PopReturns, Reap, noteVars
  <2>3. CASE Bystands
    BY <2>3 DEF Bystands, LaunchExpires, SessionStops, noteVars
  <2> QED
    BY <2>1, <2>2, <2>3
<1>2. CASE Requests
  <2>1. pc["https"] \in Outside \cup {"executed"}
    BY <1>2, OutsideFacts
       DEF Requests, LaunchIfFree, ConfigureToLaunch, Probe, Begin, Raise, Refuse,
         ResumeIfRunning, ConfigureToResume, Reprobe, Allow, CancelApp,
         CancelReverts, Serverinfo, Launch, Resume, Cancel, Serve, At
  <2> DEFINE Places == Outside \cup {"executed", "terminate", "running", "count", "clear"}
  <2>2. \E l \in Places : pc' = [pc EXCEPT !["https"] = l]
    <3>1. CASE LaunchIfFree \/ ConfigureToLaunch \/ Probe \/ Begin \/ Raise \/ Refuse
      BY <3>1, OutsideFacts
         DEF LaunchIfFree, ConfigureToLaunch, Probe, Begin, Raise, Refuse, Goto, Call, Enter
    <3>2. CASE ResumeIfRunning \/ ConfigureToResume \/ Reprobe \/ Allow
               \/ CancelApp \/ CancelReverts
      BY <3>2, OutsideFacts
         DEF ResumeIfRunning, ConfigureToResume, Reprobe, Allow, CancelApp, CancelReverts,
             Goto, Call, Enter
    <3>3. CASE Serverinfo \/ Launch \/ Resume \/ Cancel
      BY <3>3 DEF Serverinfo, Launch, Resume, Cancel, Call, Enter
    <3> QED
      BY <1>2, <3>1, <3>2, <3>3 DEF Requests
  <2>3. \A t \in Threads :
           \/ pc'[t] = pc[t]
           \/ {pc[t], pc'[t]} \cap (InTerminate \cup InExecute) = {}
    BY <2>1, <2>2, InsideLabels, TypesKnown DEF ThreadsTyped
  <2> QED
    BY <1>1, <2>3 DEF Apart
<1>3. CASE Others
  <2>1. PICK t \in {"web", "control", "rtsp"},
             l \in Outside \cup {"terminate", "running", "count", "clear", "join"} :
            pc[t] \in Outside /\ pc' = [pc EXCEPT ![t] = l]
    <3>1. CASE DisabledEndsApp \/ CloseApp \/ DisableClient
      BY <3>1, OutsideFacts
         DEF DisabledEndsApp, CloseApp, DisableClient, Serve, At, Goto, Call, Enter
    <3>2. CASE Scan \/ Answer \/ SessionStarts \/ PopReturns \/ Reap
      BY <3>2, OutsideFacts
         DEF Scan, Answer, SessionStarts, PopReturns, Reap, At, Goto, Call, Enter
    <3>3. CASE PeerConnects
      <4>1. /\ pc["control"] = "loop"
            /\ pc' = pc \/ pc' = [pc EXCEPT !["control"] = "pop"]
        BY <3>3 DEF PeerConnects, At, Goto, threadVars
      <4>2. pc = [pc EXCEPT !["control"] = "loop"]
        BY <4>1, TypesKnown DEF ThreadsTyped
      <4> QED
        BY <4>1, <4>2, OutsideFacts
    <3> QED
      BY <1>3, <3>1, <3>2, <3>3 DEF Others
  <2>2. \A u \in Threads :
           \/ pc'[u] = pc[u]
           \/ {pc[u], pc'[u]} \cap (InTerminate \cup InExecute) = {}
    BY <2>1, InsideLabels, TypesKnown DEF ThreadsTyped
  <2> QED
    BY <1>1, <2>2 DEF Apart
<1>4. CASE Bystands
  <2>1. pc' = pc
    BY <1>4 DEF Bystands, LaunchExpires, SessionStops, threadVars
  <2> QED
    BY <1>1, <2>1 DEF Apart
<1> QED
  BY <1>2, <1>3, <1>4

LEMMA ServesApart ==
    ASSUME TypeOK, Shaped, NEW t \in Threads, Serves(t)
    PROVE  \/ Apart
           \/ Running(t) /\ MayDetach /\ proc' = [proc EXCEPT !.placebo = TRUE]
              /\ Return(t, proc.id) /\ Note(Overlap(t))
<1>1. /\ ThreadsTyped /\ pc[t] \in Called \ Ending /\ stack[t] \in Stacks
      /\ Moved(t) /\ owed' = owed
  <2>1. pc[t] \in Called \ Ending
    BY DEF Serves, Running, ReturnZero, Count, Clear, Join, LastSession, Joined, Erase,
         At, Ending, InTerminate, Called, Returns
  <2>2. Moved(t)
    BY CalledMoves DEF Serves
  <2>3. owed' = owed
    BY DEF Serves, Running, ReturnZero, Count, Clear, Join, LastSession, Joined, Erase
  <2> QED
    BY <2>1, <2>2, <2>3, TypesKnown, ShapeInside
<1>2. CASE /\ Running(t) /\ MayDetach /\ proc' = [proc EXCEPT !.placebo = TRUE]
           /\ Return(t, proc.id) /\ Note(Overlap(t))
  BY <1>2
<1>3. CASE UNCHANGED <<proc, taint>>
  <2>1. pc[t] \notin InTerminate \cup InExecute
    BY <1>1, InsideLabels DEF Ending
  <2>2. pc'[t] \notin InTerminate \cup InExecute
    <3>1. \/ \E l \in {"join", "joining", "erase", "terminate", "running"} :
                 pc' = [pc EXCEPT ![t] = l]
          \/ pc'[t] = Head(stack[t])
      <4>1. CASE Erase(t)
        <5>1. t # "control"
          BY <4>1 DEF Erase, At
        <5> QED
          BY <1>1, <4>1, <5>1 DEF Erase, ThreadsTyped
      <4>2. CASE Running(t) \/ ReturnZero(t) \/ Count(t) \/ Clear(t)
        BY <1>1, <4>2
           DEF Running, ReturnZero, Count, Clear, Goto, Call, Enter, Return, ThreadsTyped
      <4>3. CASE Join(t) \/ LastSession(t) \/ Joined(t)
        BY <1>1, <4>3
           DEF Join, LastSession, Joined, Goto, Call, Enter, Return, ThreadsTyped
      <4> QED
        BY <4>1, <4>2, <4>3 DEF Serves
    <3>2. Head(stack[t]) \notin InTerminate \cup InExecute
      BY <1>1, Popped, InsideLabels
    <3> QED
      BY <1>1, <3>1, <3>2, InsideLabels DEF ThreadsTyped
  <2>3. Elsewhere(t)
    BY <1>1 DEF Moved
  <2> QED
    BY <1>1, <1>3, <2>1, <2>2, <2>3, MoverOnly DEF Apart
<1>4. UNCHANGED <<proc, taint>> \/ Running(t)
  BY DEF Serves, ReturnZero, Count, Clear, Join, LastSession, Joined, Erase, noteVars
<1> QED
  BY <1>2, <1>3, <1>4 DEF Running

-----------------------------------------------------------------------------
(* Steps inside proc_t                                                     *)

LEMMA NothingOwed ==
    ASSUME NEW a
    PROVE  OwedBy(a, 0) = {}
  BY DEF OwedBy

LEMMA OneMoreOwed ==
    ASSUME NEW a, NEW n \in Nat
    PROVE  OwedBy(a, n + 1) =
               IF PrepsOf(a)[n + 1] = "do" THEN OwedBy(a, n)
               ELSE OwedBy(a, n) \cup {<<a, n + 1>>}
<1>1. 1 .. (n + 1) = (1 .. n) \cup {n + 1}
  OBVIOUS
<1> QED
  BY <1>1 DEF OwedBy

LEMMA OneLessOwed ==
    ASSUME NEW a, NEW n \in Nat
    PROVE  /\ PrepsOf(a)[n + 1] # "do" =>
                  OwedBy(a, n) = OwedBy(a, n + 1) \ {<<a, n + 1>>}
           /\ PrepsOf(a)[n + 1] = "do" => OwedBy(a, n) = OwedBy(a, n + 1)
<1>1. <<a, n + 1>> \notin OwedBy(a, n)
  BY DEF OwedBy
<1> QED
  BY <1>1, OneMoreOwed

\* Where only t is inside proc_t, this is what is known of proc_t.
Known(t) ==
    /\ Stage(t) /\ Clean
    /\ owed = OwedBy(proc.app, IF pc[t] = "undoing" THEN proc.it - 1 ELSE proc.it)
    /\ proc.it \in 0 .. Len(PrepsOf(proc.app))

LEMMA AloneBefore ==
    ASSUME TypeOK, Safely, taint = {}, NEW t \in Threads,
           \A u \in Threads \ {t} : ~Inside(u)
    PROVE  Known(t)
<1>1. (\E u \in Threads : pc[u] = "undoing") <=> pc[t] = "undoing"
  BY DEF Inside, InTerminate
<1> QED
  BY <1>1 DEF Safely, Stages, Undone, Known, TypeOK

LEMMA AloneAfter ==
    ASSUME NEW t \in Threads, Elsewhere(t), Known(t)',
           \A u \in Threads \ {t} : ~Inside(u)
    PROVE  Safely'
<1>1. \A u \in Threads \ {t} : ~Inside(u)'
  BY MoverOnly DEF Inside
<1>2. OneInside'
  BY <1>1 DEF OneInside
<1>3. Stages'
  <2> SUFFICES ASSUME NEW u \in Threads \ {t} PROVE Stage(u)'
    BY DEF Known, Stages
  <2> QED
    BY <1>1 DEF Stage, Inside, InTerminate, InExecute
<1>4. Undone'
  <2>1. (\E u \in Threads : pc'[u] = "undoing") <=> pc'[t] = "undoing"
    BY <1>1 DEF Inside, InTerminate
  <2> QED
    BY <2>1 DEF Known, Undone
<1> QED
  BY <1>2, <1>3, <1>4 DEF Known, Safely

LEMMA ProcTyped ==
    ASSUME TypeOK
    PROVE  /\ proc \in [id : Apps \cup {0, -1}, app : Apps \cup {NoApp},
                        placebo : BOOLEAN, child : {"none", "up", "ok", "failed"},
                        group : BOOLEAN, it : Int]
           /\ proc.id \in Int /\ proc.it \in Int
           /\ proc.id \in Apps \cup {0, -1} /\ proc.app \in Apps \cup {NoApp}
           /\ proc.placebo \in BOOLEAN /\ proc.group \in BOOLEAN
           /\ proc.child \in {"none", "up", "ok", "failed"}
           /\ \A a \in Apps : a \in Nat \ {0}
<1>1. \A a \in Apps : a \in Nat \ {0}
  BY AppHostAssumption
<1>2. proc \in [id : Apps \cup {0, -1}, app : Apps \cup {NoApp},
                placebo : BOOLEAN, child : {"none", "up", "ok", "failed"},
                group : BOOLEAN, it : Int]
  BY DEF TypeOK
<1>3. proc.id \in Apps \cup {0, -1}
  BY <1>2
<1> QED
  BY <1>1, <1>2, <1>3

LEMMA PrepsTyped ==
    ASSUME NEW a
    PROVE  PrepsOf(a) \in Seq({"both", "do", "undo"}) /\ Len(PrepsOf(a)) \in Nat
  BY AppHostAssumption DEF PrepsOf

LEMMA EndsKnown ==
    ASSUME TypeOK, Shaped, NEW t \in Threads, Known(t), Ends(t)
    PROVE  Known(t)'
<1>1. /\ ThreadsTyped /\ pc[t] \in Ending
      /\ stack[t] \in Stacks \/ Executing(t)
  BY TypesKnown, ShapeInside
     DEF Ends, Terminate, GroupEnded, BeginUndo, EndUndo, Finish, At, Ending, InTerminate
<1>2. CASE Terminate(t)
  <2>1. /\ pc[t] = "terminate" /\ pc'[t] = "wait" /\ owed' = owed
        /\ proc' = [proc EXCEPT !.placebo = FALSE]
    BY <1>1, <1>2 DEF Terminate, At, Goto, ThreadsTyped
  <2>2. /\ ~proc'.placebo /\ proc'.child = proc.child /\ proc'.group = proc.group
        /\ proc'.id = proc.id /\ proc'.app = proc.app /\ proc'.it = proc.it
    BY <2>1, ProcTyped
  <2> QED
    BY <2>1, <2>2 DEF Known, Stage, Clean, Quiet
<1>3. CASE GroupEnded(t)
  <2>1. /\ pc[t] = "wait" /\ pc'[t] = "undo" /\ owed' = owed
        /\ proc' = [proc EXCEPT !.child = "none", !.group = FALSE]
    BY <1>1, <1>3 DEF GroupEnded, At, Goto, ThreadsTyped
  <2>2. /\ proc'.placebo = proc.placebo /\ proc'.child = "none" /\ ~proc'.group
        /\ proc'.id = proc.id /\ proc'.app = proc.app /\ proc'.it = proc.it
    BY <2>1, ProcTyped
  <2> QED
    BY <2>1, <2>2 DEF Known, Stage, Clean, Quiet
<1>4. CASE BeginUndo(t)
  <2>1. /\ pc[t] = "undo" /\ proc' = proc
        /\ pc'[t] = IF proc.it = 0 THEN "finish" ELSE "undoing"
        /\ owed' = IF proc.it # 0 /\ PrepsOf(proc.app)[proc.it] # "do"
                   THEN owed \ {<<proc.app, proc.it>>} ELSE owed
    BY <1>1, <1>4 DEF BeginUndo, At, Goto, ThreadsTyped, Known
  <2>2. proc.it \in Nat /\ owed = OwedBy(proc.app, proc.it)
    BY <2>1 DEF Known
  <2>3. CASE proc.it = 0
    BY <2>1, <2>2, <2>3 DEF Known, Stage, Clean, Quiet
  <2>4. CASE proc.it # 0
    <3>1. PICK n \in Nat : proc.it = n + 1
      <4>1. proc.it - 1 \in Nat /\ proc.it = (proc.it - 1) + 1
        BY <2>2, <2>4
      <4> QED
        BY <4>1
    <3>2. /\ PrepsOf(proc.app)[n + 1] # "do" =>
                 OwedBy(proc.app, n) = OwedBy(proc.app, n + 1) \ {<<proc.app, n + 1>>}
          /\ PrepsOf(proc.app)[n + 1] = "do" =>
                 OwedBy(proc.app, n) = OwedBy(proc.app, n + 1)
      BY OneLessOwed
    <3>3. owed' = OwedBy(proc.app, n)
      <4>1. owed' = IF PrepsOf(proc.app)[n + 1] # "do"
                    THEN OwedBy(proc.app, n + 1) \ {<<proc.app, n + 1>>}
                    ELSE OwedBy(proc.app, n + 1)
        BY <2>1, <2>2, <2>4, <3>1
      <4> QED
        BY <3>2, <4>1
    <3>4. n = proc.it - 1 /\ proc.it > 0
      BY <3>1
    <3>5. Stage(t)' /\ pc'[t] = "undoing"
      BY <2>1, <2>4, <3>4 DEF Known, Stage, Quiet
    <3> QED
      BY <2>1, <3>3, <3>4, <3>5 DEF Known, Clean, Quiet
  <2> QED
    BY <2>3, <2>4
<1>5. CASE EndUndo(t)
  <2>1. /\ pc[t] = "undoing" /\ pc'[t] = "undo" /\ owed' = owed
        /\ proc' = [proc EXCEPT !.it = @ - 1]
    BY <1>1, <1>5 DEF EndUndo, At, Goto, ThreadsTyped
  <2>2. /\ proc'.placebo = proc.placebo /\ proc'.child = proc.child
        /\ proc'.group = proc.group /\ proc'.id = proc.id /\ proc'.app = proc.app
        /\ proc'.it = proc.it - 1
    BY <2>1, ProcTyped
  <2>3. proc.it > 0 /\ proc.id > 0
    BY <2>1, ProcTyped DEF Known, Stage, Clean
  <2>4. proc'.it \in 0 .. Len(PrepsOf(proc'.app))
    <3>1. proc.it \in 0 .. Len(PrepsOf(proc.app)) /\ Len(PrepsOf(proc.app)) \in Nat
      BY PrepsTyped, ProcTyped DEF Known
    <3> QED
      BY <2>2, <2>3, <3>1
  <2> QED
    BY <2>1, <2>2, <2>3, <2>4 DEF Known, Stage, Clean, Quiet
<1>6. CASE Finish(t)
  <2>1. /\ pc[t] = "finish" /\ owed' = owed /\ pc'[t] = Head(stack[t])
        /\ proc' = [proc EXCEPT !.id = -1]
    BY <1>1, <1>6 DEF Finish, At, Return, ThreadsTyped
  <2>2. /\ proc'.placebo = proc.placebo /\ proc'.child = proc.child
        /\ proc'.group = proc.group /\ proc'.id = -1 /\ proc'.app = proc.app
        /\ proc'.it = proc.it
    BY <2>1, ProcTyped
  <2>3. pc'[t] \in {"find", "failed"} \/ pc'[t] \notin InTerminate \cup InExecute
    <3>1. CASE stack[t] \in Stacks
      BY <2>1, <3>1, Popped, InsideLabels
    <3>2. CASE Executing(t)
      <4>1. stack[t] \in {<<"find", "executed">>, <<"failed", "executed">>}
        BY <2>1, <3>2 DEF Executing, InExecute
      <4> QED
        BY <2>1, <4>1, ExecuteFrames
    <3> QED
      BY <1>1, <3>1, <3>2
  <2>4. Quiet /\ Quiet' /\ proc.it = 0
    BY <2>1, <2>2 DEF Known, Stage, Quiet
  <2>5. Stage(t)' /\ pc'[t] # "undoing"
    BY <2>2, <2>3, <2>4 DEF Stage, InTerminate, InExecute
  <2> QED
    BY <2>1, <2>2, <2>4, <2>5 DEF Known, Clean, Quiet
<1> QED
  BY <1>2, <1>3, <1>4, <1>5, <1>6 DEF Ends

LEMMA ExecutesKnown ==
    ASSUME TypeOK, Shaped, Known("https"), Executes
    PROVE  Known("https")'
<1>1. /\ ThreadsTyped /\ pc["https"] \in InExecute /\ "https" \in Threads
      /\ stack["https"] = <<"executed">> /\ request.app \in Apps
  <2>1. ThreadsTyped /\ pc["https"] \in InExecute /\ "https" \in Threads
    BY TypesKnown
       DEF Executes, Find, Prepare, Prepared, Spawn, Failed, At, InExecute, Threads
  <2>2. Executing("https")
    BY <2>1, ShapeInside
  <2> QED
    BY <2>1, <2>2 DEF Executing, InExecute, InTerminate
<1>2. ASSUME NEW v, Return("https", v) PROVE pc'["https"] = "executed"
  BY <1>1, <1>2, ExecuteFrames DEF Return, ThreadsTyped
<1>3. ASSUME NEW l, NEW n, Call("https", l, n) PROVE pc'["https"] = l
  BY <1>1, <1>3 DEF Call, Enter, ThreadsTyped
<1>4. ASSUME UNCHANGED <<proc, owed>>,
             pc["https"] # "undoing", pc'["https"] \in {"executed", "terminate"}
      PROVE  Known("https")'
  BY <1>4 DEF Known, Stage, Clean, Quiet
<1>5. CASE Find("https")
  <2>1. pc["https"] = "find" /\ owed' = owed
    BY <1>5 DEF Find, At
  <2>2. CASE Return("https", 404) /\ UNCHANGED proc
    BY <1>2, <1>4, <2>1, <2>2
  <2>3. CASE /\ proc' = [proc EXCEPT !.id = request.app, !.app = request.app, !.it = 0]
             /\ Goto("https", "prep")
    <3>1. pc'["https"] = "prep"
      BY <1>1, <2>3 DEF Goto, ThreadsTyped
    <3>2. /\ proc'.placebo = proc.placebo /\ proc'.child = proc.child
          /\ proc'.group = proc.group /\ proc'.id = request.app
          /\ proc'.app = request.app /\ proc'.it = 0
      BY <2>3, ProcTyped
    <3>3. Quiet /\ Quiet' /\ proc.it = 0 /\ request.app > 0
      BY <1>1, <2>1, <3>2, ProcTyped DEF Known, Stage, Quiet
    <3>4. owed' = OwedBy(proc'.app, proc'.it)
      BY <2>1, <3>2, <3>3, NothingOwed DEF Known
    <3>5. proc'.it \in 0 .. Len(PrepsOf(proc'.app))
      BY <3>2, PrepsTyped
    <3>6. Stage("https")' /\ Clean'
      BY <3>1, <3>2, <3>3 DEF Stage, Clean, Quiet
    <3> QED
      BY <3>1, <3>4, <3>5, <3>6 DEF Known
  <2> QED
    BY <1>5, <2>2, <2>3 DEF Find
<1>6. CASE Prepare("https")
  <2>1. /\ pc["https"] = "prep"
        /\ proc.it \in 0 .. Len(PrepsOf(proc.app)) - 1
    BY <1>6 DEF Prepare, At
  <2>2. CASE Call("https", "terminate", "failed") /\ UNCHANGED <<proc, owed>>
    BY <1>3, <1>4, <2>1, <2>2
  <2>3. CASE /\ proc' = [proc EXCEPT !.it = @ + 1]
             /\ owed' = IF PrepsOf(proc.app)[proc.it + 1] = "do" THEN owed
                        ELSE owed \cup {<<proc.app, proc.it + 1>>}
             /\ Goto("https", "prep")
    <3>1. pc'["https"] = "prep"
      BY <1>1, <2>3 DEF Goto, ThreadsTyped
    <3>2. /\ proc'.placebo = proc.placebo /\ proc'.child = proc.child
          /\ proc'.group = proc.group /\ proc'.id = proc.id
          /\ proc'.app = proc.app /\ proc'.it = proc.it + 1
      BY <2>3, ProcTyped
    <3>3. Quiet /\ Quiet' /\ proc.id > 0 /\ proc.it \in Nat
      BY <2>1, <3>2 DEF Known, Stage, Quiet
    <3>4. owed = OwedBy(proc.app, proc.it)
      BY <2>1 DEF Known
    <3>5. owed' = OwedBy(proc'.app, proc'.it)
      BY <2>3, <3>2, <3>3, <3>4, OneMoreOwed
    <3>6. proc'.it \in 0 .. Len(PrepsOf(proc'.app))
      BY <2>1, <3>2, PrepsTyped
    <3>7. Stage("https")' /\ Clean'
      BY <3>1, <3>2, <3>3, ProcTyped DEF Stage, Clean, Quiet
    <3> QED
      BY <3>1, <3>5, <3>6, <3>7 DEF Known
  <2> QED
    BY <1>6, <2>2, <2>3 DEF Prepare
<1>7. CASE Prepared("https")
  <2>1. /\ pc["https"] = "prep" /\ pc'["https"] = "spawn"
        /\ UNCHANGED <<proc, owed>>
    BY <1>1, <1>7 DEF Prepared, At, Goto, ThreadsTyped
  <2> QED
    BY <2>1 DEF Known, Stage, Clean, Quiet
<1>8. CASE Spawn("https")
  <2>1. /\ pc["https"] = "spawn" /\ owed' = owed
        /\ pc'["https"] \in {"executed", "terminate"}
    BY <1>2, <1>3, <1>8 DEF Spawn, At
  <2>2. CASE UNCHANGED proc
    BY <1>4, <2>1, <2>2
  <2>3. CASE \/ proc' = [proc EXCEPT !.placebo = TRUE]
             \/ proc' = [proc EXCEPT !.child = "up", !.group = TRUE]
    <3>1. /\ proc'.id = proc.id /\ proc'.app = proc.app /\ proc'.it = proc.it
          /\ \/ proc'.child = "up"
             \/ proc'.child = proc.child /\ proc'.group = proc.group
      BY <2>3, ProcTyped
    <3>2. proc.id > 0 /\ Quiet
      BY <2>1 DEF Known, Stage
    <3>3. Clean' /\ Stage("https")'
      BY <2>1, <3>1, <3>2, ProcTyped DEF Known, Clean, Stage, Quiet
    <3> QED
      BY <2>1, <3>1, <3>3 DEF Known
  <2> QED
    BY <1>8, <2>2, <2>3 DEF Spawn
<1>9. CASE Failed("https")
  BY <1>2, <1>4, <1>9 DEF Failed, At
<1> QED
  BY <1>5, <1>6, <1>7, <1>8, <1>9 DEF Executes

-----------------------------------------------------------------------------
(* What is known of proc_t is kept by every step                           *)

LEMMA TaintGrows ==
    ASSUME TypeOK, Shaped, Next
    PROVE  taint \subseteq taint'
<1>1. ASSUME NEW t \in Threads, Ends(t) \/ Serves(t) PROVE taint \subseteq taint'
  BY <1>1 DEF Ends, Terminate, GroupEnded, BeginUndo, EndUndo, Finish, Serves, Running,
     ReturnZero, Count, Clear, Join, LastSession, Joined, Erase, noteVars, Note
<1>2. ASSUME Executes \/ Exits \/ SaveApps PROVE taint \subseteq taint'
  BY <1>2 DEF Executes, Find, Prepare, Prepared, Spawn, Failed, Exits, AppExits,
     GroupExits, SaveApps, Refresh, noteVars, Note
<1>3. ASSUME Requests \/ Others \/ Bystands PROVE taint \subseteq taint'
  BY <1>3, RequestsApart DEF Apart
<1> QED
  BY <1>1, <1>2, <1>3, StepKinds

LEMMA SafelyStep ==
    ASSUME TypeOK, Shaped, Safely, Next, taint = {}, taint' = {}
    PROVE  /\ Safely'
           /\ proc'.it \in 0 .. Len(PrepsOf(proc'.app))
<1> DEFINE Ranged == proc.it \in 0 .. Len(PrepsOf(proc.app))
<1>1. Ranged
  BY DEF TypeOK
<1>2. ASSUME NEW t \in Threads, Known(t)', Elsewhere(t),
             \A u \in Threads \ {t} : ~Inside(u)
      PROVE  Safely' /\ Ranged'
  BY <1>2, AloneAfter DEF Known
<1>3. ASSUME Apart PROVE Safely' /\ Ranged'
  <2>1. proc' = proc
    BY <1>3 DEF Apart
  <2> QED
    BY <1>1, <1>3, <2>1, ApartKeeps
<1>4. ASSUME NEW t \in Threads, Overlap(t) \subseteq taint'
      PROVE  \A u \in Threads \ {t} : ~Inside(u)
  BY <1>4 DEF Overlap
<1>5. ASSUME NEW t \in Threads, Inside(t)
      PROVE  \A u \in Threads \ {t} : ~Inside(u)
  BY <1>5 DEF Safely, OneInside
<1>6. ASSUME NEW t \in Threads, Ends(t) PROVE Safely' /\ Ranged'
  <2>1. \A u \in Threads \ {t} : ~Inside(u)
    <3>1. CASE Terminate(t)
      BY <1>4, <3>1 DEF Terminate, Note
    <3>2. CASE GroupEnded(t) \/ BeginUndo(t) \/ EndUndo(t) \/ Finish(t)
      BY <1>5, <3>2 DEF GroupEnded, BeginUndo, EndUndo, Finish, At, Inside, InTerminate
    <3> QED
      BY <1>6, <3>1, <3>2 DEF Ends
  <2>2. Elsewhere(t)
    BY <1>6, EndingMoves DEF Ends, Moved
  <2>3. Known(t)'
    BY <1>6, <2>1, AloneBefore, EndsKnown
  <2> QED
    BY <1>2, <2>1, <2>2, <2>3
<1>7. ASSUME Executes PROVE Safely' /\ Ranged'
  <2>1. "https" \in Threads /\ Inside("https")
    BY <1>7 DEF Executes, Find, Prepare, Prepared, Spawn, Failed, At, Inside,
       InExecute, Threads
  <2>2. \A u \in Threads \ {"https"} : ~Inside(u)
    BY <1>5, <2>1
  <2>3. Elsewhere("https")
    BY <1>7, ExecuteMoves DEF Executes, Moved
  <2>4. Known("https")'
    BY <1>7, <2>1, <2>2, AloneBefore, ExecutesKnown
  <2> QED
    BY <1>2, <2>1, <2>2, <2>3, <2>4
<1>8. ASSUME NEW t \in Threads, Running(t), MayDetach,
             proc' = [proc EXCEPT !.placebo = TRUE],
             Return(t, proc.id), Note(Overlap(t))
      PROVE  Safely' /\ Ranged'
  <2>1. \A u \in Threads \ {t} : ~Inside(u)
    BY <1>4, <1>8 DEF Note
  <2>2. Elsewhere(t)
    BY <1>8, CalledMoves DEF Moved
  <2>3. Known(t) /\ pc[t] = "running" /\ owed' = owed
    BY <1>8, <2>1, AloneBefore DEF Running, At
  <2>4. pc'[t] \notin InTerminate \cup InExecute
    <3>1. stack[t] \in Stacks /\ ThreadsTyped
      BY <2>3, ShapeInside, TypesKnown DEF Called, Ending, InTerminate
    <3>2. Head(stack[t]) \notin InTerminate \cup InExecute
      BY <3>1, Popped, InsideLabels
    <3> QED
      BY <1>8, <3>1, <3>2 DEF Return, ThreadsTyped
  <2>5. /\ proc'.id = proc.id /\ proc'.app = proc.app /\ proc'.it = proc.it
        /\ proc'.child = proc.child /\ proc'.group = proc.group
    BY <1>8, ProcTyped
  <2>6. proc.child = "ok" /\ proc.id > 0
    BY <1>8, <2>3, ProcTyped DEF MayDetach, Known, Clean, Quiet
  <2>7. Clean' /\ Stage(t)'
    BY <2>4, <2>5, <2>6, ProcTyped DEF Clean, Stage, InTerminate, InExecute
  <2>8. Known(t)'
    BY <2>3, <2>4, <2>5, <2>7 DEF Known, InTerminate
  <2> QED
    BY <1>2, <2>1, <2>2, <2>8
<1>9. ASSUME Exits PROVE Safely' /\ Ranged'
  <2>1. pc' = pc /\ owed' = owed
    BY <1>9 DEF Exits, AppExits, GroupExits, threadVars
  <2>2. /\ proc'.id = proc.id /\ proc'.app = proc.app /\ proc'.it = proc.it
        /\ proc'.placebo = proc.placebo
        /\ ~Quiet
        /\ proc'.child = "none" => ~proc'.group
    <3>1. CASE AppExits
      <4>1. PICK code \in {"ok", "failed"}, g \in BOOLEAN :
                proc' = [proc EXCEPT !.child = code, !.group = g]
        BY <3>1 DEF AppExits
      <4> QED
        BY <3>1, <4>1, ProcTyped DEF AppExits, Quiet
    <3>2. CASE GroupExits
      BY <3>2, ProcTyped DEF GroupExits, Quiet
    <3> QED
      BY <1>9, <3>1, <3>2 DEF Exits
  <2>3. Clean'
    BY <2>2, ProcTyped DEF Safely, Clean
  <2>4. Stages'
    BY <2>1, <2>2 DEF Safely, Stages, Stage
  <2>5. OneInside' /\ Undone'
    BY <2>1, <2>2 DEF Safely, OneInside, Inside, Undone
  <2> QED
    BY <1>1, <2>2, <2>3, <2>4, <2>5 DEF Safely
<1>10. ASSUME SaveApps PROVE Safely' /\ Ranged'
  <2>1. /\ "web" \in Threads /\ pc["web"] = "idle"
        /\ pc' = pc /\ stack' = stack /\ val' = val /\ owed' = owed
        /\ proc' = NoProc /\ Overlap("web") \subseteq taint'
        /\ ~(proc.id > 0)
    BY <1>10 DEF SaveApps, Serve, At, Refresh, threadVars, Threads, Note
  <2>2. \A u \in Threads \ {"web"} : ~Inside(u)
    BY <1>4, <2>1
  <2>3. Known("web") /\ Elsewhere("web")
    BY <2>1, <2>2, AloneBefore DEF Elsewhere
  <2>4. proc.it = 0 /\ owed = {}
    BY <2>1, <2>3, ProcTyped, NothingOwed DEF Known, Clean
  <2>5. /\ proc'.id = 0 /\ proc'.app = NoApp /\ ~proc'.placebo
        /\ proc'.child = "none" /\ ~proc'.group /\ proc'.it = 0
    BY <2>1 DEF NoProc
  <2>6. Stage("web")' /\ Clean'
    BY <2>1, <2>5 DEF Stage, Clean, Quiet
  <2>7. proc'.it \in 0 .. Len(PrepsOf(proc'.app)) /\ owed' = OwedBy(proc'.app, proc'.it)
    BY <2>1, <2>4, <2>5, PrepsTyped, NothingOwed
  <2>8. Known("web")'
    BY <2>1, <2>6, <2>7 DEF Known
  <2> QED
    BY <1>2, <2>1, <2>2, <2>3, <2>8
<1>11. Safely' /\ Ranged'
  <2>1. CASE \E t \in Threads : Ends(t) \/ Serves(t)
    BY <1>3, <1>6, <1>8, <2>1, ServesApart
  <2>2. CASE Executes \/ Exits \/ SaveApps
    BY <1>7, <1>9, <1>10, <2>2
  <2>3. CASE Requests \/ Others \/ Bystands
    BY <1>3, <2>3, RequestsApart
  <2> QED
    BY <2>1, <2>2, <2>3, StepKinds
<1> QED
  BY <1>11

-----------------------------------------------------------------------------
(* A launch that has found no app                                          *)

LEMMA QuietKept ==
    ASSUME TypeOK, Shaped, Quiet, Next
    PROVE  Quiet' \/ Spawn("https")
<1>1. ASSUME proc' = proc PROVE Quiet'
  BY <1>1 DEF Quiet
<1>2. ASSUME NEW t \in Threads, Ends(t) PROVE Quiet'
  <2>1. \/ proc' = proc
        \/ proc' = [proc EXCEPT !.placebo = FALSE]
        \/ proc' = [proc EXCEPT !.child = "none", !.group = FALSE]
        \/ proc' = [proc EXCEPT !.it = @ - 1]
        \/ proc' = [proc EXCEPT !.id = -1]
    BY <1>2 DEF Ends, Terminate, GroupEnded, BeginUndo, EndUndo, Finish
  <2> QED
    BY <2>1, ProcTyped DEF Quiet
<1>3. ASSUME NEW t \in Threads, Serves(t) PROVE Quiet'
  BY <1>1, <1>3, ServesApart DEF Apart, MayDetach, Quiet
<1>4. ASSUME Executes PROVE Quiet' \/ Spawn("https")
  <2>1. \/ proc' = proc \/ Spawn("https")
        \/ proc' = [proc EXCEPT !.id = request.app, !.app = request.app, !.it = 0]
        \/ proc' = [proc EXCEPT !.it = @ + 1]
    BY <1>4 DEF Executes, Find, Prepare, Prepared, Failed
  <2> QED
    BY <2>1, ProcTyped DEF Quiet
<1>5. ASSUME Exits PROVE Quiet'
  BY <1>5 DEF Exits, AppExits, GroupExits, Quiet
<1>6. ASSUME SaveApps PROVE Quiet'
  BY <1>6 DEF SaveApps, Refresh, NoProc, Quiet
<1>7. ASSUME Requests \/ Others \/ Bystands PROVE Quiet'
  BY <1>1, <1>7, RequestsApart DEF Apart
<1> QED
  BY <1>2, <1>3, <1>4, <1>5, <1>6, <1>7, StepKinds

LEMMA NotExecuting ==
    ASSUME NEW s
    PROVE  /\ s \in Stacks => s # <<"find", "executed">>
           /\ s \in {<<>>, <<"executed">>, <<"failed", "executed">>, <<"launch">>}
                  => s # <<"find", "executed">>
           /\ \A n : s = <<n>> => s # <<"find", "executed">>
<1>1. ASSUME s \in Stacks PROVE Head(s) # "find"
  BY <1>1, Popped DEF Returns, Callers, Outside, InExecute
<1> QED
  BY <1>1, ExecuteFrames

\* A function that runs for the HTTPS thread has looked only if its caller
\* had, and terminate() leaves nothing.
LEMMA LookedInside ==
    ASSUME TypeOK, Shaped, Looks, Safely, taint = {},
           Ends("https") \/ Serves("https"), Looked'
    PROVE  Looked \/ Quiet
<1>1. "https" \in Threads /\ ThreadsTyped
  BY TypesKnown DEF Threads
<1>2. CASE Finish("https")
  <2>1. pc["https"] = "finish"
    BY <1>2 DEF Finish, At
  <2> QED
    BY <1>1, <2>1 DEF Safely, Stages, Stage
<1>3. CASE Terminate("https") \/ GroupEnded("https") \/ BeginUndo("https") \/ EndUndo("https")
  <2>1. /\ pc["https"] \in Ending /\ pc'["https"] \in InTerminate
        /\ stack' = stack
    BY <1>1, <1>3 DEF Terminate, GroupEnded, BeginUndo, EndUndo, At, Goto, ThreadsTyped,
       Ending, InTerminate
  <2>2. stack["https"] # <<>>
    BY <1>1, <2>1, ShapeInside, Popped, ExecuteFrames DEF Executing, InExecute, Ending, InTerminate
  <2> QED
    BY <2>1, <2>2 DEF Looked, Base, InTerminate
<1>4. CASE Serves("https")
  <2>1. /\ Moved("https") /\ pc["https"] \in Called \ Ending /\ stack["https"] \in Stacks
        /\ pc["https"] \notin {"probe", "begin", "launch"}
    <3>1. pc["https"] \in Called \ Ending
      BY <1>4 DEF Serves, Running, ReturnZero, Count, Clear, Join, LastSession, Joined,
         Erase, At, Ending, InTerminate, Called, Returns
    <3> QED
      BY <1>1, <1>4, <3>1, ShapeInside, CalledMoves
         DEF Serves, Called, InTerminate, Returns
  <2>2. CASE Walks("https")
    <3>1. Base' = Base /\ pc'["https"] \in Called \ {"zero"} /\ stack'["https"] \in Stacks
      BY <2>1, <2>2, BaseMoves DEF Walks
    <3> QED
      BY <3>1, NotExecuting DEF Looked, Called, InTerminate, Returns
  <2>3. CASE Descends("https")
    <3>1. /\ Base' = Base /\ stack'["https"] \in Stacks
          /\ pc'["https"] \in {"terminate", "join", "running"}
      BY <2>1, <2>3, BaseMoves, Pushed DEF Descends, Returns
    <3> QED
      BY <3>1, NotExecuting DEF Looked
  <2>4. CASE Ascends("https")
    <3>1. /\ Base' = Base /\ pc'["https"] = Head(stack["https"])
          /\ stack'["https"] = Tail(stack["https"])
          /\ stack'["https"] = <<>> \/ stack'["https"] \in Stacks
          /\ pc'["https"] \notin {"probe", "begin"}
      BY <2>1, <2>4, BaseMoves, Popped DEF Ascends, Returns, Callers
    <3>2. stack'["https"] # <<"find", "executed">>
      BY <3>1, NotExecuting
    <3>3. CASE pc'["https"] = "zero" /\ stack'["https"] = <<"launch">>
      <4>1. Base' = "launch"
        BY <3>3, LaunchFrames DEF Base
      <4>2. stack["https"] = <<"launch">> \/ stack["https"] = <<"zero", "launch">>
        BY <2>1, <3>1, <4>1 DEF Looks
      <4>3. stack["https"] = <<"zero", "launch">>
        BY <3>1, <3>3, <4>2, LaunchFrames
      <4> QED
        BY <2>1, <3>1, <4>1, <4>3, LaunchFrames DEF Looks, Ending
    <3>4. CASE pc'["https"] = "launch" /\ val'["https"] <= 0
      <4>1. Base' = "launch"
        <5>1. stack'["https"] = <<>>
          BY <2>1, <3>1, <3>4, Popped DEF Returns
        <5> QED
          BY <3>4, <5>1 DEF Base
      <4>2. stack["https"] = <<"launch">> /\ pc["https"] \in {"running", "zero"}
        BY <2>1, <3>1, <3>4, <4>1, LaunchFrames DEF Looks, Ending
      <4>3. CASE pc["https"] = "zero"
        BY <4>2, <4>3 DEF Looked
      <4>4. CASE pc["https"] = "running"
        <5>1. Running("https")
          BY <1>4, <4>4 DEF Serves, ReturnZero, Count, Clear, Join, LastSession, Joined,
             Erase, At
        <5>2. pc'["https"] # "terminate"
          BY <3>4
        <5>3. \/ Return("https", proc.id)
              \/ ~Lives /\ proc.child = "none"
          BY <1>1, <5>1, <5>2 DEF Running, Call, Enter, ThreadsTyped
        <5>4. CASE Return("https", proc.id)
          <6>1. val'["https"] = proc.id
            BY <1>1, <4>2, <5>4, LaunchFrames DEF Return, Kept, ThreadsTyped
          <6> QED
            BY <3>4, <6>1 DEF Safely, Clean
        <5>5. CASE ~Lives /\ proc.child = "none"
          BY <5>5 DEF Safely, Clean, Lives, Quiet
        <5> QED
          BY <5>3, <5>4, <5>5
      <4> QED
        BY <4>2, <4>3, <4>4
    <3>5. CASE Base' = "launching"
      BY <3>1, <3>5 DEF Looked
    <3> QED
      BY <3>1, <3>2, <3>3, <3>4, <3>5 DEF Looked
  <2>5. Within("https")
    BY <1>1, <1>4, CalledMoves DEF Serves
  <2> QED
    BY <2>2, <2>3, <2>4, <2>5 DEF Within
<1> QED
  BY <1>2, <1>3, <1>4 DEF Ends

LEMMA LookedExecuting ==
    ASSUME TypeOK, Shaped, Executes
    PROVE  ~Looked'
<1>1. /\ ThreadsTyped /\ "https" \in Threads /\ stack["https"] = <<"executed">>
  <2>1. pc["https"] \in InExecute /\ "https" \in Threads
    BY DEF Executes, Find, Prepare, Prepared, Spawn, Failed, At, InExecute, Threads
  <2> QED
    BY <2>1, TypesKnown, ShapeInside DEF Executing, InExecute, InTerminate
<1>2. ASSUME NEW v, Return("https", v) PROVE ~Looked'
  <2>1. pc'["https"] = "executed" /\ stack'["https"] = <<>>
    BY <1>1, <1>2, ExecuteFrames DEF Return, ThreadsTyped
  <2> QED
    BY <2>1, NotExecuting DEF Looked, Base
<1>3. ASSUME NEW l \in {"prep", "spawn"}, Goto("https", l) PROVE ~Looked'
  <2>1. pc'["https"] = l /\ stack'["https"] = <<"executed">>
    BY <1>1, <1>3 DEF Goto, ThreadsTyped
  <2>2. Base' = "executed"
    BY <2>1, LaunchFrames, ExecuteFrames DEF Base
  <2> QED
    BY <2>1, <2>2, NotExecuting DEF Looked
<1>4. ASSUME Call("https", "terminate", "failed") PROVE ~Looked'
  <2>1. pc'["https"] = "terminate" /\ stack'["https"] = <<"failed", "executed">>
    BY <1>1, <1>4, ExecuteFrames DEF Call, Enter, ThreadsTyped
  <2>2. Base' = "executed"
    BY <2>1, LaunchFrames, ExecuteFrames DEF Base
  <2> QED
    BY <2>1, <2>2, NotExecuting DEF Looked
<1> QED
  BY <1>2, <1>3, <1>4 DEF Executes, Find, Prepare, Prepared, Spawn, Failed

LEMMA LookedOutside ==
    ASSUME TypeOK, Shaped, Requests, Looked'
    PROVE  Looked
<1>1. /\ ThreadsTyped /\ "https" \in Threads /\ stack["https"] = <<>>
      /\ Base = pc["https"]
  <2>1. pc["https"] \in Outside \cup {"executed"} /\ "https" \in Threads
    BY OutsideFacts
       DEF Requests, LaunchIfFree, ConfigureToLaunch, Probe, Begin, Raise, Refuse,
         ResumeIfRunning, ConfigureToResume, Reprobe, Allow, CancelApp,
         CancelReverts, Serverinfo, Launch, Resume, Cancel, Serve, At, Threads
  <2> QED
    BY <2>1, TypesKnown, ShapeInside DEF Base
<1>2. ~\E l \in {"idle", "refuse", "executed", "reprobe", "allow", "revert"} :
          Goto("https", l)
  <2> SUFFICES ASSUME NEW l \in {"idle", "refuse", "executed", "reprobe", "allow", "revert"},
                      Goto("https", l)
               PROVE  FALSE
    OBVIOUS
  <2>1. pc'["https"] = l /\ stack'["https"] = <<>>
    BY <1>1 DEF Goto, ThreadsTyped
  <2> QED
    BY <2>1, NotExecuting DEF Looked, Base
<1>3. ~\E l \in {"running", "count", "clear", "terminate"},
          n \in Callers \ {"launching"} : Call("https", l, n)
  <2> SUFFICES ASSUME NEW l \in {"running", "count", "clear", "terminate"},
                      NEW n \in Callers \ {"launching"}, Call("https", l, n)
               PROVE  FALSE
    OBVIOUS
  <2>1. pc'["https"] = l /\ stack'["https"] = <<n>>
    BY <1>1, Started DEF Call, Enter, ThreadsTyped
  <2>2. Base' = n
    BY <2>1, Started, Popped DEF Base
  <2> QED
    BY <2>1, <2>2, NotExecuting DEF Looked
<1>4. ASSUME \/ pc["https"] \in {"probe", "begin", "launching"}
             \/ pc["https"] = "launch" /\ val["https"] <= 0
      PROVE  Looked
  BY <1>1, <1>4 DEF Looked
<1>5. CASE LaunchIfFree
  <2>1. val["https"] \in Int
    <3>1. Vals \subseteq Int
      BY AppHostAssumption DEF Vals
    <3> QED
      BY <1>1, <3>1 DEF ThreadsTyped
  <2>2. ~(val["https"] > 0)
    BY <1>2, <1>5 DEF LaunchIfFree
  <2> QED
    BY <1>4, <1>5, <2>1, <2>2 DEF LaunchIfFree, At
<1>6. CASE ConfigureToLaunch \/ Probe \/ Begin
  BY <1>4, <1>6 DEF ConfigureToLaunch, Probe, Begin, At
<1>7. CASE Raise \/ Refuse
  BY <1>2, <1>7 DEF Raise, Refuse
<1>8. CASE ResumeIfRunning \/ ConfigureToResume \/ Reprobe \/ Allow
  BY <1>2, <1>3, <1>8, OutsideFacts DEF ResumeIfRunning, ConfigureToResume, Reprobe, Allow
<1>9. CASE CancelApp \/ CancelReverts
  BY <1>2, <1>3, <1>9, OutsideFacts DEF CancelApp, CancelReverts
<1>10. CASE Serverinfo \/ Launch \/ Resume \/ Cancel
  BY <1>3, <1>10, OutsideFacts DEF Serverinfo, Launch, Resume, Cancel
<1> QED
  BY <1>5, <1>6, <1>7, <1>8, <1>9, <1>10 DEF Requests

\* The steps that are not the HTTPS thread's.
LEMMA OthersStay ==
    ASSUME TypeOK, Shaped, Next
    PROVE  \/ Ends("https") \/ Serves("https") \/ Executes \/ Requests
           \/ /\ pc'["https"] = pc["https"] /\ stack'["https"] = stack["https"]
              /\ val'["https"] = val["https"] /\ request' = request
<1> DEFINE Same == /\ pc'["https"] = pc["https"] /\ stack'["https"] = stack["https"]
                   /\ val'["https"] = val["https"] /\ request' = request
<1>1. ASSUME NEW t \in Threads \ {"https"}, Moved(t) PROVE Same
  BY <1>1 DEF Moved, Elsewhere, Threads
<1>2. ASSUME NEW t \in Threads \ {"https"}, Ends(t) \/ Serves(t) PROVE Same
  BY <1>1, <1>2, EndingMoves, CalledMoves DEF Ends, Serves
<1>3. ASSUME Others \/ Bystands \/ Exits \/ SaveApps PROVE Same
  BY <1>1, <1>3, OtherMoves DEF Others, Bystands, Exits, Threads
<1> QED
  BY <1>2, <1>3, StepKinds

LEMMA AbsentStep ==
    ASSUME TypeOK, Shaped, Looks, Safely, Absent, Next, taint = {}
    PROVE  Absent'
<1> SUFFICES ASSUME Looked' PROVE Quiet'
  BY DEF Absent
<1>1. Looked \/ Quiet
  <2>1. CASE Ends("https") \/ Serves("https")
    BY <2>1, LookedInside
  <2>2. CASE Executes \/ Requests
    BY <2>2, LookedExecuting, LookedOutside
  <2>3. CASE /\ pc'["https"] = pc["https"] /\ stack'["https"] = stack["https"]
             /\ val'["https"] = val["https"]
    BY <2>3 DEF Looked, Base
  <2> QED
    BY <2>1, <2>2, <2>3, OthersStay
<1>2. ~Spawn("https")
  BY LookedExecuting DEF Executes
<1> QED
  BY <1>1, <1>2, QuietKept DEF Absent

-----------------------------------------------------------------------------
(* The display                                                             *)

LEMMA IdKept ==
    ASSUME TypeOK, Shaped, proc.id > 0, Next, taint' = {}
    PROVE  proc'.id > 0 \/ display' = "original"
<1>1. ASSUME proc'.id = proc.id PROVE proc'.id > 0
  BY <1>1
<1>2. ASSUME NEW t \in Threads, Ends(t) PROVE proc'.id > 0 \/ display' = "original"
  <2>1. CASE Finish(t)
    BY <2>1 DEF Finish, Revert
  <2>2. CASE Terminate(t) \/ GroupEnded(t) \/ BeginUndo(t) \/ EndUndo(t)
    <3>1. \/ proc' = proc
          \/ proc' = [proc EXCEPT !.placebo = FALSE]
          \/ proc' = [proc EXCEPT !.child = "none", !.group = FALSE]
          \/ proc' = [proc EXCEPT !.it = @ - 1]
      BY <2>2 DEF Terminate, GroupEnded, BeginUndo, EndUndo
    <3> QED
      BY <1>1, <3>1, ProcTyped
  <2> QED
    BY <1>2, <2>1, <2>2 DEF Ends
<1>3. ASSUME NEW t \in Threads, Serves(t) PROVE proc'.id > 0
  <2>1. proc' = proc \/ proc' = [proc EXCEPT !.placebo = TRUE]
    BY <1>3, ServesApart DEF Apart
  <2> QED
    BY <1>1, <2>1, ProcTyped
<1>4. ASSUME Executes PROVE proc'.id > 0
  <2>1. request.app \in Apps
    <3>1. pc["https"] \in InExecute /\ "https" \in Threads
      BY <1>4 DEF Executes, Find, Prepare, Prepared, Spawn, Failed, At, InExecute, Threads
    <3> QED
      BY <3>1, ShapeInside DEF Executing
  <2>2. \/ proc' = proc
        \/ proc' = [proc EXCEPT !.id = request.app, !.app = request.app, !.it = 0]
        \/ proc' = [proc EXCEPT !.it = @ + 1]
        \/ proc' = [proc EXCEPT !.placebo = TRUE]
        \/ proc' = [proc EXCEPT !.child = "up", !.group = TRUE]
    BY <1>4 DEF Executes, Find, Prepare, Prepared, Spawn, Failed
  <2>3. proc'.id = proc.id \/ proc'.id = request.app
    BY <2>2, ProcTyped
  <2> QED
    BY <1>1, <2>1, <2>3, ProcTyped
<1>5. ASSUME Exits PROVE proc'.id > 0
  <2>1. CASE AppExits
    <3>1. PICK code \in {"ok", "failed"}, g \in BOOLEAN :
              proc' = [proc EXCEPT !.child = code, !.group = g]
      BY <2>1 DEF AppExits
    <3> QED
      BY <1>1, <3>1, ProcTyped
  <2>2. CASE GroupExits
    BY <1>1, <2>2, ProcTyped DEF GroupExits
  <2> QED
    BY <1>5, <2>1, <2>2 DEF Exits
<1>6. ASSUME SaveApps PROVE FALSE
  BY <1>6 DEF SaveApps, Refresh, Note
<1>7. ASSUME Requests \/ Others \/ Bystands PROVE proc'.id > 0
  BY <1>1, <1>7, RequestsApart DEF Apart
<1> QED
  BY <1>2, <1>3, <1>4, <1>5, <1>6, <1>7, StepKinds

LEMMA OwesKept ==
    ASSUME TypeOK, Shaped, Owes, Next, taint' = {}
    PROVE  Owes' \/ proc'.id > 0 \/ display' = "original"
<1>1. /\ ThreadsTyped /\ "https" \in Threads /\ request.revert
      /\ {0, 404} \subseteq Vals
  BY TypesKnown DEF Threads, Owes
<1>2. CASE Ends("https")
  <2>1. /\ pc["https"] \in Ending /\ request' = request
        /\ stack["https"] = <<"find", "executed">>
    <3>1. pc["https"] \in Ending
      BY <1>2 DEF Ends, Terminate, GroupEnded, BeginUndo, EndUndo, Finish, At, Ending,
         InTerminate
    <3>2. request' = request
      BY <1>1, <1>2, EndingMoves DEF Ends
    <3> QED
      BY <3>1, <3>2 DEF Owes, Ending, InTerminate
  <2>2. CASE Finish("https")
    <3>1. pc'["https"] = "find"
      BY <1>1, <2>1, <2>2, ExecuteFrames DEF Finish, Return, ThreadsTyped
    <3> QED
      BY <1>1, <2>1, <3>1 DEF Owes
  <2>3. CASE Terminate("https") \/ GroupEnded("https") \/ BeginUndo("https")
             \/ EndUndo("https")
    <3>1. stack' = stack
      BY <2>3 DEF Terminate, GroupEnded, BeginUndo, EndUndo, Goto
    <3> QED
      BY <1>1, <2>1, <3>1 DEF Owes
  <2> QED
    BY <1>2, <2>2, <2>3 DEF Ends
<1>3. CASE Serves("https")
  <2>1. pc["https"] \in Called \ Ending
    BY <1>3 DEF Serves, Running, ReturnZero, Count, Clear, Join, LastSession, Joined,
       Erase, At, Ending, InTerminate, Called, Returns
  <2>2. stack["https"] # <<"find", "executed">>
    BY <1>1, <2>1, ShapeInside, NotExecuting
  <2> QED
    BY <2>1, <2>2 DEF Owes, Called, InTerminate, Returns
<1>4. CASE Executes
  <2>1. /\ pc["https"] \in InExecute /\ request' = request
        /\ stack["https"] = <<"executed">> /\ request.app \in Apps
    <3>1. pc["https"] \in InExecute
      BY <1>4 DEF Executes, Find, Prepare, Prepared, Spawn, Failed, At, InExecute
    <3> QED
      BY <1>1, <1>4, <3>1, ExecuteMoves, ShapeInside
         DEF Executes, Executing, InExecute, InTerminate
  <2>2. pc["https"] = "find"
    BY <2>1, NotExecuting DEF Owes, InExecute
  <2>3. Find("https")
    BY <1>4, <2>2 DEF Executes, Prepare, Prepared, Spawn, Failed, At
  <2>4. CASE Return("https", 404)
    <3>1. pc'["https"] = "executed" /\ val'["https"] = 404
      BY <1>1, <2>1, <2>4, ExecuteFrames DEF Return, Kept, ThreadsTyped
    <3> QED
      BY <1>1, <2>1, <3>1 DEF Owes
  <2>5. CASE proc' = [proc EXCEPT !.id = request.app, !.app = request.app, !.it = 0]
    <3>1. proc'.id = request.app
      BY <2>5, ProcTyped
    <3> QED
      BY <2>1, <3>1, ProcTyped
  <2> QED
    BY <2>3, <2>4, <2>5 DEF Find
<1>5. CASE Requests
  <2>1. stack["https"] = <<>> /\ pc["https"] \in {"probe", "begin", "refuse", "executed"}
    <3>1. pc["https"] \in Outside \cup {"executed"}
      BY <1>5, OutsideFacts
         DEF Requests, LaunchIfFree, ConfigureToLaunch, Probe, Begin, Raise, Refuse,
           ResumeIfRunning, ConfigureToResume, Reprobe, Allow, CancelApp,
           CancelReverts, Serverinfo, Launch, Resume, Cancel, Serve, At
    <3>2. stack["https"] = <<>>
      BY <1>1, <3>1, ShapeInside
    <3> QED
      BY <3>1, <3>2, NotExecuting DEF Owes, Outside, InExecute
  <2>2. Probe \/ Begin \/ Raise \/ Refuse
    BY <1>5, <2>1
       DEF Requests, LaunchIfFree, ConfigureToLaunch, ResumeIfRunning,
         ConfigureToResume, Reprobe, Allow, CancelApp, CancelReverts, Serverinfo,
         Launch, Resume, Cancel, Serve, At
  <2>3. CASE Probe
    <3>1. pc'["https"] \in {"begin", "refuse"} /\ request' = request
      BY <1>1, <2>3 DEF Probe, Goto, ThreadsTyped, reqVars
    <3> QED
      BY <1>1, <3>1 DEF Owes
  <2>4. CASE Begin
    <3>1. request' = request
      BY <2>4 DEF Begin, reqVars
    <3>2. \/ pc'["https"] = "refuse"
          \/ stack'["https"] = <<"find", "executed">>
          \/ pc'["https"] = "executed" /\ request.app = NoApp
      BY <1>1, <2>1, <2>4, ExecuteFrames DEF Begin, Goto, Enter, ThreadsTyped
    <3> QED
      BY <1>1, <3>1, <3>2 DEF Owes
  <2>5. CASE Raise
    <3>1. pc["https"] = "executed"
      BY <2>5 DEF Raise, At
    <3>2. request.app = NoApp \/ val["https"] # 0
      BY <2>1, <3>1, NotExecuting DEF Owes
    <3>3. request.app # NoApp
      BY <2>5 DEF Raise, Note, NoApp
    <3>4. request.app > 0
      BY <3>3, TypesKnown, AppHostAssumption
    <3>5. pc'["https"] = "refuse" /\ request' = request
      BY <1>1, <2>5, <3>2, <3>3, <3>4 DEF Raise, Goto, ThreadsTyped
    <3> QED
      BY <1>1, <3>5 DEF Owes
  <2>6. CASE Refuse
    BY <1>1, <2>6 DEF Refuse, Revert
  <2> QED
    BY <2>2, <2>3, <2>4, <2>5, <2>6
<1>6. CASE /\ pc'["https"] = pc["https"] /\ stack'["https"] = stack["https"]
           /\ val'["https"] = val["https"] /\ request' = request
  BY <1>6 DEF Owes
<1> QED
  BY <1>2, <1>3, <1>4, <1>5, <1>6, OthersStay

\* What makes the display something else than it was found.
LEMMA DisplayMoves ==
    ASSUME TypeOK, Shaped, Next
    PROVE  \/ display' \in {display, "original"}
           \/ ConfigureToLaunch /\ val["https"] = 0
           \/ ConfigureToResume /\ val["https"] = 0
<1>1. ASSUME NEW t \in Threads, Ends(t) PROVE display' \in {display, "original"}
  BY <1>1 DEF Ends, Terminate, GroupEnded, BeginUndo, EndUndo, Finish, Revert
<1>2. ASSUME NEW t \in Threads, Serves(t) PROVE display' \in {display, "original"}
  BY <1>2 DEF Serves, Running, ReturnZero, Count, Clear, Join, LastSession, Joined, Erase,
     Revert
<1>3. ASSUME Executes \/ Exits \/ SaveApps PROVE display' = display
  BY <1>3 DEF Executes, Find, Prepare, Prepared, Spawn, Failed, Exits, AppExits,
     GroupExits, SaveApps, Refresh
<1>4. ASSUME Others \/ Bystands PROVE display' = display
  BY <1>4 DEF Others, DisabledEndsApp, CloseApp, DisableClient, Scan, Answer,
     SessionStarts, PeerConnects, PopReturns, Reap, Bystands, LaunchExpires,
     SessionStops
<1>5. ASSUME Requests
      PROVE  \/ display' \in {display, "original"}
             \/ ConfigureToLaunch /\ val["https"] = 0
             \/ ConfigureToResume /\ val["https"] = 0
  <2>1. CASE LaunchIfFree \/ ConfigureToLaunch \/ Probe \/ Begin \/ Raise \/ Refuse
    BY <2>1 DEF LaunchIfFree, ConfigureToLaunch, Probe, Begin, Raise, Refuse, Revert
  <2>2. CASE ResumeIfRunning \/ ConfigureToResume \/ Reprobe \/ Allow
    BY <2>2 DEF ResumeIfRunning, ConfigureToResume, Reprobe, Allow
  <2>3. CASE CancelApp \/ CancelReverts \/ Serverinfo \/ Launch \/ Resume \/ Cancel
    BY <2>3 DEF CancelApp, CancelReverts, Serverinfo, Launch, Resume, Cancel, Revert
  <2> QED
    BY <1>5, <2>1, <2>2, <2>3 DEF Requests
<1> QED
  BY <1>1, <1>2, <1>3, <1>4, <1>5, StepKinds

LEMMA ConfiguredStep ==
    ASSUME TypeOK, Shaped, Configured, Next, taint' = {}
    PROVE  Configured'
<1> SUFFICES ASSUME display' = "changed" PROVE proc'.id > 0 \/ Owes'
  BY DEF Configured
<1>1. CASE ConfigureToLaunch /\ val["https"] = 0
  <2>1. /\ request' = [request EXCEPT !.revert = TRUE]
        /\ pc'["https"] = "probe"
    BY <1>1, TypesKnown DEF ConfigureToLaunch, Goto, ThreadsTyped, Threads
  <2>2. request'.revert
    BY <2>1 DEF TypeOK
  <2> QED
    BY <2>1, <2>2 DEF Owes
<1>2. CASE ConfigureToResume /\ val["https"] = 0
  BY <1>2 DEF ConfigureToResume, Note
<1>3. CASE display = "changed"
  <2>1. proc.id > 0 \/ Owes
    BY <1>3 DEF Configured
  <2> QED
    BY <2>1, IdKept, OwesKept
<1> QED
  BY <1>1, <1>2, <1>3, DisplayMoves

-----------------------------------------------------------------------------
(* Types                                                                   *)

Procs == [id : Apps \cup {0, -1}, app : Apps \cup {NoApp},
          placebo : BOOLEAN, child : {"none", "up", "ok", "failed"},
          group : BOOLEAN, it : Int]

LEMMA ProcStep ==
    ASSUME TypeOK, Shaped, Next
    PROVE  proc' \in Procs
<1>1. proc \in Procs
  BY DEF TypeOK, Procs
<1>2. ASSUME NEW t \in Threads, Ends(t) PROVE proc' \in Procs
  <2>1. \/ proc' = proc
        \/ proc' = [proc EXCEPT !.placebo = FALSE]
        \/ proc' = [proc EXCEPT !.child = "none", !.group = FALSE]
        \/ proc' = [proc EXCEPT !.it = proc.it - 1]
        \/ proc' = [proc EXCEPT !.id = -1]
    BY <1>2 DEF Ends, Terminate, GroupEnded, BeginUndo, EndUndo, Finish
  <2>2. CASE proc' = [proc EXCEPT !.it = proc.it - 1]
    <3>1. proc.it - 1 \in Int
      BY ProcTyped
    <3> QED
      BY <1>1, <2>2, <3>1 DEF Procs
  <2>3. CASE \/ proc' = proc
             \/ proc' = [proc EXCEPT !.placebo = FALSE]
             \/ proc' = [proc EXCEPT !.child = "none", !.group = FALSE]
    BY <1>1, <2>3 DEF Procs
  <2>4. CASE proc' = [proc EXCEPT !.id = -1]
    BY <1>1, <2>4 DEF Procs
  <2> QED
    BY <2>1, <2>2, <2>3, <2>4
<1>3. ASSUME NEW t \in Threads, Serves(t) PROVE proc' \in Procs
  <2>1. proc' = proc \/ proc' = [proc EXCEPT !.placebo = TRUE]
    BY <1>3, ServesApart DEF Apart
  <2> QED
    BY <1>1, <2>1 DEF Procs
<1>4. ASSUME Executes PROVE proc' \in Procs
  <2>1. request.app \in Apps
    <3>1. pc["https"] \in InExecute /\ "https" \in Threads
      BY <1>4 DEF Executes, Find, Prepare, Prepared, Spawn, Failed, At, InExecute, Threads
    <3> QED
      BY <3>1, ShapeInside DEF Executing
  <2>2. \/ proc' = proc
        \/ proc' = [proc EXCEPT !.id = request.app, !.app = request.app, !.it = 0]
        \/ proc' = [proc EXCEPT !.it = proc.it + 1]
        \/ proc' = [proc EXCEPT !.placebo = TRUE]
        \/ proc' = [proc EXCEPT !.child = "up", !.group = TRUE]
    BY <1>4 DEF Executes, Find, Prepare, Prepared, Spawn, Failed
  <2>3. CASE proc' = [proc EXCEPT !.it = proc.it + 1]
    <3>1. proc.it + 1 \in Int
      BY ProcTyped
    <3> QED
      BY <1>1, <2>3, <3>1 DEF Procs
  <2>4. CASE proc' = [proc EXCEPT !.id = request.app, !.app = request.app, !.it = 0]
    <3>1. /\ request.app \in Apps \cup {0, -1} /\ request.app \in Apps \cup {NoApp}
          /\ 0 \in Int
      BY <2>1
    <3> QED
      BY <1>1, <2>4, <3>1 DEF Procs
  <2>5. CASE \/ proc' = proc
             \/ proc' = [proc EXCEPT !.placebo = TRUE]
             \/ proc' = [proc EXCEPT !.child = "up", !.group = TRUE]
    BY <1>1, <2>5 DEF Procs
  <2> QED
    BY <2>2, <2>3, <2>4, <2>5
<1>5. ASSUME Exits PROVE proc' \in Procs
  <2>1. CASE AppExits
    <3>1. PICK code \in {"ok", "failed"}, g \in BOOLEAN :
              proc' = [proc EXCEPT !.child = code, !.group = g]
      BY <2>1 DEF AppExits
    <3> QED
      BY <1>1, <3>1 DEF Procs
  <2>2. CASE GroupExits
    BY <1>1, <2>2 DEF GroupExits, Procs
  <2> QED
    BY <1>5, <2>1, <2>2 DEF Exits
<1>6. ASSUME SaveApps PROVE proc' \in Procs
  BY <1>6 DEF SaveApps, Refresh, NoProc, NoApp, Procs
<1>7. ASSUME Requests \/ Others \/ Bystands PROVE proc' \in Procs
  BY <1>1, <1>7, RequestsApart DEF Apart
<1> QED
  BY <1>2, <1>3, <1>4, <1>5, <1>6, <1>7, StepKinds

LEMMA OwedStep ==
    ASSUME TypeOK, Shaped, Next
    PROVE  owed' \in SUBSET (Apps \X (Nat \ {0}))
<1>1. owed \in SUBSET (Apps \X (Nat \ {0}))
  BY DEF TypeOK
<1>2. ASSUME NEW t \in Threads, Ends(t) PROVE owed' \subseteq owed
  BY <1>2 DEF Ends, Terminate, GroupEnded, BeginUndo, EndUndo, Finish
<1>3. ASSUME NEW t \in Threads, Serves(t) PROVE owed' = owed
  BY <1>3 DEF Serves, Running, ReturnZero, Count, Clear, Join, LastSession, Joined, Erase
<1>4. ASSUME Executes PROVE owed' \in SUBSET (Apps \X (Nat \ {0}))
  <2>1. CASE Prepare("https")
    <3>1. proc.it \in 0 .. Len(PrepsOf(proc.app)) - 1
      BY <2>1 DEF Prepare
    <3>2. proc.app \in Apps /\ proc.it + 1 \in Nat \ {0}
      <4>1. Len(PrepsOf(proc.app)) # 0
        BY <3>1, PrepsTyped
      <4> QED
        BY <3>1, <4>1 DEF PrepsOf
    <3>3. owed' = owed \/ owed' = owed \cup {<<proc.app, proc.it + 1>>}
      BY <2>1 DEF Prepare
    <3> QED
      BY <1>1, <3>2, <3>3
  <2>2. CASE Find("https") \/ Prepared("https") \/ Spawn("https") \/ Failed("https")
    BY <1>1, <2>2 DEF Find, Prepared, Spawn, Failed
  <2> QED
    BY <1>4, <2>1, <2>2 DEF Executes
<1>5. ASSUME Exits \/ SaveApps PROVE owed' = owed
  BY <1>5 DEF Exits, AppExits, GroupExits, SaveApps, Refresh
<1>6. ASSUME Requests \/ Others \/ Bystands PROVE owed' = owed
  BY <1>6, RequestsApart DEF Apart
<1> QED
  BY <1>1, <1>2, <1>3, <1>4, <1>5, <1>6, StepKinds

\* The variables that are not proc_t's nor the threads'.
Rest ==
    /\ display \in {"original", "changed"}
    /\ pending \in BOOLEAN
    /\ sess \in [state : {"none", "waiting", "running", "stopping", "joining"},
                 ended : BOOLEAN, awaited : BOOLEAN]
    /\ request \in [app : Apps \cup {NoApp}, revert : BOOLEAN]
    /\ served \in [{"https", "web"} -> Nat]
    /\ taint \subseteq {"overlap", "refresh", "late", "none"}
    /\ crashed \in BOOLEAN

LEMMA RestStep ==
    ASSUME TypeOK, Shaped, Next
    PROVE  Rest'
<1>1. Rest
  BY DEF TypeOK, Rest
<1>2. ASSUME NEW t \in Threads, Ends(t) PROVE Rest'
  <2>1. /\ UNCHANGED <<pending, sess, request, served>>
        /\ display' \in {display, "original"} /\ crashed' \in BOOLEAN
        /\ taint' \subseteq taint \cup {"overlap"}
    <3>1. CASE Terminate(t)
      BY <1>1, <3>1 DEF Terminate, Note, Overlap, reqVars, Rest
    <3>2. CASE GroupEnded(t) \/ EndUndo(t) \/ Finish(t)
      BY <1>1, <3>2 DEF GroupEnded, EndUndo, Finish, Revert, reqVars, noteVars, Rest
    <3>3. CASE BeginUndo(t)
      BY <3>3 DEF BeginUndo, reqVars
    <3> QED
      BY <1>2, <3>1, <3>2, <3>3 DEF Ends
  <2> QED
    BY <1>1, <2>1 DEF Rest
<1>3. ASSUME NEW t \in Threads, Serves(t) PROVE Rest'
  <2>1. /\ UNCHANGED <<pending, request, served, crashed>>
        /\ display' \in {display, "original"}
        /\ taint' \subseteq taint \cup {"overlap"}
        /\ \/ sess' = sess \/ sess' = NoSession
           \/ sess' = [sess EXCEPT !.state = "stopping"]
           \/ sess' = [sess EXCEPT !.state = "joining"]
    <3>1. CASE Running(t)
      BY <3>1 DEF Running, Note, Overlap, reqVars
    <3>2. CASE ReturnZero(t) \/ Count(t) \/ Clear(t) \/ Join(t)
      BY <3>2 DEF ReturnZero, Count, Clear, Join, reqVars, noteVars
    <3>3. CASE LastSession(t) \/ Joined(t) \/ Erase(t)
      BY <3>3 DEF LastSession, Joined, Erase, Revert, reqVars, noteVars
    <3> QED
      BY <1>3, <3>1, <3>2, <3>3 DEF Serves
  <2>2. sess' \in [state : {"none", "waiting", "running", "stopping", "joining"},
                   ended : BOOLEAN, awaited : BOOLEAN]
    <3>1. CASE sess' = NoSession
      BY <3>1 DEF NoSession
    <3>2. CASE \/ sess' = sess \/ sess' = [sess EXCEPT !.state = "stopping"]
               \/ sess' = [sess EXCEPT !.state = "joining"]
      BY <1>1, <3>2 DEF Rest
    <3> QED
      BY <2>1, <3>1, <3>2
  <2> QED
    BY <1>1, <2>1, <2>2 DEF Rest
<1>4. ASSUME Executes PROVE Rest'
  <2>1. UNCHANGED <<display, pending, sess, request, served, taint>> /\ crashed' \in BOOLEAN
    <3>1. CASE Prepared("https")
      BY <3>1 DEF Prepared, reqVars
    <3>2. CASE Find("https") \/ Prepare("https") \/ Spawn("https") \/ Failed("https")
      BY <1>1, <3>2 DEF Find, Prepare, Spawn, Failed, reqVars, noteVars, Rest
    <3> QED
      BY <1>4, <3>1, <3>2 DEF Executes
  <2> QED
    BY <1>1, <2>1 DEF Rest
<1>5. ASSUME Exits \/ SaveApps PROVE Rest'
  <2>1. /\ UNCHANGED <<display, pending, sess, request, crashed>>
        /\ taint' \subseteq taint \cup {"overlap", "refresh"}
        /\ served' = served \/ served' = [served EXCEPT !["web"] = @ + 1]
    BY <1>5 DEF Exits, AppExits, GroupExits, SaveApps, Serve, Refresh, Note, Overlap,
       reqVars, noteVars
  <2> QED
    BY <1>1, <2>1 DEF Rest
<1>6. ASSUME Requests PROVE Rest'
  <2>1. /\ UNCHANGED <<sess, crashed>>
        /\ display' \in {display, "original", "changed"}
        /\ pending' \in {pending, TRUE}
        /\ taint' \subseteq taint \cup {"late", "none"}
        /\ served' = served \/ served' = [served EXCEPT !["https"] = @ + 1]
        /\ \/ request' = request
           \/ request' = [request EXCEPT !.revert = TRUE]
           \/ \E a \in Apps \cup {NoApp} : request' = [app |-> a, revert |-> FALSE]
    <3>1. CASE LaunchIfFree \/ ConfigureToLaunch \/ Probe
      BY <3>1 DEF LaunchIfFree, ConfigureToLaunch, Probe, Configure, NoRequest, noteVars,
         reqVars
    <3>2. CASE Begin \/ Raise \/ Refuse
      BY <3>2 DEF Begin, Raise, Refuse, Revert, Note, NoRequest, noteVars, reqVars
    <3>3. CASE ResumeIfRunning \/ ConfigureToResume \/ Reprobe \/ Allow
      BY <3>3 DEF ResumeIfRunning, ConfigureToResume, Reprobe, Allow, Configure, Note,
         noteVars, reqVars
    <3>4. CASE CancelApp \/ CancelReverts
      BY <3>4 DEF CancelApp, CancelReverts, Revert, noteVars, reqVars
    <3>5. CASE Serverinfo \/ Launch \/ Resume \/ Cancel
      BY <3>5 DEF Serverinfo, Launch, Resume, Cancel, Serve, noteVars
    <3> QED
      BY <1>6, <3>1, <3>2, <3>3, <3>4, <3>5 DEF Requests
  <2>2. request' \in [app : Apps \cup {NoApp}, revert : BOOLEAN]
    <3>1. CASE request' = request \/ request' = [request EXCEPT !.revert = TRUE]
      BY <1>1, <3>1 DEF Rest
    <3>2. CASE \E a \in Apps \cup {NoApp} : request' = [app |-> a, revert |-> FALSE]
      BY <3>2
    <3> QED
      BY <2>1, <3>1, <3>2
  <2>3. served' \in [{"https", "web"} -> Nat]
    BY <1>1, <2>1 DEF Rest
  <2> QED
    BY <1>1, <2>1, <2>2, <2>3 DEF Rest
<1>7. ASSUME Others \/ Bystands PROVE Rest'
  <2>1. /\ UNCHANGED <<display, request, taint, crashed>>
        /\ pending' \in {pending, FALSE}
        /\ served' = served \/ served' = [served EXCEPT !["web"] = @ + 1]
    <3>1. CASE DisabledEndsApp \/ CloseApp \/ DisableClient
      BY <3>1 DEF DisabledEndsApp, CloseApp, DisableClient, Serve, noteVars, reqVars
    <3>2. CASE \/ Scan \/ Answer \/ SessionStarts \/ PeerConnects \/ PopReturns
               \/ Reap \/ Bystands
      BY <3>2 DEF Scan, Answer, SessionStarts, PeerConnects, PopReturns, Reap,
         Bystands, LaunchExpires, SessionStops, noteVars, reqVars
    <3> QED
      BY <1>7, <3>1, <3>2 DEF Others
  <2>2. sess' \in [state : {"none", "waiting", "running", "stopping", "joining"},
                   ended : BOOLEAN, awaited : BOOLEAN]
    <3>1. CASE DisabledEndsApp \/ CloseApp \/ DisableClient \/ Reap \/ LaunchExpires
      BY <1>1, <3>1
         DEF DisabledEndsApp, CloseApp, DisableClient, Reap, LaunchExpires, Rest
    <3>2. CASE SessionStarts \/ SessionStops \/ PeerConnects \/ PopReturns
      BY <1>1, <3>2 DEF SessionStarts, SessionStops, PeerConnects, PopReturns, Rest
    <3>3. CASE Scan
      BY <1>1, <3>3 DEF Scan, Rest
    <3>4. CASE Answer
      BY <1>1, <3>4 DEF Answer, Rest
    <3> QED
      BY <1>7, <3>1, <3>2, <3>3, <3>4 DEF Others, Bystands
  <2>3. served' \in [{"https", "web"} -> Nat]
    BY <1>1, <2>1 DEF Rest
  <2>4. pending' \in BOOLEAN
    BY <1>1, <2>1 DEF Rest
  <2> QED
    BY <1>1, <2>1, <2>2, <2>3, <2>4 DEF Rest
<1> QED
  BY <1>2, <1>3, <1>4, <1>5, <1>6, <1>7, StepKinds

-----------------------------------------------------------------------------
(* The theorems                                                            *)

LEMMA InvInit ==
    ASSUME Init
    PROVE  Inv
<1>1. TypeOK
  <2>1. 0 \in 0 .. Len(PrepsOf(NoApp))
    BY PrepsTyped
  <2>2. /\ proc.id = 0 /\ proc.app = NoApp /\ proc.it = 0
        /\ proc \in Procs
    BY DEF Init, NoProc, NoApp, Procs
  <2>3. ThreadsTyped
    BY OutsideFacts DEF Init, ThreadsTyped, Vals
  <2>4. Rest
    BY DEF Init, Rest, NoRequest, NoSession
  <2>5. owed \in SUBSET (Apps \X (Nat \ {0}))
    BY DEF Init
  <2> QED
    BY <2>1, <2>2, <2>3, <2>4, <2>5 DEF TypeOK, Procs, ThreadsTyped, Vals, Rest
<1>2. /\ \A t \in Threads : pc[t] \in {"idle", "off"} /\ stack[t] = <<>>
      /\ Base = "idle" /\ pc["https"] = "idle"
  BY DEF Init, Base, Threads
<1>3. Shaped /\ Looks
  BY <1>2, OutsideFacts DEF Shaped, Looks
<1>4. /\ ~proc.placebo /\ proc.child = "none" /\ ~proc.group
      /\ proc.id = 0 /\ proc.app = NoApp /\ proc.it = 0 /\ owed = {}
      /\ display = "original"
  BY DEF Init, NoProc
<1>5. OneInside /\ Stages /\ Clean
  BY <1>2, <1>4 DEF OneInside, Inside, InTerminate, InExecute, Stages, Stage, Clean, Quiet
<1>6. Undone
  BY <1>2, <1>4, NothingOwed DEF Undone
<1>7. Absent /\ Configured
  BY <1>4 DEF Absent, Quiet, Configured
<1> QED
  BY <1>1, <1>3, <1>5, <1>6, <1>7 DEF Inv, Tracks

LEMMA InvStep ==
    ASSUME Inv, [Next]_vars
    PROVE  Inv'
<1>1. TypeOK /\ Shaped /\ Looks /\ (taint = {} => Tracks)
  BY DEF Inv
<1>2. CASE UNCHANGED vars
  BY <1>2 DEF vars, threadVars, noteVars, reqVars, Inv, TypeOK, Shaped, Executing, Looks, Base,
     Tracks, OneInside, Inside, Stages, Stage, Clean, Quiet, Undone, Absent, Looked, Configured, Owes
<1>3. CASE Next
  <2>1. Shaped' /\ Looks' /\ ThreadsTyped'
    BY <1>1, <1>3, ShapedStep, LooksStep
  <2>2. taint \subseteq taint'
    BY <1>1, <1>3, TaintGrows
  <2>3. ASSUME taint' = {}
        PROVE  Tracks' /\ proc'.it \in 0 .. Len(PrepsOf(proc'.app))
    <3>1. taint = {} /\ Tracks /\ Safely
      BY <1>1, <2>2, <2>3 DEF Tracks, Safely
    <3>2. Safely' /\ proc'.it \in 0 .. Len(PrepsOf(proc'.app))
      BY <1>1, <1>3, <2>3, <3>1, SafelyStep
    <3>3. Absent' /\ Configured'
      BY <1>1, <1>3, <2>3, <3>1, AbsentStep, ConfiguredStep DEF Tracks
    <3> QED
      BY <3>2, <3>3 DEF Safely, Tracks
  <2>4. TypeOK'
    BY <1>1, <1>3, <2>1, <2>3, ProcStep, OwedStep, RestStep
       DEF TypeOK, Procs, Rest, ThreadsTyped, Vals
  <2> QED
    BY <2>1, <2>3, <2>4 DEF Inv
<1> QED
  BY <1>2, <1>3

(* All that the proofs above know of apps, displays, sessions and requests *)
(* holds all the time.                                                     *)
THEOREM Invariance == Spec => []Inv
<1>1. Init => Inv
  BY InvInit
<1>2. Inv /\ [Next]_vars => Inv'
  BY InvStep
<1> QED
  BY <1>1, <1>2, PTL DEF Spec

\* Each preparation command that has succeeded is undone exactly once, however
\* the app ends: what is owed is what terminate() has yet to run.
THEOREM PreparationIsUndone == Spec => []UndoAccounted
<1>1. Inv => UndoAccounted
  BY DEF Inv, Tracks, Undone, UndoAccounted
<1> QED
  BY <1>1, Invariance, PTL

\* When proc_t says that no app is on, no process, no placebo and no command
\* to undo is left of one; and once no session, launch or request is under way
\* either, the display is as it was found.
THEOREM AppsLeaveNothing == Spec => []NothingLeftBehind
<1>1. Inv => IdleIsClean
  <2> SUFFICES ASSUME Inv, taint = {}, proc.id <= 0, \A t \in Threads : ~Inside(t)
               PROVE  ~proc.placebo /\ proc.child = "none" /\ owed = {}
    BY DEF IdleIsClean
  <2>1. Quiet /\ proc.it = 0
    BY DEF Inv, Tracks, Clean
  <2>2. ~\E t \in Threads : pc[t] = "undoing"
    BY DEF Inside, InTerminate
  <2>3. owed = {}
    BY <2>1, <2>2, NothingOwed DEF Inv, Tracks, Undone
  <2> QED
    BY <2>1, <2>3 DEF Quiet
<1>2. Inv => DisplayRestored
  <2> SUFFICES ASSUME Inv, taint = {}, proc.id <= 0, pc["https"] = "idle"
               PROVE  display = "original"
    BY DEF DisplayRestored
  <2>1. stack["https"] = <<>>
    BY ShapeInside, OutsideFacts DEF Inv, Threads
  <2>2. ~Owes
    BY <2>1, NotExecuting DEF Owes
  <2>3. ~(proc.id > 0)
    BY ProcTyped DEF Inv
  <2> QED
    BY <2>2, <2>3 DEF Inv, Tracks, Configured, TypeOK
<1>3. Inv => NothingLeftBehind
  BY <1>1, <1>2 DEF NothingLeftBehind
<1> QED
  BY <1>3, Invariance, PTL

\* The terminate() that execute() begins with ends no app, long as it may be
\* since the launch has looked for one.
THEOREM LaunchFindsNoApp == Spec => []LaunchEndsNoApp
<1>1. Inv => LaunchEndsNoApp
  <2> SUFFICES ASSUME Inv, taint = {}, pc["https"] = "terminate",
                      Head(stack["https"]) = "find"
               PROVE  ~Lives
    BY DEF LaunchEndsNoApp
  <2>1. stack["https"] \notin Stacks
    BY Popped DEF Returns, Callers, Outside, InExecute
  <2>2. stack["https"] \in {<<"find", "executed">>, <<"failed", "executed">>}
    BY <2>1, ShapeInside DEF Inv, Threads, Ending, Executing, InExecute
  <2>3. stack["https"] = <<"find", "executed">>
    BY <2>2, ExecuteFrames
  <2>4. Quiet
    BY <2>3 DEF Inv, Tracks, Absent, Looked
  <2> QED
    BY <2>4 DEF Quiet, Lives
<1> QED
  BY <1>1, Invariance, PTL

=============================================================================
