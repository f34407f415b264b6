----------------------------- MODULE PingRouting -----------------------------
(***************************************************************************)
(* How a stream learns where its client listens: recvThread, recv_ping and *)
(* the queues between them, in stream.cpp. The video and the audio thread  *)
(* of a session each register a message queue under the session's id, and  *)
(* for legacy clients under its address, and wait for a ping. One thread   *)
(* receives on both sockets; it takes up registrations, which reach it     *)
(* through a bounded queue, when a datagram comes in.                      *)
(*                                                                         *)
(* Both asynchronous receives write the sender to one variable, peer. A    *)
(* receive that is started while a datagram is waiting completes at once,  *)
(* and its handler runs later: that of the other socket may come first.    *)
(*                                                                         *)
(* Variables for what the code gives up on: registrations that a full      *)
(* queue lost (dropped), legacy sessions at one address at a time (rivals),*)
(* handlers that found another datagram's sender in peer (crossed).        *)
(***************************************************************************)
EXTENDS Integers, SequencesExt

CONSTANTS
    Sessions,
    Legacy,     \* sessions without ML_FF_SESSION_ID_V1
    Addrs,      \* client addresses
    AddrOf,     \* a session's
    QueueSize,  \* max_elements of message_queue_queue
    Started,    \* bound: which threads are ever started
    MaxPings,   \* bound: datagrams the clients send
    None

Kinds == {"video", "audio"}
Threads == Sessions \X Kinds
Keys == Sessions \cup Addrs

\* A client sends each kind from a port of its own: its endpoint is the
\* thread it is meant for.
Datagram == [from : Threads, id : Sessions \cup {None}]

ASSUME PingAssumption ==
    /\ Legacy \subseteq Sessions
    /\ AddrOf \in [Sessions -> Addrs]
    /\ QueueSize \in Nat \ {0}
    /\ Started \subseteq Threads
    /\ MaxPings \in Nat
    /\ None \notin Sessions \cup Addrs \cup Threads \cup Datagram
    /\ Sessions \cap Addrs = {}

VARIABLES
    pc,        \* where a session's video or audio thread is
    inbox,     \* the messages of its queue: the endpoints they came from
    endpoint,  \* session->video.peer, session->audio.peer
    regs,      \* message_queue_queue
    routes,    \* peer_to_video_session and peer_to_audio_session
    sock,      \* datagrams that wait at a socket
    recv,      \* its receive: the datagram of one that has completed
    peer,      \* the endpoint both receives write
    pings,     \* how many datagrams were sent
    dropped, rivals, crossed    \* see above

threadVars == <<pc, inbox, endpoint>>
recvVars   == <<routes, sock, recv, peer>>
noteVars   == <<dropped, rivals, crossed>>
vars == <<threadVars, regs, recvVars, pings, noteVars>>

\* A legacy ping says only PING.
Ping(t) ==
    [from |-> t, id |-> IF t[1] \in Legacy THEN None ELSE t[1]]

TypeOK ==
    /\ pc \in [Threads -> {"off", "wait", "leave", "streams", "gone"}]
    /\ inbox \in [Threads -> Seq(Threads)]
    /\ endpoint \in [Threads -> Threads \cup {None}]
    /\ regs \in Seq([kind : Kinds, key : Keys, to : Threads \cup {None}])
    /\ Len(regs) <= QueueSize
    /\ routes \in [Kinds -> [Keys -> Threads \cup {None}]]
    /\ sock \in [Kinds -> Seq(Datagram)]
    /\ recv \in [Kinds -> Datagram \cup {None}]
    /\ peer \in Threads \cup {None}
    /\ pings \in 0 .. MaxPings
    /\ dropped \subseteq Threads
    /\ rivals \subseteq Threads
    /\ crossed \subseteq Threads

Init ==
    /\ pc = [t \in Threads |-> "off"]
    /\ inbox = [t \in Threads |-> <<>>]
    /\ endpoint = [t \in Threads |-> None]
    /\ regs = <<>>
    /\ routes = [k \in Kinds |-> [key \in Keys |-> None]]
    /\ sock = [k \in Kinds |-> <<>>]
    /\ recv = [k \in Kinds |-> None]
    /\ peer = None
    /\ pings = 0
    /\ dropped = {} /\ rivals = {} /\ crossed = {}

-----------------------------------------------------------------------------
(* recv_ping(), on a session's thread                                      *)

\* queue_t::raise() empties a queue that is full.
Raised(queue, reg) ==
    IF Len(queue) >= QueueSize THEN <<reg>> ELSE Append(queue, reg)

\* Under the address, for legacy clients, and then under the id.
KeysOf(t) ==
    IF t[1] \in Legacy THEN <<AddrOf[t[1]], t[1]>> ELSE <<t[1]>>

Regs(t, to) ==
    [i \in DOMAIN KeysOf(t) |-> [kind |-> t[2], key |-> KeysOf(t)[i], to |-> to]]

\* Threads whose registrations, or their ends, are not there any more.
Raise(t, to) ==
    /\ regs' = FoldLeft(Raised, regs, Regs(t, to))
    /\ LET lost == ToSet(regs \o Regs(t, to)) \ ToSet(regs') IN
       dropped' = dropped \cup
           {u \in Threads : \E reg \in lost :
               reg.kind = u[2] /\ reg.key \in ToSet(KeysOf(u))}

InPing(t) == pc[t] \in {"wait", "leave"}

\* A session whose client may be heard: it runs, or a datagram is left.
Heard(t) ==
    \/ pc[t] \notin {"off", "gone"}
    \/ recv[t[2]] = Ping(t)
    \/ Ping(t) \in ToSet(sock[t[2]])

Rivals(t) ==
    {u \in Threads \ {t} :
        /\ u[2] = t[2] /\ {u[1], t[1]} \subseteq Legacy
        /\ AddrOf[u[1]] = AddrOf[t[1]] /\ Heard(u)}

Register(t) ==
    /\ t \in Started
    /\ pc[t] = "off"
    /\ pc' = [pc EXCEPT ![t] = "wait"]
    /\ Raise(t, t)
    /\ rivals' = IF Rivals(t) = {} THEN rivals
                 ELSE rivals \cup Rivals(t) \cup {t}
    /\ UNCHANGED <<inbox, endpoint, recvVars, pings, crossed>>

Pop(t) ==
    /\ pc[t] = "wait"
    /\ inbox[t] # <<>>
    /\ endpoint' = [endpoint EXCEPT ![t] = Head(inbox[t])]
    /\ inbox' = [inbox EXCEPT ![t] = Tail(@)]
    /\ pc' = [pc EXCEPT ![t] = "leave"]
    /\ UNCHANGED <<regs, recvVars, pings, noteVars>>

Timeout(t) ==
    /\ pc[t] = "wait"
    /\ inbox[t] = <<>>
    /\ pc' = [pc EXCEPT ![t] = "leave"]
    /\ UNCHANGED <<inbox, endpoint, regs, recvVars, pings, noteVars>>

\* Faulty variant: the fail guard takes back the id only.
UnregisterId(t) ==
    /\ pc[t] = "leave"
    /\ pc' = [pc EXCEPT ![t] = IF endpoint[t] = None THEN "gone" ELSE "streams"]
    /\ inbox' = [inbox EXCEPT ![t] = <<>>]
    /\ regs' = Raised(regs, [kind |-> t[2], key |-> t[1], to |-> None])
    /\ UNCHANGED dropped
    /\ UNCHANGED <<endpoint, recvVars, pings, rivals, crossed>>

\* The fail guard.
Unregister(t) ==
    /\ pc[t] = "leave"
    /\ pc' = [pc EXCEPT ![t] = IF endpoint[t] = None THEN "gone" ELSE "streams"]
    /\ inbox' = [inbox EXCEPT ![t] = <<>>]
    /\ Raise(t, None)
    /\ UNCHANGED <<endpoint, recvVars, pings, rivals, crossed>>

\* The session ends.
End(t) ==
    /\ pc[t] = "streams"
    /\ pc' = [pc EXCEPT ![t] = "gone"]
    /\ endpoint' = [endpoint EXCEPT ![t] = None]
    /\ UNCHANGED <<inbox, regs, recvVars, pings, noteVars>>

-----------------------------------------------------------------------------
(* recvThread()                                                            *)

\* A client pings as long as its session lasts.
Send(t) ==
    /\ pc[t] \notin {"off", "gone"}
    /\ pings < MaxPings
    /\ pings' = pings + 1
    /\ sock' = [sock EXCEPT ![t[2]] = Append(@, Ping(t))]
    /\ UNCHANGED <<threadVars, regs, routes, recv, peer, noteVars>>

\* emplace() leaves a key that is there as it is.
TakeUp(r, reg) ==
    IF reg.to = None THEN [r EXCEPT ![reg.kind][reg.key] = None]
    ELSE IF r[reg.kind][reg.key] = None
         THEN [r EXCEPT ![reg.kind][reg.key] = reg.to]
         ELSE r

\* populate_peer_to_session()
Populate ==
    /\ routes' = FoldLeft(TakeUp, routes, regs)
    /\ regs' = <<>>

\* Faulty variant: a ping with an id is looked up by its address, too.
RouteByAddress(k, d, from) == routes'[k][AddrOf[from[1]]]

\* By the id it carries, or else by the address it is taken to come from.
Route(k, d, from) ==
    routes'[k][IF d.id = None THEN AddrOf[from[1]] ELSE d.id]

\* The handler: the datagram is passed on with the peer there is, unless its
\* queue was stopped, and the socket receives again, at once if it can. What
\* is in peer is forgotten when no handler is left to read it.
Handle(k, d, from, rest) ==
    /\ Populate
    /\ LET t == Route(k, d, from) IN
       IF t # None /\ pc[t] = "wait"
       THEN /\ inbox' = [inbox EXCEPT ![t] = Append(@, from)]
            /\ crossed' = IF from = d.from THEN crossed ELSE crossed \cup {t}
       ELSE UNCHANGED <<inbox, crossed>>
    /\ IF rest = <<>>
       THEN /\ recv' = [recv EXCEPT ![k] = None]
            /\ sock' = [sock EXCEPT ![k] = <<>>]
            /\ peer' = IF \E j \in Kinds : recv'[j] # None THEN from ELSE None
       ELSE /\ recv' = [recv EXCEPT ![k] = Head(rest)]
            /\ sock' = [sock EXCEPT ![k] = Tail(rest)]
            /\ peer' = Head(rest).from
    /\ UNCHANGED <<pc, endpoint, pings, dropped, rivals>>

\* A datagram arrives at a socket that receives.
Receive(k) ==
    /\ recv[k] = None
    /\ sock[k] # <<>>
    /\ Handle(k, Head(sock[k]), Head(sock[k]).from, Tail(sock[k]))

\* The handler of a receive that has completed when it was started.
Complete(k) ==
    /\ recv[k] # None
    /\ Handle(k, recv[k], peer, sock[k])

\* A receive that fails, for want of a port at the other end.
ReceiveFails(k) ==
    /\ recv[k] = None
    /\ sock[k] = <<>>
    /\ Populate
    /\ UNCHANGED <<threadVars, sock, recv, peer, pings, noteVars>>

-----------------------------------------------------------------------------
Next ==
    \/ \E t \in Threads :
           Register(t) \/ Pop(t) \/ Timeout(t) \/ Unregister(t) \/ End(t)
           \/ Send(t)
    \/ \E k \in Kinds : Receive(k) \/ Complete(k) \/ ReceiveFails(k)

Spec == Init /\ [][Next]_vars

-----------------------------------------------------------------------------
(* Properties                                                              *)

\* What recvThread would know if it took up everything that is queued.
Known == FoldLeft(TakeUp, routes, regs)

\* A stream sends to the endpoint its own client pinged from, on that socket,
\* unless its ping was handled with the sender of the other socket's in peer,
\* or it shares its address with another legacy session: then the code does
\* send to another's endpoint, and no test of its own can tell.
RightEndpoint ==
    /\ TypeOK
    /\ \A t \in Threads \ (crossed \cup rivals) : endpoint[t] \in {None, t}

\* A thread that waits for a ping is registered, or its registration is on
\* its way, under every key its client may use: across sessions that come
\* and go at one address, though not at once, and unless a full queue lost
\* what it or an earlier one registered.
WaitingIsRouted ==
    \A t \in Threads \ (dropped \cup rivals) :
        pc[t] = "wait" => \A key \in ToSet(KeysOf(t)) : Known[t[2]][key] = t

\* Nobody else is: a session that has left leaves nothing behind that would
\* keep the next one at its address from being registered.
NoLeftovers ==
    \A k \in Kinds, key \in Keys :
        LET t == Known[k][key] IN
        t # None /\ t \notin dropped \cup rivals => InPing(t)

\* Exactly those are registered who wait.
RegistrationsKept == WaitingIsRouted /\ NoLeftovers

=============================================================================
