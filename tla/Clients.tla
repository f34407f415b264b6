------------------------------- MODULE Clients -------------------------------
(***************************************************************************)
(* The clients that are paired with the host, in nvhttp.cpp: how a client  *)
(* gets on the list (the HTTP thread serves the four phases of pairing,    *)
(* the web thread passes on the PIN), how the list is edited (by the web   *)
(* thread) and written to and read from file_state, and how the HTTPS      *)
(* thread comes to know the certificates it verifies handshakes against.   *)
(*                                                                         *)
(* The list is kept three times: client_root in memory, file_state, and    *)
(* cert_chain, which new certificates reach through the queue add_cert.    *)
(* file_state is also where the web thread keeps its password, unless the  *)
(* configuration names another file: it reads and rewrites the whole of it.*)
(*                                                                         *)
(* Variables for what the code gives up on: a write that failed, so that   *)
(* the file lacks the list (behind), two threads at once at the list or at *)
(* its file, which have no lock (overlap), certificates that a full queue  *)
(* dropped (lost), and those of clients that left the list while they were *)
(* queued, or when there was no file to load the chain from (stale).       *)
(***************************************************************************)
EXTENDS Integers, SequencesExt

CONSTANTS
    Clients,      \* clients, each with its certificate
    Ids,          \* uniqueID, which clients choose, and may share
    MaxQueued,    \* max_elements of add_cert
    MaxAsks,      \* bound: requests for the server's certificate
    MaxEdits,     \* bound: edits of the list
    MaxFaults,    \* bound: writes that fail, and restarts
    Nobody

ASSUME ClientsAssumption ==
    /\ MaxQueued \in Nat \ {0}
    /\ {MaxAsks, MaxEdits, MaxFaults} \subseteq Nat
    /\ Nobody \notin Clients

VARIABLES
    pairing,    \* map_id_sess
    devices,    \* client_root.named_devices
    file,       \* file_state: is it readable, and its devices
    chain,      \* cert_chain
    addCert,    \* the queue add_cert
    stage,         \* where the HTTP and the web thread are
    adding,     \* the client the HTTP thread adds, and its session's id
    saving,     \* the tree each of them is about to write
    acked,      \* the list as of the last request that was completed
    behind, overlap, lost, stale,    \* see above
    asks, edits, faults                 \* requests, edits and faults so far

listVars  == <<devices, file, chain, addCert>>
saveVars  == <<stage, adding, saving, acked>>
givenUpVars  == <<behind, overlap, lost, stale>>
boundVars == <<asks, edits, faults>>
pairingVars == <<pairing, listVars, saveVars, givenUpVars, boundVars>>

Editors == {"http", "web"}

NamedCert == [cert : Clients, enabled : BOOLEAN]

Phases == {"NONE", "GETSERVERCERT", "CLIENTCHALLENGE", "SERVERCHALLENGERESP",
           "CLIENTPAIRINGSECRET"}

Stages == {"idle", "add", "save", "write", "writing", "load", "remove"}

\* list tells a tree with the list in memory from one with the file's own.
Tree == [devices : Seq(NamedCert), state : {"none", "ok"}, list : BOOLEAN,
         then : {"idle", "load", "remove"}]

\* salt and key stand for the attempt they belong to, by its client; a key is
\* right if that client's PIN was typed. hash is whose answer is right.
Session ==
    [cert : Clients, phase : Phases, salt : Clients,
     key : Clients \cup {Nobody}, hash : Clients \cup {Nobody}, waits : BOOLEAN]

PairingTypeOK ==
    /\ pairing \in [Ids -> Session \cup {Nobody}]
    /\ devices \in Seq(NamedCert)
    /\ file \in [state : {"none", "torn", "ok"}, devices : Seq(NamedCert)]
    /\ chain \in SUBSET Clients
    /\ addCert \in Seq(Clients) /\ Len(addCert) <= MaxQueued
    /\ stage \in [Editors -> Stages]
    /\ adding \in [cert : Clients, id : Ids] \cup {Nobody}
    /\ saving \in [Editors -> Tree]
    /\ acked \in Seq(NamedCert)
    /\ behind \in BOOLEAN /\ overlap \in BOOLEAN
    /\ lost \in SUBSET Clients /\ stale \in SUBSET Clients
    /\ asks \in 0 .. MaxAsks /\ edits \in 0 .. MaxEdits
    /\ faults \in 0 .. MaxFaults

\* The tree of a save that has not read the file yet, and what follows it.
Blank(then) == [devices |-> <<>>, state |-> "ok", list |-> TRUE, then |-> then]

NoSave == Blank("idle")

PairingInit ==
    /\ pairing = [id \in Ids |-> Nobody]
    /\ devices = <<>>
    /\ file = [state |-> "none", devices |-> <<>>]
    /\ chain = {}
    /\ addCert = <<>>
    /\ stage = [t \in Editors |-> "idle"]
    /\ adding = Nobody
    /\ saving = [t \in Editors |-> NoSave]
    /\ acked = <<>>
    /\ behind = FALSE /\ overlap = FALSE
    /\ lost = {} /\ stale = {}
    /\ asks = 0 /\ edits = 0 /\ faults = 0

Certs(list) == {list[i].cert : i \in DOMAIN list}

-----------------------------------------------------------------------------
(* Pairing                                                                 *)

Paired(id) == pairing[id] # Nobody

NewSession(c) ==
    [cert |-> c, phase |-> "NONE", salt |-> c, key |-> Nobody, hash |-> Nobody,
     waits |-> TRUE]

\* A client that asks anew has a new salt and PIN: what it was at is void.
Void(sess, c) ==
    IF sess = Nobody THEN Nobody
    ELSE [sess EXCEPT !.key  = IF @ = c THEN Nobody ELSE @,
                      !.hash = IF @ = c THEN Nobody ELSE @]

\* pair(), phrase getservercert: a session there is keeps its certificate and
\* its phase, whosever it was; salt and response are replaced.
Ask(c, id) ==
    /\ stage["http"] = "idle"
    /\ asks < MaxAsks
    /\ asks' = asks + 1
    /\ pairing' = [i \in Ids |->
           IF i # id THEN Void(pairing[i], c)
           ELSE IF Paired(i)
           THEN [Void(pairing[i], c) EXCEPT !.salt = c, !.waits = TRUE]
           ELSE NewSession(c)]
    /\ UNCHANGED <<listVars, saveVars, givenUpVars, edits, faults>>

\* pin() takes the first session of the map, any one. getservercert() makes
\* the key with the PIN of a client, and the response that waits is written.
Pin(c, id) ==
    /\ stage["web"] = "idle"
    /\ Paired(id)
    /\ pairing[id].phase = "NONE"
    /\ pairing' = [pairing EXCEPT ![id] =
           [@ EXCEPT !.phase = "GETSERVERCERT", !.waits = FALSE,
                     !.key = IF pairing[id].salt = c THEN c ELSE Nobody]]
    /\ UNCHANGED <<listVars, saveVars, givenUpVars, boundVars>>

OutOfPhase(id) ==
    stage["web"] = "idle" /\ Paired(id) /\ pairing[id].phase # "NONE"

\* Faulty variant: a session whose phase is another is not given up.
PinKeeps(id) ==
    /\ OutOfPhase(id)
    /\ UNCHANGED pairingVars

\* Or getservercert() fails and removes the session, and with it the response
\* that waits, which nobody is sent. pin() goes on with the session that is
\* gone: nothing comes of it, unless the process crashes.
PinRemoves(id) ==
    /\ OutOfPhase(id)
    /\ pairing' = [pairing EXCEPT ![id] = Nobody]
    /\ UNCHANGED <<listVars, saveVars, givenUpVars, boundVars>>

\* One of the next two phases: out of order, the session is removed.
Phase(id, from, to) ==
    /\ stage["http"] = "idle"
    /\ Paired(id)
    /\ pairing' = [pairing EXCEPT ![id] =
           IF @.phase = from THEN to ELSE Nobody]
    /\ UNCHANGED <<listVars, saveVars, givenUpVars, boundVars>>

ClientChallenge(id) ==
    Phase(id, "GETSERVERCERT",
          [pairing[id] EXCEPT !.phase = "CLIENTCHALLENGE"])

ServerChallengeResp(c, id) ==
    Phase(id, "CLIENTCHALLENGE",
          [pairing[id] EXCEPT !.phase = "SERVERCHALLENGERESP",
                              !.hash = IF pairing[id].key = c THEN c ELSE Nobody])

Busy(t) == \E u \in Editors \ {t} : stage[u] # "idle"

\* A thread has changed the list in memory and goes on to save it.
Save(t, then) ==
    /\ stage' = [stage EXCEPT ![t] = "save"]
    /\ saving' = [saving EXCEPT ![t] = Blank(then)]
    /\ overlap' = (overlap \/ Busy(t))
    /\ UNCHANGED <<adding, acked>>

\* queue_t::raise() empties a queue that is full.
Queued(queue, c) ==
    IF Len(queue) = MaxQueued THEN <<c>> ELSE Append(queue, c)

Verified(c, sess) ==
    sess.phase = "SERVERCHALLENGERESP" /\ sess.cert = c /\ sess.hash = c

\* clientpairingsecret(): a session that is not verified is removed at once.
\* Otherwise the certificate is queued first ...
ClientPairingSecret(c, id) ==
    /\ stage["http"] = "idle"
    /\ Paired(id)
    /\ IF Verified(c, pairing[id])
       THEN /\ pairing' = [pairing EXCEPT ![id].phase = "CLIENTPAIRINGSECRET"]
            /\ addCert' = Queued(addCert, c)
            /\ lost' = lost \cup (ToSet(addCert) \ ToSet(addCert'))
            /\ adding' = [cert |-> c, id |-> id]
            /\ stage' = [stage EXCEPT !["http"] = "add"]
            /\ overlap' = (overlap \/ Busy("http"))
       ELSE /\ pairing' = [pairing EXCEPT ![id] = Nobody]
            /\ UNCHANGED <<addCert, lost, adding, stage, overlap>>
    /\ UNCHANGED <<devices, file, chain, saving, acked, behind, stale, boundVars>>

\* ... then the client is added to the list, which is saved ...
AddAuthorizedClient ==
    /\ stage["http"] = "add"
    /\ devices' = Append(devices, [cert |-> adding.cert, enabled |-> TRUE])
    /\ stale' = stale \ {adding.cert}
    /\ Save("http", "remove")
    /\ UNCHANGED <<pairing, file, chain, addCert, behind, lost, boundVars>>

\* ... and the session is removed.
RemoveSession ==
    /\ stage["http"] = "remove"
    /\ stage' = [stage EXCEPT !["http"] = "idle"]
    /\ pairing' = [pairing EXCEPT ![adding.id] = Nobody]
    /\ adding' = Nobody
    /\ UNCHANGED <<listVars, saving, acked, givenUpVars, boundVars>>

-----------------------------------------------------------------------------
(* save_state() and load_state(), on the thread t                          *)

\* A request is over when its save is, unless it loads the list again.
Onward(t) == saving[t].then

\* The tree goes with the save.
Finish(t) ==
    /\ acked' = IF Onward(t) = "load" THEN acked ELSE devices
    /\ saving' = [saving EXCEPT ![t] = Blank(Onward(t))]

\* The file as it is must be readable; then the new tree is built.
ReadFile(t) ==
    /\ stage[t] = "save"
    /\ IF file.state = "torn"
       THEN /\ stage' = [stage EXCEPT ![t] = Onward(t)]
            /\ behind' = TRUE
            /\ Finish(t)
       ELSE /\ stage' = [stage EXCEPT ![t] = "write"]
            /\ saving' = [saving EXCEPT ![t].devices = devices]
            /\ UNCHANGED <<behind, acked>>
    /\ UNCHANGED <<pairing, listVars, adding, overlap, lost, stale, boundVars>>

\* write_json() truncates the file, or cannot open it.
OpenFile(t) ==
    /\ stage[t] = "write"
    /\ \/ /\ stage' = [stage EXCEPT ![t] = "writing"]
          /\ file' = [state |-> "torn", devices |-> <<>>]
          /\ UNCHANGED <<saving, behind, acked, faults>>
       \/ /\ faults < MaxFaults
          /\ faults' = faults + 1
          /\ stage' = [stage EXCEPT ![t] = Onward(t)]
          /\ behind' = (behind \/ saving[t].list)
          /\ Finish(t)
          /\ UNCHANGED file
    /\ UNCHANGED <<pairing, devices, chain, addCert, adding, overlap, lost,
                   stale, asks, edits>>

WriteFile(t) ==
    /\ stage[t] = "writing"
    /\ stage' = [stage EXCEPT ![t] = Onward(t)]
    /\ \/ /\ file' = [state |-> saving[t].state, devices |-> saving[t].devices]
          /\ behind' = (behind /\ ~saving[t].list)
          /\ UNCHANGED faults
       \/ /\ faults < MaxFaults
          /\ faults' = faults + 1
          /\ behind' = TRUE
          /\ UNCHANGED file
    /\ Finish(t)
    /\ UNCHANGED <<pairing, devices, chain, addCert, adding, overlap, lost,
                   stale, asks, edits>>

\* Faulty variant: what was loaded is added to the chain there is.
LoadIntoChain ==
    /\ devices' = file.devices
    /\ chain' = chain \cup Certs(file.devices)
    /\ behind' = FALSE
    /\ lost' = {}

LoadList ==
    /\ devices' = file.devices
    /\ chain' = Certs(file.devices)
    /\ behind' = FALSE
    /\ lost' = {}

\* Without a file, or with one that cannot be read, memory stays as it is.
Load ==
    /\ stage["web"] = "load"
    /\ stage' = [stage EXCEPT !["web"] = "idle"]
    /\ IF file.state = "ok" THEN LoadList
       ELSE UNCHANGED <<devices, chain, behind, lost>>
    /\ acked' = devices'
    /\ stale' = stale \cup ((chain' \cup ToSet(addCert)) \ Certs(devices'))
    /\ UNCHANGED <<pairing, file, addCert, adding, saving, overlap, boundVars>>

-----------------------------------------------------------------------------
(* Edits, by the web thread                                                *)

Edit ==
    /\ stage["web"] = "idle"
    /\ edits < MaxEdits
    /\ edits' = edits + 1
    /\ UNCHANGED <<pairing, file, addCert, behind, lost, asks, faults>>

\* unpair_client(), of an entry that may be gone already.
Unpair ==
    /\ Edit
    /\ \E i \in 0 .. Len(devices) :
           devices' = IF i = 0 THEN devices ELSE RemoveAt(devices, i)
    /\ stale' = stale \cup (ToSet(addCert) \ Certs(devices'))
    /\ Save("web", "load")
    /\ UNCHANGED chain

\* erase_all_clients()
UnpairAll ==
    /\ Edit
    /\ devices' = <<>>
    /\ chain' = {}
    /\ stale' = stale \cup ToSet(addCert)
    /\ Save("web", "idle")

\* Faulty variant: the list is not saved.
SetEnabledOnly ==
    /\ Edit
    /\ \E i \in DOMAIN devices, enabled \in BOOLEAN :
           devices' = [devices EXCEPT ![i].enabled = enabled]
    /\ UNCHANGED <<chain, stale, saveVars, overlap>>

\* set_client_enabled()
SetEnabled ==
    /\ Edit
    /\ \E i \in DOMAIN devices, enabled \in BOOLEAN :
           devices' = [devices EXCEPT ![i].enabled = enabled]
    /\ Save("web", "idle")
    /\ UNCHANGED <<chain, stale>>

\* Faulty variant: the new password is all that is written.
PasswordOnly ==
    /\ Edit
    /\ file.state # "torn"
    /\ stage' = [stage EXCEPT !["web"] = "write"]
    /\ saving' = [saving EXCEPT !["web"] =
           [devices |-> <<>>, state |-> "none", list |-> FALSE, then |-> "idle"]]
    /\ overlap' = (overlap \/ Busy("web"))
    /\ UNCHANGED <<devices, chain, adding, acked, stale>>

\* save_user_creds(): the tree is the file's own, with a new password.
SavePassword ==
    /\ Edit
    /\ file.state # "torn"
    /\ stage' = [stage EXCEPT !["web"] = "write"]
    /\ saving' = [saving EXCEPT !["web"] =
           [devices |-> file.devices, state |-> file.state, list |-> FALSE,
            then |-> "idle"]]
    /\ overlap' = (overlap \/ Busy("web"))
    /\ UNCHANGED <<devices, chain, adding, acked, stale>>

-----------------------------------------------------------------------------
(* The HTTPS thread, and the process                                       *)

\* The verify callback takes what is queued.
Handshake ==
    /\ addCert # <<>>
    /\ addCert' = <<>>
    /\ chain' = chain \cup ToSet(addCert)
    /\ UNCHANGED <<pairing, devices, file, saveVars, givenUpVars, boundVars>>

\* The process is started again: what it has is what it loads.
StartAgain ==
    /\ pairing' = [id \in Ids |-> Nobody]
    /\ addCert' = <<>>
    /\ stage' = [t \in Editors |-> "idle"]
    /\ adding' = Nobody
    /\ saving' = [t \in Editors |-> NoSave]
    /\ IF file.state = "ok" THEN LoadList
       ELSE /\ devices' = <<>>
            /\ chain' = {}
            /\ behind' = (file.state = "torn")
            /\ lost' = {}
    /\ acked' = devices'
    /\ overlap' = FALSE
    /\ stale' = {}
    /\ UNCHANGED <<file, asks, edits>>

\* It ends at any point ...
Restart ==
    /\ faults < MaxFaults
    /\ faults' = faults + 1
    /\ StartAgain

\* ... or crashes, when pin() uses the session it has removed, or the HTTP
\* thread the one that was removed under it.
Crash ==
    /\ \/ \E id \in Ids : OutOfPhase(id)
       \/ adding # Nobody /\ ~Paired(adding.id)
    /\ StartAgain
    /\ UNCHANGED faults

-----------------------------------------------------------------------------
Pinned == \E id \in Ids : PinRemoves(id) \/ \E c \in Clients : Pin(c, id)

PairingNext ==
    \/ \E c \in Clients, id \in Ids :
           \/ Ask(c, id) \/ Pin(c, id) \/ ServerChallengeResp(c, id)
           \/ ClientPairingSecret(c, id)
    \/ \E id \in Ids : PinRemoves(id) \/ ClientChallenge(id)
    \/ AddAuthorizedClient \/ RemoveSession
    \/ \E t \in Editors : ReadFile(t) \/ OpenFile(t) \/ WriteFile(t)
    \/ Load \/ Unpair \/ UnpairAll \/ SetEnabled \/ SavePassword
    \/ Handshake \/ Restart \/ Crash

PairingSpec == PairingInit /\ [][PairingNext]_pairingVars

\* The web thread goes on, and someone types PINs as long as they are of use.
PairingFairSpec ==
    /\ PairingSpec
    /\ WF_pairingVars(\/ ReadFile("web") \/ OpenFile("web")
                      \/ WriteFile("web") \/ Load)
    /\ WF_pairingVars(Pinned)

-----------------------------------------------------------------------------
(* Properties                                                              *)

Quiet == \A t \in Editors : stage[t] = "idle"

\* When no request is under way the file says what the list in memory says,
\* unless a write failed or two threads were at the list or at its file: a
\* change of the password writes back the list it has read.
FileIsCurrent ==
    (Quiet /\ ~behind /\ ~overlap) =>
        /\ file.state # "torn"
        /\ devices = file.devices

\* Every client on the list is known to the next handshake: its certificate
\* is in the chain or on its way there, whatever was edited, failed to be
\* saved or was loaded since, unless a full queue lost it.
ListedKnown ==
    ~overlap => Certs(devices) \subseteq chain \cup ToSet(addCert) \cup lost

\* The client whose certificate is on its way before it is on the list.
BeingAdded == IF stage["http"] = "add" THEN {adding.cert} ELSE {}

\* And no other but the one that is being added: an edit also takes a
\* client's certificate away, unless it was still queued, or there was no
\* file to be loaded.
UnlistedUnknown ==
    (stage["web"] = "idle" /\ ~overlap) =>
        chain \cup ToSet(addCert) \subseteq
            Certs(devices) \cup stale \cup BeingAdded

\* What a handshake knows follows the list, as long as one thread at a time
\* edits it.
ChainFollowsList == PairingTypeOK /\ ListedKnown /\ UnlistedUnknown

\* A restart or a crash gives back the list as it was, or as it was before
\* the request that it cut short, whatever else is written to the file; not
\* after a write that failed, or was under way, or two threads at the file.
RestartKeepsList ==
    [][((Restart \/ Crash) /\ file.state # "torn" /\ ~behind /\ ~overlap)
            => devices' \in {devices, acked}]_pairingVars

\* No session waits for a PIN for ever, though attempts that were given up are
\* in the way, and sessions keep the state of an earlier one: the PIN answers
\* it, or it is removed. What waited in one that is removed, or was replaced
\* by a later request, is never answered.
PinsAnswer == <>[](\A id \in Ids : Paired(id) => ~pairing[id].waits)

=============================================================================
