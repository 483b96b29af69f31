--------------------------- MODULE PeerConnections ---------------------------
(***************************************************************************)
(* PeerConnectionManager: the websocket thread creates, closes and resets  *)
(* the connections of the clients while the upload thread sends each audio *)
(* message on every open data channel.  close() and sendAudio() take the   *)
(* manager's lock, createPeerConnection() and reset() do not.  And reset() *)
(* runs on any thread whose send fails, beside what the websocket thread   *)
(* is doing: createDataChannel alone makes libdatachannel's threads send.  *)
(* Only one such thread at a time closes the link (module WebSocket).      *)
(*                                                                         *)
(* The maps are unordered_maps: an insertion that rehashes, or a clear,    *)
(* under a running iteration leaves it undefined, and so may any two       *)
(* operations that change a map at once.  libdatachannel is outside src/:  *)
(* a channel opens and closes on its own, and send() throws on one that is *)
(* closed.                                                                 *)
(***************************************************************************)
EXTENDS Naturals

CONSTANTS Clients, NoClient

ASSUME NoClientAssumption == NoClient \notin Clients

\* Who changes the maps: the websocket thread, and a thread whose send failed.
Threads == {"websocket", "sender"}

VARIABLES
    channels,    \* keys of _dataChannels
    connections, \* keys of _peerConnections
    state,       \* state of each client's last data channel
    lock,        \* owner of lock, or "free"
    op,          \* each of Threads: where it is in an operation
    who,         \* the client the websocket thread's operation is about
    crossed,     \* history: since the last reset begun with nothing else under
                 \* way, a reset has run beside another operation
    upc,         \* upload thread: where it is in sendAudio
    toVisit,     \* keys the loop has not come to
    sending,     \* the client whose channel was seen open
    served,      \* history: clients sent this message
    owed,        \* history: clients open since the message was begun
    undefined,   \* the iteration, or a map, was undermined
    terminated   \* an exception left the upload thread: the process ends

maps       == <<channels, connections>>
operation  == <<op, who, crossed>>
sendVars   == <<upc, toVisit, sending, served>>
vars == <<maps, state, lock, operation, sendVars, owed, undefined, terminated>>

Closed == [c \in Clients |-> "closed"]

Init ==
    /\ channels = {} /\ connections = {}
    /\ state = Closed
    /\ lock = "free"
    /\ op = [t \in Threads |-> "idle"] /\ who = NoClient /\ crossed = FALSE
    /\ upc = "idle" /\ toVisit = {} /\ sending = NoClient
    /\ served = {} /\ owed = {}
    /\ undefined = FALSE /\ terminated = FALSE

\* Nothing is said of a run after its iterator, its maps or its process is gone.
Running == ~undefined /\ ~terminated

Iterating == upc \in {"next", "send"}

\* Another thread is at work on the maps.
Beside(t) == \E u \in Threads \ {t} : op[u] /= "idle"

Resetting(t) == op[t] \in {"resetClose", "resetChannels", "resetConnections"}

Begin(t, position) ==
    /\ Running /\ op[t] = "idle"
    /\ op' = [op EXCEPT ![t] = position]

Continue(t, from, to) ==
    /\ Running /\ op[t] = from
    /\ op' = [op EXCEPT ![t] = to]

-----------------------------------------------------------------------------
(* The websocket thread. *)

\* A second channel for a key that is there is dropped by emplace.  A key
\* inserted under the iteration is visited or not, if it does not rehash.
CreateChannel(c) ==
    /\ Begin("websocket", "created") /\ who' = c
    /\ crossed' = (crossed \/ Beside("websocket"))
    /\ channels' = channels \cup {c}
    /\ state' = IF c \in channels THEN state ELSE [state EXCEPT ![c] = "connecting"]
    /\ undefined' \in {FALSE, Beside("websocket") \/ (Iterating /\ c \notin channels)}
    /\ toVisit' \in {toVisit} \cup
                   (IF Iterating /\ c \notin channels THEN {toVisit \cup {c}} ELSE {})
    /\ UNCHANGED <<connections, lock, upc, sending, served, owed, terminated>>

\* Mutant of CreateConnection: the id was moved away by the first emplace.
CreateConnectionMoved ==
    /\ Continue("websocket", "created", "idle") /\ who' = NoClient
    /\ connections' = connections \cup {NoClient}
    /\ undefined' \in {FALSE, Beside("websocket")}
    /\ UNCHANGED <<channels, state, lock, crossed, sendVars, owed, terminated>>

CreateConnection ==
    /\ Continue("websocket", "created", "idle") /\ who' = NoClient
    /\ connections' = connections \cup {who}
    /\ undefined' \in {FALSE, Beside("websocket")}
    /\ UNCHANGED <<channels, state, lock, crossed, sendVars, owed, terminated>>

\* Mutant of CloseLock: no lock.
CloseWithoutLock(c) ==
    /\ Begin("websocket", "closeChannel") /\ who' = c
    /\ crossed' = (crossed \/ Beside("websocket"))
    /\ UNCHANGED <<maps, state, lock, sendVars, owed, undefined, terminated>>

CloseLock(c) ==
    /\ Begin("websocket", "closeChannel") /\ who' = c
    /\ crossed' = (crossed \/ Beside("websocket"))
    /\ lock = "free" /\ lock' = "websocket"
    /\ UNCHANGED <<maps, state, sendVars, owed, undefined, terminated>>

\* Mutant of CloseErase: the connection is not erased.
CloseEraseChannel ==
    /\ Continue("websocket", "closeChannel", "closeUnlock")
    /\ channels' = channels \ {who}
    /\ state' = IF who \in channels THEN [state EXCEPT ![who] = "closed"] ELSE state
    /\ owed' = owed \ {who}
    /\ undefined' \in {FALSE, Beside("websocket")}
    /\ UNCHANGED <<connections, lock, who, crossed, sendVars, terminated>>

\* The channel is closed and erased, then the connection.
CloseErase ==
    /\ \/ /\ Continue("websocket", "closeChannel", "closeConnection")
          /\ channels' = channels \ {who}
          /\ state' = IF who \in channels THEN [state EXCEPT ![who] = "closed"] ELSE state
          /\ owed' = owed \ {who}
          /\ UNCHANGED connections
       \/ /\ Continue("websocket", "closeConnection", "closeUnlock")
          /\ connections' = connections \ {who}
          /\ UNCHANGED <<channels, state, owed>>
    /\ undefined' \in {FALSE, Beside("websocket")}
    /\ UNCHANGED <<lock, who, crossed, sendVars, terminated>>

CloseUnlock ==
    /\ Continue("websocket", "closeUnlock", "idle") /\ who' = NoClient
    /\ lock' = "free"
    /\ UNCHANGED <<maps, state, crossed, sendVars, owed, undefined, terminated>>

-----------------------------------------------------------------------------
(* reset(), on the websocket thread or on one whose send failed. *)

ResetBegin(t) ==
    /\ Begin(t, "resetClose")
    /\ crossed' = Beside(t)
    /\ UNCHANGED <<maps, state, lock, who, sendVars, owed, undefined, terminated>>

\* The two loops that close every channel and connection.
ResetClose(t) ==
    /\ Continue(t, "resetClose", "resetChannels")
    /\ state' = Closed /\ owed' = {}
    /\ UNCHANGED <<maps, lock, who, crossed, sendVars, undefined, terminated>>

\* A channel that came in behind the loops closes as it is dropped.
ResetClear(t) ==
    /\ \/ /\ Continue(t, "resetChannels", "resetConnections")
          /\ channels' = {} /\ state' = Closed /\ owed' = {}
          /\ undefined' \in {Iterating, Iterating \/ Beside(t)}
          /\ UNCHANGED connections
       \/ /\ Continue(t, "resetConnections", "idle")
          /\ connections' = {}
          /\ undefined' \in {FALSE, Beside(t)}
          /\ UNCHANGED <<channels, state, owed>>
    /\ UNCHANGED <<lock, who, crossed, sendVars, terminated>>

\* What a thread does to finish an operation it has begun.
Finish ==
    \/ CreateConnection \/ CloseErase \/ CloseUnlock
    \/ \E t \in Threads : ResetClose(t) \/ ResetClear(t)

Operations ==
    \/ \E c \in Clients : CreateChannel(c) \/ CloseLock(c)
    \/ \E t \in Threads : ResetBegin(t)
    \/ Finish

-----------------------------------------------------------------------------
(* libdatachannel's threads. *)

ChannelChanges(c) ==
    /\ Running /\ c \in channels
    /\ \/ /\ state[c] = "connecting"
          /\ state' = [state EXCEPT ![c] = "open"]
          /\ UNCHANGED owed
       \/ /\ state[c] /= "closed"
          /\ state' = [state EXCEPT ![c] = "closed"]
          /\ owed' = owed \ {c}
    /\ UNCHANGED <<maps, lock, operation, sendVars, undefined, terminated>>

-----------------------------------------------------------------------------
(* The upload thread: sendAudio. *)

SendLock ==
    /\ Running /\ upc = "idle" /\ lock = "free"
    /\ lock' = "upload" /\ upc' = "next"
    /\ toVisit' = channels /\ served' = {}
    /\ owed' = {c \in channels : state[c] = "open"}
    /\ UNCHANGED <<maps, state, operation, sending, undefined, terminated>>

\* Mutants of Visit: a channel that is not open ends the loop, or holds it up.
VisitUntilClosed(c) ==
    /\ Running /\ upc = "next" /\ c \in toVisit
    /\ IF state[c] = "open"
       THEN upc' = "send" /\ sending' = c /\ toVisit' = toVisit \ {c}
       ELSE toVisit' = {} /\ UNCHANGED <<upc, sending>>
    /\ UNCHANGED <<maps, state, operation, lock, served, owed, undefined, terminated>>
VisitAgain(c) ==
    /\ Running /\ upc = "next" /\ c \in toVisit
    /\ IF state[c] = "open"
       THEN upc' = "send" /\ sending' = c /\ toVisit' = toVisit \ {c}
       ELSE UNCHANGED <<upc, sending, toVisit>>
    /\ UNCHANGED <<maps, state, operation, lock, served, owed, undefined, terminated>>

\* The next entry, in the map's order, and isOpen() on its channel.
Visit(c) ==
    /\ Running /\ upc = "next" /\ c \in toVisit
    /\ toVisit' = toVisit \ {c}
    /\ IF state[c] = "open" THEN upc' = "send" /\ sending' = c
                            ELSE UNCHANGED <<upc, sending>>
    /\ UNCHANGED <<maps, state, operation, lock, served, owed, undefined, terminated>>

\* The channel may have closed since isOpen(): then nothing catches the throw.
Send ==
    /\ Running /\ upc = "send"
    /\ IF state[sending] = "open"
       THEN served' = served \cup {sending} /\ UNCHANGED terminated
       ELSE terminated' = TRUE /\ UNCHANGED served
    /\ upc' = "next" /\ sending' = NoClient
    /\ UNCHANGED <<maps, state, operation, lock, toVisit, owed, undefined>>

SendUnlock ==
    /\ Running /\ upc = "next" /\ toVisit = {}
    /\ lock' = "free" /\ upc' = "idle"
    /\ served' = {} /\ owed' = {}
    /\ UNCHANGED <<maps, state, operation, toVisit, sending, undefined, terminated>>

UploadThread ==
    \/ SendLock
    \/ \E c \in Clients : Visit(c)
    \/ Send \/ SendUnlock

Next ==
    \/ Operations
    \/ UploadThread
    \/ \E c \in Clients : ChannelChanges(c)

Spec == Init /\ [][Next]_vars

\* The threads run and finish what they have begun.
FairSpec == Spec /\ WF_vars(UploadThread) /\ WF_vars(Finish)

-----------------------------------------------------------------------------
(* Properties. *)

\* Types of the maps' keys and of the threads' positions.
TypeOK ==
    /\ channels \subseteq Clients /\ connections \subseteq Clients
    /\ state \in [Clients -> {"connecting", "open", "closed"}]
    /\ lock \in {"free", "upload", "websocket"}
    /\ op \in [Threads -> {"idle", "created", "closeChannel", "closeConnection",
                          "closeUnlock", "resetClose", "resetChannels",
                          "resetConnections"}]
    /\ op["sender"] = "idle" \/ Resetting("sender")
    /\ who \in Clients \cup {NoClient} /\ crossed \in BOOLEAN
    /\ upc \in {"idle", "next", "send"} /\ toVisit \subseteq Clients
    /\ sending \in Clients \cup {NoClient}
    /\ served \subseteq Clients /\ owed \subseteq Clients
    /\ undefined \in BOOLEAN /\ terminated \in BOOLEAN

\* Between operations the two maps have the same clients: one never gets a
\* connection without a channel or keeps one of the two.  A reset on a sending
\* thread may leave half a client behind when it crosses another operation; the
\* next reset that has the maps for itself makes that good.
MapsAgree ==
    (~crossed /\ \A t \in Threads : op[t] = "idle") => channels = connections

\* A reset that has begun alone and has not been crossed: it will leave nothing.
Emptying == ~crossed /\ \E t \in Threads : Resetting(t)

Maps == INSTANCE PeerMaps
        WITH channels <- IF Emptying THEN {}
                         ELSE IF op["websocket"] = "closeConnection"
                         THEN connections ELSE channels,
             connections <- IF Emptying THEN {} ELSE connections,
             entering <- IF op["websocket"] = "created" THEN {who} ELSE {}

\* The manager implements the maps of module Session: until operations cross,
\* clients enter them one map after the other, leave both and are all dropped as
\* in one step, whatever the upload thread and the channels do meanwhile, and a
\* reset that runs alone ends what a crossing has left.
ImplementsMaps == Maps!Spec

\* A message reaches every client whose channel was in the map and open from
\* the lock to the unlock, whatever other clients join, leave or break off
\* meanwhile.
EveryOpenChannelServed ==
    (~undefined /\ upc = "next" /\ toVisit = {}) => owed \subseteq served

\* The channel being sent on is one the map still holds: a client that leaves
\* cannot take it away between isOpen() and send().
SendsOnHeldChannel ==
    (~undefined /\ upc = "send") => sending \in channels

\* sendAudio() comes to its unlock, though clients join under the iteration,
\* unless the iteration is undermined or send() throws.
SendAudioReturns ==
    upc = "next" ~> (upc = "idle" \/ undefined \/ terminated)
==============================================================================
