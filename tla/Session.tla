------------------------------- MODULE Session -------------------------------
(***************************************************************************)
(* One signalling session after another: SignalService, the Room it keeps, *)
(* the callbacks of Straudio and WebServicesManager, and the keys of the   *)
(* PeerConnectionManager's two maps.                                       *)
(*                                                                         *)
(* The websocket thread connects and runs the handlers of Open and Message *)
(* one at a time; a Close runs on it as well, or on any thread whose send  *)
(* failed, in the middle of such a handler.  An upload thread reports the  *)
(* rate and bit depth of its buffer (onBufferReady); a control thread      *)
(* changes the rate, or replaces the buffer by one of another depth, when  *)
(* two upload threads may report at the same time.  A handler is cut where *)
(* another thread can look.  The signal server is not under src/ and is    *)
(* modelled from the messages the handlers expect.                         *)
(***************************************************************************)
EXTENDS Naturals, Sequences, SequencesExt

CONSTANTS
    Clients,     \* clients that may join the room
    Rates,       \* output sample rates
    Depths,      \* bit depths
    DefaultRate, DefaultDepth,  \* those of the first buffer
    None,        \* no rate, no depth
    MaxChanges,  \* bound: changes of a setting or of the buffer in a behaviour
    MaxQueue     \* bound: messages the server has under way to the host

ASSUME SessionAssumption ==
    /\ Clients /= {} /\ DefaultRate \in Rates /\ DefaultDepth \in Depths
    /\ None \notin Rates \cup Depths /\ MaxChanges \in Nat /\ MaxQueue \in Nat

VARIABLES
    up,            \* the connection exists at the transport
    readyState,    \* its state as module WebSocket keeps it
    asked,         \* a thread will store CLOSING
    toServer,      \* texts sent on it and not yet received
    toHost,        \* texts of the server not yet handled
    serverDetails, \* server: audio details of the room, NoDetails without a room
    members,       \* server: clients in the room
    phase,         \* history: the last event begun, "open" or "closed"
    wpc,           \* websocket thread: where it is in a handler
    opc,           \* another thread: where it is in a failed send and its Close
    who,           \* the client the handler is about
    details,       \* arguments of createRoom, as far as they are loaded
    signalState,   \* *signalState
    roomState,     \* room->state
    participants,  \* room->participants
    channels,      \* keys of _dataChannels
    connections,   \* keys of _peerConnections
    uploadBuffer,  \* which of the two buffers the pointer names
    buffers,       \* rate and depth of each; whether a report is due, where its
                   \* upload thread is in onBufferReady, and the rate it has there
    replacing,     \* control thread: the old buffer is being destroyed
    changes,       \* changes of a setting or of the buffer so far
    stale,         \* history: since createRoom has its details, a report was skipped,
                   \* or a replaced buffer reported beside or after its successor
    mixed          \* history: since the last Close that began alone on a link that was
                   \* gone, one ran beside another handler or on a link that was up,
                   \* or a message was handled beside or after its link's Close

linkVars   == <<up, readyState, asked>>
serverVars == <<serverDetails, members>>
netVars    == <<linkVars, toServer, toHost>>
roomVars   == <<signalState, roomState, participants, channels, connections>>
uploadVars == <<uploadBuffer, buffers, replacing, changes>>
history    == <<stale, mixed>>
handler    == <<phase, wpc, opc, who, details>>
vars == <<netVars, serverVars, handler, roomVars, uploadVars, history>>

NoDetails == [rate |-> None, depth |-> None]

Buffer(r, d) == [rate |-> r, depth |-> d, due |-> TRUE, pc |-> "idle", report |-> None]
NoBuffer == [rate |-> None, depth |-> None, due |-> FALSE, pc |-> "idle", report |-> None]

ReportIdle == \A b \in 1 .. 2 : buffers[b].pc = "idle"

\* Placeholders of locals outside their handler.
NoClient == CHOOSE c \in Clients : TRUE

Init ==
    /\ up = FALSE /\ readyState = "closed" /\ asked = FALSE
    /\ toServer = <<>> /\ toHost = <<>>
    /\ serverDetails = NoDetails /\ members = {}
    /\ phase = "closed" /\ wpc = "idle" /\ opc = "idle" /\ who = NoClient /\ details = NoDetails
    /\ signalState = "closed" /\ roomState = "closed" /\ participants = <<>>
    /\ channels = {} /\ connections = {}
    /\ uploadBuffer = 1 /\ replacing = FALSE /\ changes = 0
    /\ buffers = <<Buffer(DefaultRate, DefaultDepth), NoBuffer>>
    /\ stale = FALSE /\ mixed = FALSE

\* The websocket as module WebSocket implements it.
Link == INSTANCE SignalLink
        WITH place <- IF wpc \in {"connecting", "opening"} THEN wpc
                      ELSE IF wpc \in {"closeSignal", "reset"} THEN "closing" ELSE "run",
             left  <- toHost /= <<>>,
             other <- IF opc \in {"signal", "reset"} THEN "closing" ELSE opc

\* A Close that nothing has disturbed empties the two maps.
LoneClose == ~mixed /\ (opc \in {"signal", "reset"} \/ wpc \in {"closeSignal", "reset"})

\* The two maps as module PeerConnections implements them.
Maps == INSTANCE PeerMaps
        WITH channels    <- IF LoneClose THEN {} ELSE channels,
             connections <- IF LoneClose THEN {} ELSE connections,
             entering    <- IF wpc = "connection" THEN {who} ELSE {},
             crossed     <- mixed

\* sendText waits for a send that fails, tests the state, and writes later.  A text
\* for a connection that is gone is lost: its send fails and closes the link (Close
\* of the websocket thread, OtherCloses of any other), or nobody is told.
SafeSend(m, r, d) ==
    /\ opc /= "idle" => readyState /= "open"
    /\ \/ up /\ toServer' = Append(toServer, [method |-> m, rate |-> r, depth |-> d])
       \/ ~(up /\ readyState = "open") /\ UNCHANGED toServer

-----------------------------------------------------------------------------
(* The connection and the server. *)

\* Mutant of Try: neither the state nor the texts that are left are looked at.
TryAtOnce ==
    /\ wpc = "idle" /\ wpc' = "connecting" /\ ~up
    /\ UNCHANGED <<netVars, serverVars, phase, opc, who, details, roomVars, uploadVars,
                   history>>

\* The run loop is the thread of the handlers, and connects between two of them;
\* a new socket replaces the old one.
Try ==
    /\ wpc = "idle" /\ wpc' = "connecting" /\ ~up
    /\ UNCHANGED <<toServer, toHost, serverVars, phase, opc, who, details, roomVars,
                   uploadVars, history>>
    /\ Link!Try

Connect ==
    /\ wpc = "connecting" /\ wpc' \in {"opening", "idle"}
    /\ UNCHANGED <<toServer, toHost, serverVars, phase, opc, who, details, roomVars,
                   uploadVars, history>>
    /\ Link!Connect \/ Link!GiveUp

\* The server drops the room of a host that is gone; texts on their way to it
\* are lost, those already received by the host may still be handled.
Disconnect ==
    /\ UNCHANGED <<toHost, handler, roomVars, uploadVars, history>>
    /\ Link!Drop
    /\ toServer' = <<>>
    /\ serverDetails' = NoDetails /\ members' = {}

\* The loop finds the connection gone: what it has not read is lost, what it has
\* read is handled before the Close, or after it.
LoseUnread ==
    /\ wpc = "idle" /\ ~up
    /\ \E n \in 0 .. Len(toHost) - 1 : toHost' = SubSeq(toHost, 1, n)
    /\ UNCHANGED <<linkVars, toServer, serverVars, handler, roomVars, uploadVars, history>>

\* close(): a timer of the heartbeat has found the link open.
AskToClose ==
    /\ UNCHANGED <<toServer, toHost, serverVars, handler, roomVars, uploadVars, history>>
    /\ Link!Ask \/ Link!StoreClosing

DetailsOf(text) == [rate |-> text.rate, depth |-> text.depth]

ServerCreateRoom ==
    /\ toServer /= <<>> /\ Head(toServer).method = "createRoom"
    /\ toServer' = Tail(toServer)
    /\ \/ /\ serverDetails' = DetailsOf(Head(toServer))
          /\ toHost' = Append(toHost, [method |-> "createRoomResponse", success |-> TRUE])
       \/ /\ UNCHANGED serverDetails
          /\ toHost' = Append(toHost, [method |-> "createRoomResponse", success |-> FALSE])
    /\ UNCHANGED <<linkVars, members, handler, roomVars, uploadVars, history>>

ServerAudioDetails ==
    /\ toServer /= <<>> /\ Head(toServer).method = "audioDetails"
    /\ toServer' = Tail(toServer)
    /\ serverDetails' = IF serverDetails = NoDetails THEN NoDetails ELSE DetailsOf(Head(toServer))
    /\ UNCHANGED <<linkVars, toHost, members, handler, roomVars, uploadVars, history>>

ClientJoins(c) ==
    /\ serverDetails /= NoDetails /\ c \notin members /\ Len(toHost) < MaxQueue
    /\ members' = members \cup {c}
    /\ toHost' = Append(toHost, [method |-> "clientJoin", id |-> c])
    /\ UNCHANGED <<linkVars, toServer, serverDetails, handler, roomVars, uploadVars, history>>

ClientLeaves(c) ==
    /\ c \in members /\ Len(toHost) < MaxQueue
    /\ members' = members \ {c}
    /\ toHost' = Append(toHost, [method |-> "clientLeave", id |-> c])
    /\ UNCHANGED <<linkVars, toServer, serverDetails, handler, roomVars, uploadVars, history>>

Server ==
    \/ ServerCreateRoom \/ ServerAudioDetails
    \/ \E c \in Clients : ClientJoins(c) \/ ClientLeaves(c)

-----------------------------------------------------------------------------
(* The websocket thread: _onOpen, then signalStateChange and createRoom. *)

OnOpen ==
    /\ wpc = "opening" /\ wpc' = "create"
    /\ phase' = "open" /\ signalState' = "open"
    /\ mixed' = (mixed \/ opc \in {"signal", "reset"})
    /\ UNCHANGED <<toServer, toHost, serverVars, opc, who, details, roomState, participants,
                   channels, connections, uploadVars, stale>>
    /\ Link!Open

\* signalStateChange reads back the state, which a Close may have stored meanwhile.
OpenMeetsClose ==
    /\ wpc = "create" /\ details = NoDetails /\ signalState = "closed"
    /\ channels' = {} /\ connections' = {}
    /\ wpc' = "idle"
    /\ UNCHANGED <<netVars, serverVars, phase, opc, who, details, signalState, roomState,
                   participants, uploadVars, history>>

\* signalStateChange loads both arguments of createRoom through the pointer, in
\* an order that the language leaves open.
LoadDetail(what) ==
    /\ wpc = "create" /\ details[what] = None
    /\ details = NoDetails => signalState = "open"
    /\ details' = [details EXCEPT ![what] = buffers[uploadBuffer][what]]
    /\ wpc' = IF None \in {details'.rate, details'.depth} THEN "create" ELSE "createSend"
    /\ stale' = (stale /\ (details /= NoDetails \/ ~ReportIdle))
    /\ UNCHANGED <<netVars, serverVars, phase, opc, who, roomVars, uploadVars, mixed>>

CreateRoom ==
    /\ wpc = "createSend"
    /\ SafeSend("createRoom", details.rate, details.depth)
    /\ wpc' = "idle" /\ details' = NoDetails
    /\ UNCHANGED <<linkVars, toHost, serverVars, phase, opc, who, roomVars, uploadVars, history>>

(* _onClose, then signalStateChange and closePeerConnections: here on the    *)
(* websocket thread.                                                         *)

\* Mutant of OnClose: the room is left open.
OnCloseKeepsRoom ==
    /\ wpc = "idle" /\ wpc' = "closeSignal"
    /\ phase' = "closed"
    /\ mixed' = (opc \in {"signal", "reset"})
    /\ UNCHANGED <<toServer, toHost, serverVars, opc, who, details, signalState, roomState,
                   participants, channels, connections, uploadVars, stale>>
    /\ Link!BeginClose

\* Texts read and not yet handled when the link ends follow its Close.
OnClose ==
    /\ wpc = "idle" /\ wpc' = "closeSignal"
    /\ phase' = "closed" /\ roomState' = "closed"
    /\ mixed' = (opc \in {"signal", "reset"})
    /\ UNCHANGED <<toServer, toHost, serverVars, opc, who, details, signalState,
                   participants, channels, connections, uploadVars, stale>>
    /\ Link!BeginClose

CloseSignal ==
    /\ wpc = "closeSignal"
    /\ signalState' = "closed"
    /\ wpc' = "reset"
    /\ UNCHANGED <<netVars, serverVars, phase, opc, who, details, roomState, participants,
                   channels, connections, uploadVars, history>>

\* Mutant of ClosePeerConnections: one map only.
CloseChannelsOnly ==
    /\ wpc = "reset"
    /\ channels' = {}
    /\ wpc' = "idle"
    /\ UNCHANGED <<toServer, toHost, serverVars, phase, opc, who, details, signalState,
                   roomState, participants, connections, uploadVars, history>>
    /\ Link!EndClose

\* The participants stay in the room.
ClosePeerConnections ==
    /\ wpc = "reset" /\ wpc' = "idle"
    /\ channels' = {} /\ connections' = {}
    /\ UNCHANGED <<toServer, toHost, serverVars, phase, opc, who, details, signalState,
                   roomState, participants, uploadVars, history>>
    /\ Link!EndClose

(* _onMessage. *)

Receive(method) ==
    /\ wpc = "idle" /\ toHost /= <<>> /\ Head(toHost).method = method
    /\ toHost' = Tail(toHost)
    /\ mixed' = (mixed \/ phase = "closed" \/ opc \in {"signal", "reset"})
    /\ UNCHANGED <<linkVars, toServer, serverVars, phase, opc, details, uploadVars, stale>>

\* *room = Room(j["room"]), member by member: state, then participants.
OnCreateRoomResponse ==
    /\ Receive("createRoomResponse")
    /\ IF Head(toHost).success
       THEN roomState' = "open" /\ wpc' = "clear"
       ELSE UNCHANGED <<roomState, wpc>>
    /\ UNCHANGED <<who, signalState, participants, channels, connections>>

ReplaceParticipants ==
    /\ wpc = "clear"
    /\ participants' = <<>>
    /\ wpc' = "idle"
    /\ UNCHANGED <<netVars, serverVars, phase, opc, who, details, signalState, roomState,
                   channels, connections, uploadVars, history>>

OnClientJoin ==
    /\ Receive("clientJoin")
    /\ who' = Head(toHost).id /\ wpc' = "channel"
    /\ participants' = Append(participants, Head(toHost).id)
    /\ UNCHANGED <<signalState, roomState, channels, connections>>

\* createPeerConnection: emplace into one map, then into the other.
CreatePeerConnection ==
    /\ \/ /\ wpc = "channel" /\ wpc' = "connection"
          /\ channels' = channels \cup {who} /\ UNCHANGED <<who, connections>>
       \/ /\ wpc = "connection" /\ wpc' = "idle"
          /\ connections' = connections \cup {who} /\ who' = NoClient /\ UNCHANGED channels
    /\ UNCHANGED <<netVars, serverVars, phase, opc, details, signalState, roomState,
                   participants, uploadVars, history>>

\* Mutant of RemoveParticipant: whoever came first goes.
RemoveFirstParticipant(s, c) == IF c \in ToSet(s) THEN Tail(s) ELSE s

\* The last participant of that id goes, the others keep their order.
RemoveParticipant(s, c) ==
    LET here == {i \in DOMAIN s : s[i] = c}
    IN  IF here = {} THEN s
        ELSE RemoveAt(s, CHOOSE i \in here : \A j \in here : j <= i)

OnClientLeave ==
    /\ Receive("clientLeave")
    /\ who' = Head(toHost).id /\ wpc' = "close"
    /\ participants' = RemoveParticipant(participants, Head(toHost).id)
    /\ UNCHANGED <<signalState, roomState, channels, connections>>

\* Mutant of CloseRtcConnection: the second map is forgotten.
CloseRtcChannel ==
    /\ wpc = "close" /\ wpc' = "idle" /\ who' = NoClient
    /\ channels' = channels \ {who}
    /\ UNCHANGED <<netVars, serverVars, phase, opc, details, signalState, roomState,
                   participants, connections, uploadVars, history>>

\* PeerConnectionManager::close, under its lock.
CloseRtcConnection ==
    /\ wpc = "close" /\ wpc' = "idle" /\ who' = NoClient
    /\ channels' = channels \ {who} /\ connections' = connections \ {who}
    /\ UNCHANGED <<netVars, serverVars, phase, opc, details, signalState, roomState,
                   participants, uploadVars, history>>

WebSocketThread ==
    \/ OnOpen \/ OpenMeetsClose \/ LoadDetail("rate") \/ LoadDetail("depth") \/ CreateRoom
    \/ OnClose \/ CloseSignal \/ ClosePeerConnections
    \/ OnCreateRoomResponse \/ ReplaceParticipants
    \/ OnClientJoin \/ CreatePeerConnection
    \/ OnClientLeave \/ CloseRtcConnection

-----------------------------------------------------------------------------
(* A Close on a thread whose send failed: it keeps _writeMutex and            *)
(* _txbufMutex until the end, so there is one at a time.                      *)

SendFails ==
    /\ opc = "idle" /\ opc' = "failed" /\ ~up
    /\ UNCHANGED <<toServer, toHost, serverVars, phase, wpc, who, details, roomVars,
                   uploadVars, history>>
    /\ Link!Fail

OtherCloses ==
    /\ opc = "failed" /\ readyState /= "closed" /\ opc' = "signal"
    /\ phase' = "closed" /\ roomState' = "closed"
    /\ mixed' = (wpc /= "idle" \/ up)
    /\ UNCHANGED <<toServer, toHost, serverVars, wpc, who, details, signalState,
                   participants, channels, connections, uploadVars, stale>>
    /\ Link!BeginOther

\* No state change, return.
OtherFindsClosed ==
    /\ opc = "failed" /\ readyState = "closed" /\ opc' = "idle"
    /\ UNCHANGED <<toServer, toHost, serverVars, phase, wpc, who, details, roomVars,
                   uploadVars, history>>
    /\ Link!BeginOther

OtherClosesSignal ==
    /\ opc = "signal" /\ opc' = "reset"
    /\ signalState' = "closed"
    /\ UNCHANGED <<netVars, serverVars, phase, wpc, who, details, roomState, participants,
                   channels, connections, uploadVars, history>>

\* Mutant of OtherEnds: the peer connections are left to the websocket thread.
OtherEndsOnly ==
    /\ opc = "reset" /\ opc' = "idle"
    /\ signalState = "closed" \/ readyState /= "open"
    /\ UNCHANGED <<toServer, toHost, serverVars, phase, wpc, who, details, roomVars,
                   uploadVars, history>>
    /\ Link!EndOther

\* The state read back is closed, or an Open has stored its own: then the thread
\* asks for a room, which does nothing unless the link is open, when it waits for
\* the mutex it keeps.
OtherEnds ==
    /\ opc = "reset" /\ opc' = "idle"
    /\ IF signalState = "closed" THEN channels' = {} /\ connections' = {}
       ELSE readyState /= "open" /\ UNCHANGED <<channels, connections>>
    /\ UNCHANGED <<toServer, toHost, serverVars, phase, wpc, who, details, signalState,
                   roomState, participants, uploadVars, history>>
    /\ Link!EndOther

FailedSend ==
    SendFails \/ OtherFindsClosed \/ OtherCloses \/ OtherClosesSignal \/ OtherEnds

-----------------------------------------------------------------------------
(* The details: a control thread changes them, upload threads report them. *)

\* Mutant of SetOutputSampleRate: nothing is due.
SetRateQuietly(r) ==
    /\ ~replacing /\ buffers[uploadBuffer].rate /= r /\ changes < MaxChanges
    /\ buffers' = [buffers EXCEPT ![uploadBuffer].rate = r]
    /\ changes' = changes + 1
    /\ UNCHANGED <<netVars, serverVars, handler, roomVars, uploadBuffer, replacing, history>>

\* setOutputSampleRate, whose two stores UploadBuffer tells apart.
SetOutputSampleRate(r) ==
    /\ ~replacing /\ buffers[uploadBuffer].rate /= r /\ changes < MaxChanges
    /\ buffers' = [buffers EXCEPT ![uploadBuffer].rate = r, ![uploadBuffer].due = TRUE]
    /\ changes' = changes + 1
    /\ UNCHANGED <<netVars, serverVars, handler, roomVars, uploadBuffer, replacing, history>>

\* setInputSampleRate and setSrcQuality ask for an update, too, and the host calls
\* the first when it likes: the server is then told again what it knows.
SetOtherSetting ==
    /\ changes < MaxChanges
    /\ buffers' = [buffers EXCEPT ![uploadBuffer].due = TRUE]
    /\ changes' = changes + 1
    /\ UNCHANGED <<netVars, serverVars, handler, roomVars, uploadBuffer, replacing, history>>

Other == 3 - uploadBuffer

\* reset(new TypedUploadBuffer) with the old one's rate: first the pointer ...
SetUploadBuffer(d) ==
    /\ ~replacing /\ changes < MaxChanges
    /\ buffers' = [buffers EXCEPT ![Other] = Buffer(buffers[uploadBuffer].rate, d)]
    /\ uploadBuffer' = Other /\ replacing' = TRUE
    /\ changes' = changes + 1
    /\ UNCHANGED <<netVars, serverVars, handler, roomVars, history>>

\* ... then the old buffer's destructor, which waits for shutdownMtx.
DestroyOldBuffer ==
    /\ replacing /\ buffers[Other].pc = "idle"
    /\ buffers' = [buffers EXCEPT ![Other] = NoBuffer]
    /\ replacing' = FALSE
    /\ UNCHANGED <<netVars, serverVars, handler, roomVars, uploadBuffer, changes, history>>

\* Two reports under way together, or one of the old buffer after the new one's.
Overtakes(b) == ~ReportIdle \/ (b /= uploadBuffer /\ ~buffers[uploadBuffer].due)

\* Mutant of BufferReady: the callback is not given the rate.
BufferReadyWithoutRate(b) ==
    /\ buffers[b].pc = "idle" /\ buffers[b].due
    /\ buffers' = [buffers EXCEPT ![b].due = FALSE, ![b].pc = "room"]
    /\ stale' = (stale \/ Overtakes(b))
    /\ UNCHANGED <<netVars, serverVars, handler, roomVars, uploadBuffer, replacing,
                   changes, mixed>>

\* An upload thread looks when its ring has data: here, at any time.
BufferReady(b) ==
    /\ buffers[b].pc = "idle" /\ buffers[b].due
    /\ buffers' = [buffers EXCEPT ![b].due = FALSE, ![b].pc = "room",
                                  ![b].report = buffers[b].rate]
    /\ stale' = (stale \/ Overtakes(b))
    /\ UNCHANGED <<netVars, serverVars, handler, roomVars, uploadBuffer, replacing,
                   changes, mixed>>

\* createRoom has some of its details, and the connection is the one it is for.
RoomRequested == phase = "open" /\ (wpc /= "create" \/ details /= NoDetails)

\* if (room->state == "open" && *signalState == "open"): a report that the two
\* tests turn down is not kept for later.
TestThen(b, passed, next) ==
    /\ buffers' = IF passed THEN [buffers EXCEPT ![b].pc = next]
                  ELSE [buffers EXCEPT ![b].pc = "idle", ![b].report = None]
    /\ stale' = (stale \/ (~passed /\ RoomRequested))
    /\ UNCHANGED <<netVars, serverVars, handler, roomVars, uploadBuffer, replacing,
                   changes, mixed>>

TestRoomState(b) ==
    buffers[b].pc = "room" /\ TestThen(b, roomState = "open", "signal")
TestSignalState(b) ==
    buffers[b].pc = "signal" /\ TestThen(b, signalState = "open", "send")

UpdateAudioSettings(b) ==
    /\ buffers[b].pc = "send"
    /\ SafeSend("audioDetails", buffers[b].report, buffers[b].depth)
    /\ buffers' = [buffers EXCEPT ![b].pc = "idle", ![b].report = None]
    /\ UNCHANGED <<linkVars, toHost, serverVars, handler, roomVars, uploadBuffer, replacing,
                   changes, history>>

UploadThread(b) ==
    BufferReady(b) \/ TestRoomState(b) \/ TestSignalState(b) \/ UpdateAudioSettings(b)

ControlThread ==
    \/ \E r \in Rates : SetOutputSampleRate(r)
    \/ SetOtherSetting
    \/ \E d \in Depths : SetUploadBuffer(d)
    \/ DestroyOldBuffer

Next ==
    \/ Try \/ Connect \/ Disconnect \/ LoseUnread \/ AskToClose \/ Server
    \/ WebSocketThread \/ FailedSend
    \/ ControlThread \/ \E b \in 1 .. 2 : UploadThread(b)

Spec == Init /\ [][Next]_vars

-----------------------------------------------------------------------------
(* Properties. *)

DetailSet == [rate : Rates \cup {None}, depth : Depths \cup {None}]
Texts == [method : {"createRoom", "audioDetails"}, rate : Rates, depth : Depths]
Events == [method : {"createRoomResponse"}, success : BOOLEAN]
          \cup [method : {"clientJoin", "clientLeave"}, id : Clients]
LiveBuffers == [rate : Rates, depth : Depths, due : BOOLEAN,
                pc : {"idle", "room", "signal", "send"}, report : Rates \cup {None}]

\* Types of the shared state and of the threads' locals.
TypeOK ==
    /\ up \in BOOLEAN /\ readyState \in {"closed", "open", "closing"} /\ asked \in BOOLEAN
    /\ toServer \in Seq(Texts) /\ toHost \in Seq(Events)
    /\ serverDetails \in DetailSet /\ members \subseteq Clients
    /\ phase \in {"closed", "open"} /\ opc \in {"idle", "failed", "signal", "reset"}
    /\ wpc \in {"idle", "connecting", "opening", "create", "createSend", "closeSignal",
                "reset", "clear", "channel", "connection", "close"}
    /\ who \in Clients /\ details \in DetailSet
    /\ signalState \in {"open", "closed"} /\ roomState \in {"open", "closed"}
    /\ participants \in Seq(Clients)
    /\ channels \subseteq Clients /\ connections \subseteq Clients
    /\ uploadBuffer \in 1 .. 2 /\ replacing \in BOOLEAN
    /\ buffers \in [1 .. 2 -> LiveBuffers \cup {NoBuffer}]
    /\ buffers[uploadBuffer] \in LiveBuffers
    /\ changes \in 0 .. MaxChanges
    /\ stale \in BOOLEAN /\ mixed \in BOOLEAN

InRoom == ToSet(participants)

\* The properties of the room speak of behaviours in which no message is handled
\* beside or after the Close of its link and no Close runs inside a handler: such a
\* message reopens the room, or gives a client of the old room a peer connection
\* that the next room does not know.  They speak again from the next Close on that
\* nothing disturbs.

\* Between handlers of an open room, the room's participants and the keys of
\* both maps are the same clients, each once, although a room keeps its
\* participants over a disconnect and the maps do not.
RoomMatchesConnections ==
    (wpc = "idle" /\ roomState = "open" /\ ~mixed) =>
        /\ IsInjective(participants)
        /\ channels = InRoom /\ connections = InRoom

\* When everything the server sent has been handled, host and server agree on
\* who is in the room, over any number of reconnects.
RoomAgreesWithServer ==
    (wpc = "idle" /\ roomState = "open" /\ up /\ toHost = <<>> /\ ~mixed) => InRoom = members

\* The room is never open on a closed signal: onBufferReady and a user who
\* reads the room id rely on it while another thread closes both.
RoomNeedsSignal ==
    (roomState = "open" /\ ~mixed) => signalState = "open"

\* What a Close does to the peer connections lasts, whichever thread runs it: while
\* the signal is closed none is left or made, although a join may have been read
\* before the link ended, or be half done.
ClosedWithoutPeers ==
    (/\ signalState = "closed" /\ wpc = "idle" /\ opc \notin {"signal", "reset"}
     /\ ~mixed) =>
        channels = {} /\ connections = {}

\* When nothing is under way, the server has the rate and the depth of the buffer
\* that sends, replaced or not, unless a report came between createRoom's load and
\* its response, or the old buffer's report came beside or after the new one's.
ServerDetailsCurrent ==
    (/\ roomState = "open" /\ up /\ readyState = "open" /\ toServer = <<>>
     /\ ~replacing /\ ~buffers[uploadBuffer].due /\ ReportIdle
     /\ ~stale /\ ~mixed)
        => /\ serverDetails.rate = buffers[uploadBuffer].rate
           /\ serverDetails.depth = buffers[uploadBuffer].depth

\* The session asks of its websocket no more than SignalLink promises, which module
\* WebSocket implements.
UsesLink == Link!Spec

\* What happens to the two maps is what PeerMaps promises, which module
\* PeerConnections implements: a reset that another thread's Close runs inside a
\* handler excepts them until the next Close that nothing disturbs.
UsesMaps == Maps!Spec
=============================================================================
