---------------------------- MODULE SessionProofs ----------------------------
(***************************************************************************)
(* Theorems about Session, for any clients, rates, depths and bounds.      *)
(***************************************************************************)
EXTENDS Session, WellFoundedInduction, TLAPS

\* The conjuncts of TypeOK about the connection and the server ...
NetTyped ==
    /\ up \in BOOLEAN /\ readyState \in {"closed", "open", "closing"} /\ asked \in BOOLEAN
    /\ toServer \in Seq(Texts) /\ toHost \in Seq(Events)
    /\ serverDetails \in DetailSet /\ members \subseteq Clients

\* ... about the websocket thread ...
HostTyped ==
    /\ phase \in {"closed", "open"} /\ opc \in {"idle", "failed", "signal", "reset"}
    /\ wpc \in {"idle", "connecting", "opening", "create", "createSend", "closeSignal",
                "reset", "clear", "channel", "connection", "close"}
    /\ who \in Clients /\ details \in DetailSet
    /\ wpc = "createSend" => details.rate \in Rates /\ details.depth \in Depths
    /\ signalState \in {"open", "closed"} /\ roomState \in {"open", "closed"}
    /\ participants \in Seq(Clients)
    /\ channels \subseteq Clients /\ connections \subseteq Clients

\* ... and about the buffers.
BuffersTyped ==
    /\ uploadBuffer \in 1 .. 2 /\ replacing \in BOOLEAN
    /\ buffers \in [1 .. 2 -> LiveBuffers \cup {NoBuffer}]
    /\ buffers[uploadBuffer] \in LiveBuffers
    /\ \A b \in 1 .. 2 : buffers[b].pc /= "idle" => buffers[b].report \in Rates
    /\ changes \in 0 .. MaxChanges

HistoryTyped == stale \in BOOLEAN /\ mixed \in BOOLEAN

\* Both details are loaded when createRoom is sent, and a report has its rate,
\* which TypeOK does not say.
Typed == NetTyped /\ HostTyped /\ BuffersTyped /\ HistoryTyped

\* A new plugin is well typed.
LEMMA InitTyped == Init => Typed
<1> SUFFICES ASSUME Init PROVE Typed
    OBVIOUS
<1> USE SessionAssumption DEF Init
<1>1. /\ HistoryTyped /\ up \in BOOLEAN /\ asked \in BOOLEAN /\ replacing \in BOOLEAN
    BY Zenon DEF HistoryTyped
<1>2. toServer \in Seq(Texts) /\ toHost \in Seq(Events) /\ participants \in Seq(Clients)
    OBVIOUS
<1>3. NoClient \in Clients
    BY DEF NoClient
<1>4. NetTyped
    BY <1>1, <1>2 DEF NetTyped, NoDetails, DetailSet
<1>5. HostTyped
    BY <1>2, <1>3 DEF HostTyped, NoDetails, DetailSet
<1>6. Buffer(DefaultRate, DefaultDepth) \in LiveBuffers
    BY DEF Buffer, LiveBuffers
<1>7. BuffersTyped
    <2>1. /\ buffers = <<Buffer(DefaultRate, DefaultDepth), NoBuffer>>
          /\ uploadBuffer = 1 /\ changes = 0
        OBVIOUS
    <2>2. buffers \in [1 .. 2 -> LiveBuffers \cup {NoBuffer}]
        BY <1>6, <2>1
    <2>3. \A b \in 1 .. 2 : buffers[b].pc = "idle"
        BY <2>1 DEF Buffer, NoBuffer
    <2> QED
        BY <1>1, <1>6, <2>1, <2>2, <2>3 DEF BuffersTyped
<1> QED
    BY <1>1, <1>4, <1>5, <1>7 DEF Typed

-----------------------------------------------------------------------------
(* The connection, the server and what a text may be. *)

\* safeSend puts a text under way, or nothing.
LEMMA SendTyped ==
    ASSUME toServer \in Seq(Texts), NEW m \in {"createRoom", "audioDetails"},
           NEW r \in Rates, NEW d \in Depths, SafeSend(m, r, d)
    PROVE  toServer' \in Seq(Texts)
<1>1. [method |-> m, rate |-> r, depth |-> d] \in Texts
    BY DEF Texts
<1> QED
    BY <1>1 DEF SafeSend

\* The first of a queue and the rest of it.
LEMMA QueueFacts ==
    ASSUME NEW S, NEW s \in Seq(S), s /= <<>>
    PROVE  Head(s) \in S /\ Tail(s) \in Seq(S)
OBVIOUS

\* A queue with one more at its end.
LEMMA AppendTyped ==
    ASSUME NEW S, NEW s \in Seq(S), NEW e \in S
    PROVE  Append(s, e) \in Seq(S)
OBVIOUS

\* What the link may do to its own state.
LinkTyped ==
    up' \in BOOLEAN /\ readyState' \in {"closed", "open", "closing"} /\ asked' \in BOOLEAN

\* Every step of the link keeps the types of its state.
LEMMA LinkStep ==
    ASSUME NetTyped, Link!Next
    PROVE  LinkTyped
<1> USE DEF LinkTyped, NetTyped
<1>1. CASE Link!Drop \/ Link!Fail
    <2>1. up' = FALSE /\ UNCHANGED <<readyState, asked>>
        BY <1>1 DEF Link!Drop, Link!Fail
    <2> QED
        BY <2>1
<1>2. CASE Link!Connect
    <2>1. up' = TRUE /\ readyState' = "open" /\ UNCHANGED asked
        BY <1>2 DEF Link!Connect
    <2> QED
        BY <2>1
<1>3. CASE Link!Ask
    <2>1. asked' = TRUE /\ UNCHANGED <<up, readyState>>
        BY <1>3 DEF Link!Ask
    <2> QED
        BY <2>1
<1>4. CASE Link!StoreClosing
    <2>1. asked' \in BOOLEAN /\ readyState' = "closing" /\ UNCHANGED up
        BY <1>4 DEF Link!StoreClosing
    <2> QED
        BY <2>1
<1>5. CASE Link!EndClose \/ Link!EndOther
    BY <1>5 DEF Link!EndClose, Link!EndOther
<1>6. CASE \/ Link!Try \/ Link!GiveUp \/ Link!Open \/ Link!BeginClose \/ Link!BeginOther
           \/ Link!Arrive \/ Link!Handle
    BY <1>6 DEF Link!Try, Link!GiveUp, Link!Open, Link!BeginClose, Link!BeginOther,
                Link!Arrive, Link!Handle
<1> QED
    BY <1>1, <1>2, <1>3, <1>4, <1>5, <1>6 DEF Link!Next

\* Steps of the link that touch neither texts, server, settings nor history.
LEMMA LinkOnly ==
    ASSUME Typed, Link!Next, UNCHANGED <<toServer, toHost, serverVars, uploadVars>>,
           stale' = stale, mixed' \in BOOLEAN
    PROVE  NetTyped' /\ BuffersTyped' /\ HistoryTyped'
<1>1. NetTyped /\ BuffersTyped /\ HistoryTyped /\ LinkTyped
    BY LinkStep DEF Typed
<1>2. NetTyped'
    BY <1>1 DEF NetTyped, LinkTyped, serverVars
<1>3. BuffersTyped'
    BY <1>1 DEF BuffersTyped, uploadVars
<1>4. HistoryTyped'
    BY <1>1 DEF HistoryTyped
<1> QED
    BY <1>2, <1>3, <1>4

\* Steps of the network and of the server keep the types.
LEMMA NetStep ==
    ASSUME Typed, Try \/ Connect \/ Disconnect \/ LoseUnread \/ AskToClose \/ Server
    PROVE  Typed'
<1>0. NetTyped /\ HostTyped /\ BuffersTyped /\ HistoryTyped
    BY DEF Typed
<1>1. CASE Try \/ Connect
    <2>1. /\ Link!Next /\ UNCHANGED <<toServer, toHost, serverVars, uploadVars, history>>
          /\ UNCHANGED <<phase, opc, who, details, roomVars>>
          /\ wpc' \in {"connecting", "opening", "idle"}
        BY <1>1 DEF Try, Connect, Link!Next
    <2>2. NetTyped' /\ BuffersTyped' /\ HistoryTyped'
        BY <1>0, <2>1, LinkOnly DEF history, HistoryTyped
    <2>3. HostTyped'
        BY <1>0, <2>1 DEF roomVars, HostTyped
    <2> QED
        BY <2>2, <2>3 DEF Typed
<1>2. ASSUME UNCHANGED <<handler, roomVars, uploadVars, history>>
      PROVE  HostTyped' /\ BuffersTyped' /\ HistoryTyped'
    BY <1>0, <1>2 DEF handler, roomVars, uploadVars, history,
                      HostTyped, BuffersTyped, HistoryTyped
<1>3. CASE Disconnect
    <2>1. NetTyped'
        <3>1. NoDetails \in DetailSet
            BY DEF NoDetails, DetailSet
        <3>2. toServer' = <<>> /\ <<>> \in Seq(Texts)
            BY <1>3 DEF Disconnect
        <3>3. members' = {} /\ serverDetails' = NoDetails /\ UNCHANGED toHost
            BY <1>3 DEF Disconnect
        <3>4. LinkTyped
            BY <1>0, <1>3, LinkStep DEF Disconnect, Link!Next
        <3> QED
            BY <1>0, <3>1, <3>2, <3>3, <3>4 DEF NetTyped, LinkTyped
    <2> QED
        BY <1>2, <1>3, <2>1 DEF Typed, Disconnect
<1>7. CASE LoseUnread
    <2>1. toHost' \in Seq(Events)
        <3>1. PICK n \in 0 .. Len(toHost) - 1 : toHost' = SubSeq(toHost, 1, n)
            BY <1>7 DEF LoseUnread
        <3> QED
            BY <1>0, <3>1 DEF NetTyped
    <2>2. NetTyped'
        BY <1>0, <1>7, <2>1 DEF LoseUnread, linkVars, serverVars, NetTyped
    <2> QED
        BY <1>2, <1>7, <2>2 DEF Typed, LoseUnread
<1>8. CASE AskToClose
    <2>1. Link!Next /\ UNCHANGED <<toServer, toHost, serverVars, handler, roomVars, uploadVars,
                                 history>>
        BY <1>8 DEF AskToClose, Link!Next
    <2>2. NetTyped'
        BY <1>0, <2>1, LinkOnly DEF history, HistoryTyped
    <2> QED
        BY <1>2, <2>1, <2>2 DEF Typed
<1>4. CASE ServerCreateRoom
    <2>1. Head(toServer) \in Texts /\ toServer' \in Seq(Texts)
        BY <1>0, <1>4, QueueFacts DEF ServerCreateRoom, NetTyped
    <2>2. DetailsOf(Head(toServer)) \in DetailSet
        BY <2>1 DEF DetailsOf, Texts, DetailSet
    <2>3. /\ [method |-> "createRoomResponse", success |-> TRUE] \in Events
          /\ [method |-> "createRoomResponse", success |-> FALSE] \in Events
        BY Zenon DEF Events
    <2>4. toHost' \in Seq(Events)
        BY <1>0, <1>4, <2>3, AppendTyped DEF ServerCreateRoom, NetTyped
    <2>5. NetTyped'
        BY <1>0, <1>4, <2>1, <2>2, <2>4 DEF ServerCreateRoom, linkVars, NetTyped
    <2> QED
        BY <1>2, <1>4, <2>5 DEF Typed, ServerCreateRoom
<1>5. CASE ServerAudioDetails
    <2>1. Head(toServer) \in Texts /\ toServer' \in Seq(Texts)
        BY <1>0, <1>5, QueueFacts DEF ServerAudioDetails, NetTyped
    <2>2. DetailsOf(Head(toServer)) \in DetailSet /\ NoDetails \in DetailSet
        BY <2>1 DEF DetailsOf, Texts, DetailSet, NoDetails
    <2>3. NetTyped'
        BY <1>0, <1>5, <2>1, <2>2 DEF ServerAudioDetails, linkVars, NetTyped
    <2> QED
        BY <1>2, <1>5, <2>3 DEF Typed, ServerAudioDetails
<1>6. ASSUME NEW c \in Clients, ClientJoins(c) \/ ClientLeaves(c)
      PROVE  Typed'
    <2>1. \A m \in {"clientJoin", "clientLeave"} : [method |-> m, id |-> c] \in Events
        BY DEF Events
    <2>2. toHost' \in Seq(Events)
        <3>1. \E m \in {"clientJoin", "clientLeave"} :
                  toHost' = Append(toHost, [method |-> m, id |-> c])
            BY <1>6 DEF ClientJoins, ClientLeaves
        <3> QED
            BY <1>0, <2>1, <3>1, AppendTyped DEF NetTyped
    <2>3. NetTyped'
        BY <1>0, <1>6, <2>2 DEF ClientJoins, ClientLeaves, linkVars, NetTyped
    <2> QED
        BY <1>2, <1>6, <2>3 DEF Typed, ClientJoins, ClientLeaves
<1> QED
    BY <1>1, <1>3, <1>4, <1>5, <1>6, <1>7, <1>8 DEF Server

-----------------------------------------------------------------------------
(* The websocket thread. *)

\* Among positions of a sequence there is a last.
LEMMA HasLast ==
    ASSUME NEW n \in Nat, NEW P \in SUBSET (1 .. n), P /= {}
    PROVE  \E i \in P : \A j \in P : j <= i
<1> DEFINE T == {n - i : i \in P}
           R == OpToRel(<, Nat)
<1>1. T \subseteq Nat /\ T /= {}
    <2>1. \A i \in P : i \in Int /\ 1 <= i /\ i <= n
        OBVIOUS
    <2>2. \A i \in P : n - i \in Nat
        BY <2>1
    <2> QED
        BY <2>2
<1>2. \E x \in T : \A y \in T : ~(<<y, x>> \in R)
    BY <1>1, NatLessThanWellFounded, WFMin
<1>3. PICK i \in P : \A y \in T : ~(<<y, n - i>> \in R)
    BY <1>2
<1>4. ASSUME NEW j \in P PROVE j <= i
    <2>1. n - j \in T /\ n - j \in Nat /\ n - i \in Nat
        BY <1>1
    <2>2. ~(n - j < n - i)
        BY <1>3, <2>1 DEF OpToRel
    <2> QED
        BY <2>2
<1> QED
    BY <1>4

\* removeParticipant leaves a sequence of clients.
LEMMA RemoveTyped ==
    ASSUME NEW s \in Seq(Clients), NEW c \in Clients
    PROVE  RemoveParticipant(s, c) \in Seq(Clients)
<1>1. \A i \in 1 .. Len(s) : RemoveAt(s, i) \in Seq(Clients)
    <2> SUFFICES ASSUME NEW i \in 1 .. Len(s)
                 PROVE  RemoveAt(s, i) \in Seq(Clients)
        OBVIOUS
    <2>1. SubSeq(s, 1, i - 1) \in Seq(Clients) /\ SubSeq(s, i + 1, Len(s)) \in Seq(Clients)
        OBVIOUS
    <2> QED
        BY <2>1 DEF RemoveAt
<1> DEFINE here == {i \in DOMAIN s : s[i] = c}
           last == CHOOSE i \in here : \A j \in here : j <= i
<1>2. CASE here = {}
    BY <1>2 DEF RemoveParticipant
<1>3. CASE here /= {}
    <2>1. here \in SUBSET (1 .. Len(s)) /\ Len(s) \in Nat
        OBVIOUS
    <2>2. \E i \in here : \A j \in here : j <= i
        BY <1>3, <2>1, HasLast
    <2>3. last \in here
        BY <2>2
    <2>4. RemoveParticipant(s, c) = RemoveAt(s, last)
        BY <1>3 DEF RemoveParticipant
    <2> QED
        BY <1>1, <2>1, <2>3, <2>4
<1> QED
    BY <1>2, <1>3

\* What a received event gives its handler.
LEMMA ReceiveTyped ==
    ASSUME Typed, NEW m \in {"createRoomResponse", "clientJoin", "clientLeave"},
           Receive(m)
    PROVE  /\ NetTyped' /\ BuffersTyped' /\ HistoryTyped'
           /\ UNCHANGED <<phase, opc, details>>
           /\ wpc = "idle"
           /\ m /= "createRoomResponse" => Head(toHost).id \in Clients
<1>0. NetTyped /\ HostTyped /\ BuffersTyped /\ HistoryTyped
    BY DEF Typed
<1>1. Head(toHost) \in Events /\ toHost' \in Seq(Events)
    BY <1>0, QueueFacts DEF Receive, NetTyped
<1>2. NetTyped' /\ BuffersTyped'
    BY <1>0, <1>1 DEF Receive, linkVars, serverVars, uploadVars, NetTyped, BuffersTyped
<1>3. HistoryTyped'
    <2>1. mixed' \in BOOLEAN
        BY DEF Receive
    <2>2. stale' = stale
        BY DEF Receive
    <2> QED
        BY <1>0, <2>1, <2>2 DEF HistoryTyped
<1>4. m /= "createRoomResponse" => Head(toHost).id \in Clients
    BY <1>1 DEF Receive, Events
<1> QED
    BY <1>2, <1>3, <1>4 DEF Receive

\* Steps of the websocket thread keep the types.
LEMMA HostStep ==
    ASSUME Typed, WebSocketThread
    PROVE  Typed'
<1>0. NetTyped /\ HostTyped /\ BuffersTyped /\ HistoryTyped
    BY DEF Typed
<1>1. ASSUME UNCHANGED <<netVars, serverVars, uploadVars, history>>
      PROVE  NetTyped' /\ BuffersTyped' /\ HistoryTyped'
    BY <1>0, <1>1 DEF netVars, linkVars, serverVars, uploadVars, history,
                      NetTyped, BuffersTyped, HistoryTyped
<1>2. CASE OnOpen
    <2>1. HostTyped'
        <3>1. /\ wpc' = "create" /\ phase' = "open" /\ signalState' = "open"
              /\ UNCHANGED <<opc, who, details, roomState, participants, channels, connections>>
            BY <1>2 DEF OnOpen
        <3> QED
            BY <1>0, <3>1 DEF HostTyped
    <2>2. mixed' \in BOOLEAN
        BY <1>2 DEF OnOpen
    <2>3. NetTyped' /\ BuffersTyped' /\ HistoryTyped'
        BY <1>2, <2>2, LinkOnly DEF OnOpen, Link!Next
    <2> QED
        BY <2>1, <2>3 DEF Typed
<1>3. ASSUME NEW what \in {"rate", "depth"}, LoadDetail(what)
      PROVE  Typed'
    <2>1. /\ buffers[uploadBuffer].rate \in Rates
          /\ buffers[uploadBuffer].depth \in Depths
        BY <1>0 DEF BuffersTyped, LiveBuffers
    <2>2. details' \in DetailSet
        BY <1>0, <1>3, <2>1 DEF LoadDetail, HostTyped, DetailSet
    <2>3. wpc' = "createSend" => details'.rate \in Rates /\ details'.depth \in Depths
        BY <1>3, <2>2 DEF LoadDetail, DetailSet
    <2>4. HostTyped'
        BY <1>0, <1>3, <2>2, <2>3 DEF LoadDetail, HostTyped, roomVars
    <2>5. NetTyped' /\ BuffersTyped'
        BY <1>0, <1>3 DEF LoadDetail, netVars, linkVars, serverVars, uploadVars,
                          NetTyped, BuffersTyped
    <2>6. stale' \in BOOLEAN /\ mixed' = mixed
        BY <1>0, <1>3 DEF LoadDetail, HistoryTyped
    <2> QED
        BY <1>0, <2>4, <2>5, <2>6 DEF Typed, HistoryTyped
<1>4. CASE CreateRoom
    <2>1. details.rate \in Rates /\ details.depth \in Depths
        BY <1>0, <1>4 DEF CreateRoom, HostTyped
    <2>2. toServer' \in Seq(Texts)
        BY <1>0, <1>4, <2>1, SendTyped DEF CreateRoom, NetTyped
    <2>3. NetTyped' /\ BuffersTyped' /\ HistoryTyped'
        BY <1>0, <1>4, <2>2 DEF CreateRoom, linkVars, serverVars, uploadVars, history,
                                NetTyped, BuffersTyped, HistoryTyped
    <2>4. NoDetails \in DetailSet
        BY DEF NoDetails, DetailSet
    <2>5. HostTyped'
        BY <1>0, <1>4, <2>4 DEF CreateRoom, HostTyped, roomVars
    <2> QED
        BY <2>3, <2>5 DEF Typed
<1>5. CASE OnClose
    <2>1. HostTyped'
        <3>1. /\ wpc' = "closeSignal" /\ phase' = "closed" /\ roomState' = "closed"
              /\ UNCHANGED <<opc, who, details, signalState, participants, channels,
                            connections>>
            BY <1>5 DEF OnClose
        <3> QED
            BY <1>0, <3>1 DEF HostTyped
    <2>2. mixed' \in BOOLEAN
        BY <1>5 DEF OnClose
    <2>3. NetTyped' /\ BuffersTyped' /\ HistoryTyped'
        BY <1>5, <2>2, LinkOnly DEF OnClose, Link!Next
    <2> QED
        BY <2>1, <2>3 DEF Typed
<1>6. CASE CloseSignal \/ ReplaceParticipants \/ OpenMeetsClose
    <2>1. /\ wpc' \in {"reset", "idle"} /\ signalState' \in {"closed", signalState}
          /\ participants' \in {<<>>, participants}
          /\ channels' \in {{}, channels} /\ connections' \in {{}, connections}
          /\ UNCHANGED <<phase, opc, who, details, roomState>>
          /\ wpc' /= "createSend"
        BY <1>6 DEF CloseSignal, ReplaceParticipants, OpenMeetsClose
    <2>2. participants' \in Seq(Clients) /\ channels' \subseteq Clients
          /\ connections' \subseteq Clients
        <3>1. <<>> \in Seq(Clients)
            OBVIOUS
        <3> QED
            BY <1>0, <2>1, <3>1 DEF HostTyped
    <2>3. HostTyped'
        BY <1>0, <2>1, <2>2 DEF HostTyped
    <2> QED
        BY <1>1, <1>6, <2>3 DEF CloseSignal, ReplaceParticipants, OpenMeetsClose, Typed
<1>11. CASE ClosePeerConnections
    <2>1. HostTyped'
        BY <1>0, <1>11 DEF ClosePeerConnections, HostTyped
    <2>2. NetTyped' /\ BuffersTyped' /\ HistoryTyped'
        BY <1>0, <1>11, LinkOnly DEF ClosePeerConnections, Link!Next, history, HistoryTyped
    <2> QED
        BY <2>1, <2>2 DEF Typed
<1>7. CASE CreatePeerConnection \/ CloseRtcConnection
    <2>1. NoClient \in Clients
        BY SessionAssumption DEF NoClient
    <2>2. HostTyped'
        BY <1>0, <1>7, <2>1 DEF CreatePeerConnection, CloseRtcConnection, HostTyped
    <2> QED
        BY <1>1, <1>7, <2>2 DEF CreatePeerConnection, CloseRtcConnection, Typed
<1>8. CASE OnCreateRoomResponse
    <2>1. NetTyped' /\ BuffersTyped' /\ HistoryTyped'
          /\ UNCHANGED <<phase, opc, details>> /\ wpc = "idle"
        BY <1>8, ReceiveTyped DEF OnCreateRoomResponse
    <2>2. HostTyped'
        BY <1>0, <1>8, <2>1 DEF OnCreateRoomResponse, HostTyped
    <2> QED
        BY <2>1, <2>2 DEF Typed
<1>9. CASE OnClientJoin
    <2>1. /\ NetTyped' /\ BuffersTyped' /\ HistoryTyped' /\ UNCHANGED <<phase, opc, details>>
          /\ Head(toHost).id \in Clients
        BY <1>9, ReceiveTyped DEF OnClientJoin
    <2>2. participants' \in Seq(Clients)
        BY <1>0, <1>9, <2>1, AppendTyped DEF OnClientJoin, HostTyped
    <2>3. HostTyped'
        BY <1>0, <1>9, <2>1, <2>2 DEF OnClientJoin, HostTyped
    <2> QED
        BY <2>1, <2>3 DEF Typed
<1>10. CASE OnClientLeave
    <2>1. /\ NetTyped' /\ BuffersTyped' /\ HistoryTyped' /\ UNCHANGED <<phase, opc, details>>
          /\ Head(toHost).id \in Clients
        BY <1>10, ReceiveTyped DEF OnClientLeave
    <2>2. participants' \in Seq(Clients)
        BY <1>0, <1>10, <2>1, RemoveTyped DEF OnClientLeave, HostTyped
    <2>3. HostTyped'
        BY <1>0, <1>10, <2>1, <2>2 DEF OnClientLeave, HostTyped
    <2> QED
        BY <2>1, <2>3 DEF Typed
<1> QED
    BY <1>2, <1>3, <1>4, <1>5, <1>6, <1>7, <1>8, <1>9, <1>10, <1>11 DEF WebSocketThread

\* A failed send and the Close it runs keep the types.
LEMMA FailStep ==
    ASSUME Typed, FailedSend
    PROVE  Typed'
<1>0. NetTyped /\ HostTyped /\ BuffersTyped /\ HistoryTyped
    BY DEF Typed
<1>1. CASE OtherClosesSignal
    <2>1. HostTyped'
        <3>1. /\ opc' = "reset" /\ signalState' = "closed"
              /\ UNCHANGED <<phase, wpc, who, details, roomState, participants, channels,
                            connections>>
            BY <1>1 DEF OtherClosesSignal
        <3> QED
            BY <1>0, <3>1 DEF HostTyped
    <2>2. UNCHANGED <<netVars, serverVars, uploadVars, history>>
        BY <1>1 DEF OtherClosesSignal
    <2>3. NetTyped' /\ BuffersTyped' /\ HistoryTyped'
        BY <1>0, <2>2 DEF netVars, linkVars, serverVars, uploadVars, history,
                          NetTyped, BuffersTyped, HistoryTyped
    <2> QED
        BY <2>1, <2>3 DEF Typed
<1>2. CASE SendFails \/ OtherFindsClosed \/ OtherCloses \/ OtherEnds
    <2>1. /\ opc' \in {"idle", "failed", "signal"} /\ phase' \in {"closed", phase}
          /\ roomState' \in {"closed", roomState}
          /\ channels' \in {{}, channels} /\ connections' \in {{}, connections}
          /\ UNCHANGED <<wpc, who, details, signalState, participants>>
        BY <1>2 DEF SendFails, OtherFindsClosed, OtherCloses, OtherEnds, roomVars
    <2>2. HostTyped'
        BY <1>0, <2>1 DEF HostTyped
    <2>3. mixed' \in BOOLEAN
        BY <1>0, <1>2 DEF SendFails, OtherFindsClosed, OtherCloses, OtherEnds, history,
                          HistoryTyped
    <2>4. Link!Next /\ UNCHANGED <<toServer, toHost, serverVars, uploadVars, stale>>
        BY <1>2 DEF SendFails, OtherFindsClosed, OtherCloses, OtherEnds, history, Link!Next
    <2>5. NetTyped' /\ BuffersTyped' /\ HistoryTyped'
        BY <2>3, <2>4, LinkOnly
    <2> QED
        BY <2>2, <2>5 DEF Typed
<1> QED
    BY <1>1, <1>2 DEF FailedSend

-----------------------------------------------------------------------------
(* The control and upload threads. *)

\* A buffer overwritten by one of the right type.
LEMMA Overwritten ==
    ASSUME BuffersTyped, NEW b \in 1 .. 2, NEW new \in LiveBuffers,
           buffers' = [buffers EXCEPT ![b] = new],
           UNCHANGED <<uploadBuffer, replacing, changes>>,
           new.pc /= "idle" => new.report \in Rates
    PROVE  BuffersTyped'
BY DEF BuffersTyped

\* A buffer that has something to report exists.
LEMMA Live ==
    ASSUME BuffersTyped, NEW b \in 1 .. 2, buffers[b].due \/ buffers[b].pc /= "idle"
    PROVE  buffers[b] \in LiveBuffers
BY DEF BuffersTyped, NoBuffer

\* Steps of the control threads keep the types of the buffers.
LEMMA ControlStep ==
    ASSUME BuffersTyped, ControlThread
    PROVE  BuffersTyped'
<1>0. changes < MaxChanges /\ changes' = changes + 1 => changes' \in 0 .. MaxChanges
    BY SessionAssumption DEF BuffersTyped
<1>1. Other \in 1 .. 2 /\ Other /= uploadBuffer
    BY DEF BuffersTyped, Other
<1>2. ASSUME NEW r \in Rates, SetOutputSampleRate(r)
      PROVE  BuffersTyped'
    <2> DEFINE old == buffers[uploadBuffer]
               new == [old EXCEPT !.rate = r, !.due = TRUE]
    <2>1. /\ old \in LiveBuffers /\ uploadBuffer \in 1 .. 2
          /\ old.pc /= "idle" => old.report \in Rates
        BY DEF BuffersTyped
    <2>2. new \in LiveBuffers /\ (new.pc /= "idle" => new.report \in Rates)
        BY <2>1 DEF LiveBuffers
    <2>3. buffers' = [buffers EXCEPT ![uploadBuffer] = new]
        <3>1. buffers' = [[buffers EXCEPT ![uploadBuffer].rate = r]
                             EXCEPT ![uploadBuffer].due = TRUE]
            BY <1>2 DEF SetOutputSampleRate
        <3>2. new = [[old EXCEPT !.rate = r] EXCEPT !.due = TRUE]
            BY <2>1 DEF LiveBuffers
        <3> QED
            BY <2>1, <3>1, <3>2 DEF BuffersTyped
    <2>4. UNCHANGED <<uploadBuffer, replacing>> /\ changes' \in 0 .. MaxChanges
        BY <1>0, <1>2 DEF SetOutputSampleRate
    <2> HIDE DEF old, new
    <2> QED
        BY <2>1, <2>2, <2>3, <2>4 DEF BuffersTyped
<1>3. ASSUME NEW d \in Depths, SetUploadBuffer(d)
      PROVE  BuffersTyped'
    <2>1. /\ Buffer(buffers[uploadBuffer].rate, d) \in LiveBuffers
          /\ Buffer(buffers[uploadBuffer].rate, d).pc = "idle"
        BY DEF Buffer, BuffersTyped, LiveBuffers
    <2>2. replacing' \in BOOLEAN
        BY <1>3 DEF SetUploadBuffer
    <2> QED
        BY <1>0, <1>1, <1>3, <2>1, <2>2 DEF SetUploadBuffer, BuffersTyped
<1>4. CASE DestroyOldBuffer
    <2>1. replacing' \in BOOLEAN
        BY <1>4 DEF DestroyOldBuffer
    <2>2. NoBuffer.pc = "idle"
        BY DEF NoBuffer
    <2>3. buffers' = [buffers EXCEPT ![Other] = NoBuffer] /\ UNCHANGED <<uploadBuffer, changes>>
        BY <1>4 DEF DestroyOldBuffer
    <2> QED
        BY <1>1, <2>1, <2>2, <2>3 DEF BuffersTyped
<1>5. CASE SetOtherSetting
    <2> DEFINE old == buffers[uploadBuffer]
               new == [old EXCEPT !.due = TRUE]
    <2>1. /\ old \in LiveBuffers /\ uploadBuffer \in 1 .. 2
          /\ old.pc /= "idle" => old.report \in Rates
        BY DEF BuffersTyped
    <2>2. new \in LiveBuffers /\ (new.pc /= "idle" => new.report \in Rates)
        BY <2>1 DEF LiveBuffers
    <2>3. buffers' = [buffers EXCEPT ![uploadBuffer] = new]
        BY <1>5, <2>1 DEF SetOtherSetting, LiveBuffers, BuffersTyped
    <2>4. UNCHANGED <<uploadBuffer, replacing>> /\ changes' \in 0 .. MaxChanges
        BY <1>0, <1>5 DEF SetOtherSetting
    <2> HIDE DEF old, new
    <2> QED
        BY <2>1, <2>2, <2>3, <2>4 DEF BuffersTyped
<1> QED
    BY <1>2, <1>3, <1>4, <1>5 DEF ControlThread

\* Steps of the control and upload threads keep the types.
LEMMA UploadStep ==
    ASSUME Typed, ControlThread \/ \E b \in 1 .. 2 : UploadThread(b)
    PROVE  Typed'
<1>0. NetTyped /\ HostTyped /\ BuffersTyped /\ HistoryTyped
    BY DEF Typed
<1>1. ASSUME UNCHANGED <<handler, roomVars>> PROVE HostTyped'
    BY <1>0, <1>1 DEF handler, roomVars, HostTyped
<1>2. ASSUME UNCHANGED <<netVars, serverVars>> PROVE NetTyped'
    BY <1>0, <1>2 DEF netVars, linkVars, serverVars, NetTyped
<1>3. CASE ControlThread
    <2>1. UNCHANGED <<netVars, serverVars, handler, roomVars, history>>
        BY <1>3 DEF ControlThread, SetOutputSampleRate, SetOtherSetting, SetUploadBuffer,
                          DestroyOldBuffer
    <2>2. HistoryTyped'
        BY <1>0, <2>1 DEF history, HistoryTyped
    <2> QED
        BY <1>0, <1>1, <1>2, <1>3, <2>1, <2>2, ControlStep DEF Typed
<1>4. ASSUME NEW b \in 1 .. 2, BufferReady(b)
      PROVE  Typed'
    <2>1. buffers[b] \in LiveBuffers
        BY <1>0, <1>4, Live DEF BufferReady
    <2> DEFINE new == [buffers[b] EXCEPT !.due = FALSE, !.pc = "room",
                                         !.report = buffers[b].rate]
    <2>2. new \in LiveBuffers /\ new.report \in Rates
        BY <2>1 DEF LiveBuffers
    <2>3. buffers' = [buffers EXCEPT ![b] = new]
        BY <1>0, <1>4, <2>1 DEF BufferReady, LiveBuffers, BuffersTyped
    <2> HIDE DEF new
    <2>4. BuffersTyped'
        BY <1>0, <1>4, <2>2, <2>3, Overwritten DEF BufferReady
    <2>5. stale' \in BOOLEAN /\ mixed' = mixed
        BY <1>0, <1>4 DEF BufferReady, HistoryTyped
    <2> QED
        BY <1>0, <1>1, <1>2, <1>4, <2>4, <2>5 DEF BufferReady, Typed, HistoryTyped
<1>5. ASSUME NEW b \in 1 .. 2, NEW passed, NEW next \in {"signal", "send"},
             buffers[b].pc \in {"room", "signal"}, TestThen(b, passed, next)
      PROVE  Typed'
    <2>1. buffers[b] \in LiveBuffers /\ buffers[b].report \in Rates
        BY <1>0, <1>5, Live DEF BuffersTyped
    <2>2. ASSUME passed PROVE BuffersTyped'
        <3> DEFINE new == [buffers[b] EXCEPT !.pc = next]
        <3>1. new \in LiveBuffers /\ new.report \in Rates
            BY <2>1 DEF LiveBuffers
        <3>2. buffers' = [buffers EXCEPT ![b] = new]
            BY <1>0, <1>5, <2>1, <2>2 DEF TestThen, LiveBuffers, BuffersTyped
        <3> HIDE DEF new
        <3>3. UNCHANGED <<uploadBuffer, replacing, changes>>
            BY <1>5 DEF TestThen
        <3> QED
            BY <1>0, <3>1, <3>2, <3>3, Overwritten
    <2>3. ASSUME ~passed PROVE BuffersTyped'
        <3> DEFINE new == [buffers[b] EXCEPT !.pc = "idle", !.report = None]
        <3>1. new \in LiveBuffers /\ new.pc = "idle"
            BY <2>1 DEF LiveBuffers
        <3>2. buffers' = [buffers EXCEPT ![b] = new]
            BY <1>0, <1>5, <2>1, <2>3 DEF TestThen, LiveBuffers, BuffersTyped
        <3> HIDE DEF new
        <3>3. UNCHANGED <<uploadBuffer, replacing, changes>>
            BY <1>5 DEF TestThen
        <3> QED
            BY <1>0, <3>1, <3>2, <3>3, Overwritten
    <2>4. stale' \in BOOLEAN /\ mixed' = mixed
        <3>1. stale' = (stale \/ (~passed /\ RoomRequested)) /\ mixed' = mixed
            BY <1>5, Zenon DEF TestThen
        <3>2. (stale \/ (~passed /\ RoomRequested)) \in BOOLEAN
            OBVIOUS
        <3> QED
            BY <3>1, <3>2
    <2>5. BuffersTyped'
        BY <2>2, <2>3
    <2> QED
        BY <1>0, <1>1, <1>2, <1>5, <2>4, <2>5 DEF TestThen, Typed, HistoryTyped
<1>6. ASSUME NEW b \in 1 .. 2, UpdateAudioSettings(b)
      PROVE  Typed'
    <2>1. buffers[b] \in LiveBuffers /\ buffers[b].report \in Rates
        BY <1>0, <1>6, Live DEF UpdateAudioSettings, BuffersTyped
    <2>2. buffers[b].depth \in Depths
        BY <2>1 DEF LiveBuffers
    <2>3. toServer' \in Seq(Texts)
        BY <1>0, <1>6, <2>1, <2>2, SendTyped DEF UpdateAudioSettings, NetTyped
    <2>4. NetTyped'
        BY <1>0, <1>6, <2>3 DEF UpdateAudioSettings, NetTyped, linkVars, serverVars
    <2> DEFINE new == [buffers[b] EXCEPT !.pc = "idle", !.report = None]
    <2>5. new \in LiveBuffers /\ new.pc = "idle"
        BY <2>1 DEF LiveBuffers
    <2>6. buffers' = [buffers EXCEPT ![b] = new]
        BY <1>0, <1>6, <2>1 DEF UpdateAudioSettings, LiveBuffers, BuffersTyped
    <2> HIDE DEF new
    <2>7. BuffersTyped'
        BY <1>0, <1>6, <2>5, <2>6, Overwritten DEF UpdateAudioSettings
    <2>8. HistoryTyped'
        BY <1>0, <1>6 DEF UpdateAudioSettings, history, HistoryTyped
    <2> QED
        BY <1>1, <1>6, <2>4, <2>7, <2>8 DEF UpdateAudioSettings, Typed
<1> QED
    BY <1>3, <1>4, <1>5, <1>6 DEF UploadThread, TestRoomState, TestSignalState

\* Every step keeps the types.
LEMMA StepTyped == Typed /\ [Next]_vars => Typed'
<1>1. ASSUME Typed, UNCHANGED vars PROVE Typed'
    BY <1>1 DEF Typed, NetTyped, HostTyped, BuffersTyped, HistoryTyped,
                vars, netVars, linkVars, serverVars, handler, roomVars, uploadVars, history
<1> QED
    BY <1>1, NetStep, HostStep, FailStep, UploadStep DEF Next

\* Types, in every state.
LEMMA AlwaysTyped == Spec => []Typed
BY InitTyped, StepTyped, PTL DEF Spec

\* Types of every thread's locals and of every text under way.
THEOREM TypeCorrect == Spec => []TypeOK
<1>1. Typed => TypeOK
    BY DEF Typed, NetTyped, HostTyped, BuffersTyped, HistoryTyped, TypeOK
<1> QED
    BY <1>1, AlwaysTyped, PTL

-----------------------------------------------------------------------------
(* Events and threads. *)

Closing == opc \in {"signal", "reset"}

\* The positions of the websocket thread in which it handles no event of a link.
Apart == {"idle", "connecting", "opening", "closeSignal", "reset"}

\* Between an Open and the next Close the signal is open and the state is not
\* closed; a Close that nothing disturbs finds no connection and no handler.
EventsInv ==
    /\ phase = "open" =>
         /\ signalState = "open" /\ readyState /= "closed"
         /\ wpc = "idle" \/ wpc \notin Apart
    /\ phase = "closed" =>
         /\ roomState = "closed" /\ wpc \in Apart
         /\ wpc /= "opening" => ~up
    /\ wpc = "opening" => readyState /= "closed"
    /\ Closing => phase = "closed" /\ wpc = "idle" /\ readyState /= "closed"
    /\ opc = "reset" => signalState = "closed"

PhaseInv ==
    /\ wpc \in {"connecting", "closeSignal", "reset"} => ~up
    /\ ~mixed => EventsInv

\* What the actions do to the state of the link.
LEMMA LinkFacts ==
    ASSUME Typed
    PROVE  /\ Try => readyState = "closed" /\ toHost = <<>> /\ UNCHANGED linkVars
           /\ Connect => \/ wpc' = "opening" /\ up' /\ readyState' = "open"
                         \/ wpc' = "idle" /\ UNCHANGED linkVars
           /\ Disconnect => up /\ ~up' /\ UNCHANGED readyState
           /\ AskToClose => UNCHANGED up /\ readyState' \in {readyState, "closing"}
           /\ OnOpen => UNCHANGED linkVars
           /\ OnClose => ~up /\ UNCHANGED linkVars
           /\ ClosePeerConnections => UNCHANGED up /\ readyState' = "closed"
           /\ SendFails \/ OtherFindsClosed \/ OtherCloses => UNCHANGED linkVars
           /\ OtherEnds => UNCHANGED up /\ readyState' = "closed"
<1>1. up \in BOOLEAN
    BY DEF Typed, NetTyped
<1>2. Try => readyState = "closed" /\ toHost = <<>> /\ UNCHANGED linkVars
    BY DEF Try, Link!Try, linkVars
<1>3. Connect => \/ wpc' = "opening" /\ up' /\ readyState' = "open"
                 \/ wpc' = "idle" /\ UNCHANGED linkVars
    BY DEF Connect, Link!Connect, Link!GiveUp, linkVars
<1>4. /\ Disconnect => up /\ ~up' /\ UNCHANGED readyState
      /\ AskToClose => UNCHANGED up /\ readyState' \in {readyState, "closing"}
    BY DEF Disconnect, Link!Drop, AskToClose, Link!Ask, Link!StoreClosing
<1>5. /\ OnOpen => UNCHANGED linkVars
      /\ OnClose => ~up /\ UNCHANGED linkVars
      /\ ClosePeerConnections => UNCHANGED up /\ readyState' = "closed"
    BY DEF OnOpen, Link!Open, OnClose, Link!BeginClose, ClosePeerConnections,
           Link!EndClose, linkVars
<1>6. /\ SendFails \/ OtherFindsClosed \/ OtherCloses => UNCHANGED linkVars
      /\ OtherEnds => UNCHANGED up /\ readyState' = "closed"
    BY <1>1 DEF SendFails, Link!Fail, OtherFindsClosed, OtherCloses, Link!BeginOther,
                OtherEnds, Link!EndOther, linkVars
<1> QED
    BY <1>2, <1>3, <1>4, <1>5, <1>6

\* A Close begins while no handler runs and the connection is gone.
CloseAlone ==
    /\ OnClose \/ OtherCloses
    /\ ~up /\ phase' = "closed" /\ roomState' = "closed" /\ wpc = "idle" /\ ~Closing
    /\ wpc' \in {"idle", "closeSignal"}
    /\ opc' = opc \/ (opc' = "signal" /\ wpc' = "idle")
    /\ UNCHANGED <<toServer, toHost, serverVars, details, channels, connections, uploadVars,
                  stale>>

\* Only such a Close ends the exception.
LEMMA MixedStays ==
    ASSUME Typed, [Next]_vars, ~mixed'
    PROVE  (~mixed /\ ~OnClose /\ ~OtherCloses) \/ CloseAlone
<1> USE LinkFacts DEF linkVars
<1>1. CASE OnClose
    <2>1. ~Closing
        BY <1>1 DEF OnClose, Closing
    <2> QED
        BY <1>1, <2>1 DEF OnClose, CloseAlone
<1>2. CASE OtherCloses
    BY <1>2 DEF OtherCloses, CloseAlone, Closing
<1>3. CASE ~OnClose /\ ~OtherCloses /\ (WebSocketThread \/ FailedSend)
    BY <1>3 DEF WebSocketThread, OnOpen, OpenMeetsClose, LoadDetail, CreateRoom, CloseSignal,
                ClosePeerConnections, OnCreateRoomResponse, ReplaceParticipants, OnClientJoin,
                CreatePeerConnection, OnClientLeave, CloseRtcConnection, Receive, FailedSend,
                SendFails, OtherFindsClosed, OtherClosesSignal, OtherEnds, history
<1>4. ASSUME \/ Try \/ Connect \/ Disconnect \/ LoseUnread \/ AskToClose \/ Server
             \/ ControlThread \/ (\E b \in 1 .. 2 : UploadThread(b)) \/ UNCHANGED vars
      PROVE  UNCHANGED mixed
        BY <1>4 DEF Try, Connect, Disconnect, LoseUnread, AskToClose, Server, ServerCreateRoom,
                    ServerAudioDetails, ClientJoins, ClientLeaves, ControlThread,
                    SetOutputSampleRate, SetOtherSetting, SetUploadBuffer, DestroyOldBuffer,
                    UploadThread, BufferReady, TestRoomState, TestSignalState, TestThen,
                    UpdateAudioSettings, history, vars
<1> QED
    BY <1>1, <1>2, <1>3, <1>4 DEF Next

\* A new plugin has no link.
LEMMA InitPhase == Init => PhaseInv
BY DEF Init, PhaseInv, EventsInv, Apart, Closing

\* Every step keeps the order of a link's events.
LEMMA PhaseStep == Typed /\ PhaseInv /\ [Next]_vars => PhaseInv'
<1> SUFFICES ASSUME Typed, PhaseInv, [Next]_vars PROVE PhaseInv'
    OBVIOUS
<1>0. NetTyped /\ HostTyped
    BY DEF Typed
<1> USE LinkFacts DEF PhaseInv, EventsInv, Apart, Closing
<1>1. CASE Try \/ Connect
    BY <1>0, <1>1 DEF Try, Connect, HostTyped, linkVars, roomVars, history
<1>2. CASE Disconnect \/ AskToClose
    <2>1. UNCHANGED <<phase, wpc, opc, signalState, roomState, mixed>>
        BY <1>2 DEF Disconnect, AskToClose, handler, roomVars, history
    <2>2. (up' => up) /\ (readyState' = "closed" => readyState = "closed")
        BY <1>2, LinkFacts
    <2> QED
        BY <2>1, <2>2
<1>3. CASE LoseUnread \/ Server \/ ControlThread \/ (\E b \in 1 .. 2 : UploadThread(b))
           \/ UNCHANGED vars
    <2>1. UNCHANGED <<up, readyState, phase, wpc, opc, signalState, roomState, mixed>>
        BY <1>3 DEF LoseUnread, Server, ServerCreateRoom, ServerAudioDetails, ClientJoins,
                    ClientLeaves, ControlThread, SetOutputSampleRate, SetOtherSetting,
                    SetUploadBuffer, DestroyOldBuffer, UploadThread, BufferReady,
                    TestRoomState, TestSignalState, TestThen, UpdateAudioSettings,
                    linkVars, netVars, handler, roomVars, history, vars
    <2> QED
        BY <2>1
<1>4. CASE OnOpen \/ OpenMeetsClose
    BY <1>0, <1>4 DEF OnOpen, OpenMeetsClose, HostTyped, netVars, linkVars, history
<1>5. CASE OnClose
    <2>1. ~up' /\ wpc' = "closeSignal" /\ phase' = "closed" /\ roomState' = "closed"
          /\ UNCHANGED opc
        BY <1>5 DEF OnClose, linkVars
    <2>2. ~mixed' => ~Closing'
        BY <1>5, <2>1 DEF OnClose
    <2> QED
        BY <2>1, <2>2
<1>11. CASE CloseSignal
    BY <1>0, <1>11 DEF CloseSignal, HostTyped, netVars, linkVars, history
<1>12. CASE ClosePeerConnections
    BY <1>0, <1>12 DEF ClosePeerConnections, HostTyped, history
<1>6. CASE CreateRoom \/ (\E what \in {"rate", "depth"} : LoadDetail(what))
    BY <1>0, <1>6 DEF CreateRoom, LoadDetail, HostTyped, netVars, linkVars, roomVars, history
<1>7. CASE OnCreateRoomResponse \/ OnClientJoin \/ OnClientLeave
    BY <1>0, <1>7 DEF OnCreateRoomResponse, OnClientJoin, OnClientLeave, Receive, HostTyped,
                      linkVars
<1>8. CASE ReplaceParticipants \/ CreatePeerConnection \/ CloseRtcConnection
    BY <1>0, <1>8 DEF ReplaceParticipants, CreatePeerConnection, CloseRtcConnection, HostTyped,
                      netVars, linkVars, history
<1>9. CASE SendFails
    <2>1. up' = FALSE /\ UNCHANGED <<readyState, phase, wpc, signalState, roomState, mixed>>
          /\ opc = "idle" /\ opc' = "failed"
        BY <1>9 DEF SendFails, Link!Fail, roomVars, history
    <2> QED
        BY <2>1
<1>15. CASE OtherFindsClosed
    BY <1>0, <1>15 DEF OtherFindsClosed, HostTyped, linkVars, roomVars, history
<1>10. CASE OtherCloses
    <2>1. /\ phase' = "closed" /\ roomState' = "closed" /\ opc' = "signal"
          /\ readyState' /= "closed" /\ UNCHANGED <<up, wpc>>
        BY <1>10 DEF OtherCloses, linkVars
    <2>2. ~mixed' => wpc = "idle" /\ ~up
        BY <1>10 DEF OtherCloses
    <2> QED
        BY <2>1, <2>2
<1>13. CASE OtherClosesSignal
    BY <1>0, <1>13 DEF OtherClosesSignal, HostTyped, netVars, linkVars, history
<1>14. CASE OtherEnds
    BY <1>0, <1>14 DEF OtherEnds, HostTyped, history
<1> QED
    BY <1>1, <1>2, <1>3, <1>4, <1>5, <1>6, <1>7, <1>8, <1>9, <1>10, <1>11,
       <1>12, <1>13, <1>14, <1>15
       DEF Next, WebSocketThread, FailedSend

\* The order of a link's events, in every state.
LEMMA AlwaysPhase == Spec => []PhaseInv
<1>1. Typed /\ PhaseInv /\ [Next]_vars => PhaseInv'
    BY PhaseStep
<1> QED
    BY <1>1, InitPhase, AlwaysTyped, PTL DEF Spec

\* The room is never open on a closed signal, unless a Close ran inside a handler.
THEOREM RoomOnSignal == Spec => []RoomNeedsSignal
<1>1. PhaseInv /\ Typed => RoomNeedsSignal
    BY DEF PhaseInv, EventsInv, RoomNeedsSignal, Typed, HostTyped
<1> QED
    BY <1>1, AlwaysTyped, AlwaysPhase, PTL
==============================================================================
