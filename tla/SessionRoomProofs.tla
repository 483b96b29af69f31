-------------------------- MODULE SessionRoomProofs --------------------------
(***************************************************************************)
(* The room of Session: its participants, the keys of the two maps and the *)
(* server's members agree, for any clients, rates, depths and bounds.      *)
(***************************************************************************)
EXTENDS SessionProofs

CreateRoomAt(i) == toServer[i].method = "createRoom"
Asking == \E i \in DOMAIN toServer : CreateRoomAt(i)
Response(e) == e.method = "createRoomResponse"

NoConnections == channels = {} /\ connections = {}

\* Neither the server nor the host has a room, and none is announced.
NoRoom ==
    /\ serverDetails = NoDetails /\ toHost = <<>> /\ roomState = "closed"
    /\ NoConnections

\* A connection that is gone has no texts and no room; one that is not open yet has
\* been asked for none.
ConnectionInv ==
    /\ ~up => toServer = <<>> /\ serverDetails = NoDetails
    /\ serverDetails = NoDetails => members = {}
    /\ wpc \in {"connecting", "opening"} =>
           toHost = <<>> /\ ~Asking /\ serverDetails = NoDetails

\* One createRoom per connection, before there is anything of a room.
AskInv ==
    /\ \A i, j \in DOMAIN toServer : CreateRoomAt(i) /\ CreateRoomAt(j) => i = j
    /\ Asking => phase = "open" /\ wpc = "idle"
    /\ Asking \/ wpc \in {"connecting", "opening", "create", "createSend"} => NoRoom

\* The maps against the room, inside the handlers too.
MapsInv ==
    /\ phase = "closed" /\ wpc \notin {"closeSignal", "reset"} /\ ~Closing => NoConnections
    /\ phase = "open" /\ roomState = "closed"
          => NoConnections /\ wpc \in {"idle", "create", "createSend"}
    /\ wpc = "clear" => NoConnections
    /\ roomState = "open" /\ wpc /= "clear" =>
         /\ IsInjective(participants)
         /\ wpc = "idle" => channels = InRoom /\ connections = InRoom
         /\ wpc = "channel" =>
              /\ who \in InRoom
              /\ channels = InRoom \ {who} /\ connections = InRoom \ {who}
         /\ wpc = "connection" =>
              /\ who \in InRoom
              /\ channels = InRoom /\ connections = InRoom \ {who}
         /\ wpc = "close" =>
              /\ who \notin InRoom
              /\ channels = InRoom \cup {who} /\ connections = InRoom \cup {who}

\* A response opens the queue of a connection, and the others follow it.
QueueInv ==
    phase = "open" =>
      /\ \A i \in DOMAIN toHost : Response(toHost[i]) =>
           /\ i = 1 /\ roomState = "closed"
           /\ toHost[i].success \/ (Len(toHost) = 1 /\ serverDetails = NoDetails)
      /\ roomState = "closed" /\ serverDetails /= NoDetails => toHost /= <<>>
      /\ roomState = "closed" /\ toHost /= <<>> => Response(toHost[1])

\* Who is in the room once the handler has ended.
Base == IF roomState = "open" /\ wpc /= "clear" THEN InRoom ELSE {}

\* Handling e makes the room S the room T.
Leads(S, e, T) ==
    \/ e.method = "clientJoin" /\ e.id \notin S /\ T = S \cup {e.id}
    \/ e.method = "clientLeave" /\ e.id \in S /\ T = S \ {e.id}
    \/ Response(e) /\ S = {} /\ T = {}

Replays(f) ==
    /\ f[0] = Base
    /\ \A i \in 1 .. Len(toHost) : Leads(f[i - 1], toHost[i], f[i])
    /\ up => f[Len(toHost)] = members

\* Handling the queue in its order leads from the room to the server's members.
ReplayInv ==
    phase = "open" => \E f \in [0 .. Len(toHost) -> SUBSET Clients] : Replays(f)

LiveInv == AskInv /\ MapsInv /\ QueueInv /\ ReplayInv
RoomInv == ConnectionInv /\ PhaseInv /\ (~mixed => LiveInv)

-----------------------------------------------------------------------------
(* Sequences. *)

\* What one more at the end of a queue changes.
LEMMA AppendFacts ==
    ASSUME NEW S, NEW s \in Seq(S), NEW e \in S
    PROVE  /\ Append(s, e) \in Seq(S) /\ Len(s) \in Nat
           /\ Len(Append(s, e)) = Len(s) + 1
           /\ \A i \in 1 .. Len(s) : Append(s, e)[i] = s[i]
           /\ Append(s, e)[Len(s) + 1] = e
           /\ DOMAIN s = 1 .. Len(s) /\ DOMAIN Append(s, e) = 1 .. Len(s) + 1
           /\ Append(s, e) /= <<>>
OBVIOUS

\* What taking the first of a queue changes.
LEMMA TailFacts ==
    ASSUME NEW S, NEW s \in Seq(S), s /= <<>>
    PROVE  /\ Tail(s) \in Seq(S) /\ Head(s) = s[1] /\ Head(s) \in S
           /\ Len(s) \in Nat /\ Len(s) >= 1 /\ Len(Tail(s)) = Len(s) - 1
           /\ \A i \in 1 .. Len(s) - 1 : Tail(s)[i] = s[i + 1]
           /\ DOMAIN s = 1 .. Len(s) /\ DOMAIN Tail(s) = 1 .. Len(s) - 1
OBVIOUS

\* A client that was not there is there once.
LEMMA JoinOnce ==
    ASSUME NEW s \in Seq(Clients), IsInjective(s), NEW c \in Clients, c \notin ToSet(s)
    PROVE  /\ IsInjective(Append(s, c))
           /\ ToSet(Append(s, c)) = ToSet(s) \cup {c}
<1> DEFINE t == Append(s, c)
<1>1. /\ DOMAIN s = 1 .. Len(s) /\ DOMAIN t = 1 .. Len(s) + 1 /\ Len(s) \in Nat
      /\ \A i \in 1 .. Len(s) : t[i] = s[i]
      /\ t[Len(s) + 1] = c
    BY AppendFacts
<1>2. \A i \in 1 .. Len(s) : s[i] /= c /\ s[i] \in ToSet(s)
    BY <1>1 DEF ToSet
<1> HIDE DEF t
<1>3. IsInjective(t)
    <2> SUFFICES ASSUME NEW a \in DOMAIN t, NEW b \in DOMAIN t, t[a] = t[b]
                 PROVE  a = b
        BY DEF IsInjective
    <2>1. (a \in 1 .. Len(s) \/ a = Len(s) + 1) /\ (b \in 1 .. Len(s) \/ b = Len(s) + 1)
        BY <1>1
    <2> QED
        BY <1>1, <1>2, <2>1 DEF IsInjective
<1>4. ToSet(t) = ToSet(s) \cup {c}
    <2>1. \A i \in DOMAIN t : i \in 1 .. Len(s) \/ i = Len(s) + 1
        BY <1>1
    <2>2. 1 .. Len(s) \subseteq DOMAIN t /\ Len(s) + 1 \in DOMAIN t
        BY <1>1
    <2> QED
        BY <1>1, <2>1, <2>2 DEF ToSet
<1> QED
    BY <1>3, <1>4 DEF t

\* removeParticipant takes a client that is there once, and no other.
LEMMA LeaveOnce ==
    ASSUME NEW s \in Seq(Clients), IsInjective(s), NEW c \in ToSet(s)
    PROVE  /\ IsInjective(RemoveParticipant(s, c))
           /\ ToSet(RemoveParticipant(s, c)) = ToSet(s) \ {c}
<1>1. PICK k \in DOMAIN s : s[k] = c
    BY DEF ToSet
<1>2. /\ DOMAIN s = 1 .. Len(s) /\ Len(s) \in Nat /\ k \in 1 .. Len(s)
    OBVIOUS
<1> DEFINE here == {i \in DOMAIN s : s[i] = c}
           t == RemoveAt(s, k)
<1>3. here = {k}
    BY <1>1 DEF IsInjective
<1>4. RemoveParticipant(s, c) = t
    <2>1. (CHOOSE i \in here : \A j \in here : j <= i) = k
        BY <1>2, <1>3
    <2> QED
        BY <1>3, <2>1 DEF RemoveParticipant
<1>5. /\ DOMAIN t = 1 .. Len(s) - 1
      /\ \A i \in 1 .. Len(s) - 1 : t[i] = IF i < k THEN s[i] ELSE s[i + 1]
    <2> DEFINE u == SubSeq(s, 1, k - 1)
               v == SubSeq(s, k + 1, Len(s))
    <2>1. /\ u \in Seq(Clients) /\ Len(u) = k - 1 /\ \A i \in 1 .. k - 1 : u[i] = s[i]
        BY <1>2
    <2>2. /\ v \in Seq(Clients) /\ Len(v) = Len(s) - k
          /\ \A i \in 1 .. Len(s) - k : v[i] = s[k + i]
        BY <1>2
    <2>3. t = u \o v
        BY DEF RemoveAt
    <2> HIDE DEF u, v, t
    <2>4. /\ DOMAIN t = 1 .. Len(u) + Len(v)
          /\ \A i \in 1 .. Len(u) + Len(v) : t[i] = IF i <= Len(u) THEN u[i] ELSE v[i - Len(u)]
        BY <2>1, <2>2, <2>3
    <2>5. DOMAIN t = 1 .. Len(s) - 1
        BY <1>2, <2>1, <2>2, <2>4
    <2>6. ASSUME NEW i \in 1 .. Len(s) - 1
          PROVE  t[i] = IF i < k THEN s[i] ELSE s[i + 1]
        <3>1. i \in 1 .. Len(u) + Len(v)
            BY <1>2, <2>1, <2>2
        <3>2. CASE i < k
            BY <1>2, <2>1, <2>4, <3>1, <3>2
        <3>3. CASE ~(i < k)
            <4>1. i - (k - 1) \in 1 .. Len(s) - k /\ k + (i - (k - 1)) = i + 1
                BY <1>2, <3>3
            <4>2. t[i] = v[i - (k - 1)]
                BY <1>2, <2>1, <2>4, <3>1, <3>3
            <4> QED
                BY <2>2, <3>3, <4>1, <4>2
        <3> QED
            BY <3>2, <3>3
    <2> QED
        BY <2>5, <2>6
<1> HIDE DEF t
<1>6. IsInjective(t)
    <2> SUFFICES ASSUME NEW a \in DOMAIN t, NEW b \in DOMAIN t, t[a] = t[b]
                 PROVE  a = b
        BY DEF IsInjective
    <2> DEFINE at(i) == IF i < k THEN i ELSE i + 1
    <2>1. /\ a \in 1 .. Len(s) - 1 /\ b \in 1 .. Len(s) - 1
          /\ at(a) \in DOMAIN s /\ at(b) \in DOMAIN s
          /\ t[a] = s[at(a)] /\ t[b] = s[at(b)]
        BY <1>2, <1>5
    <2>2. at(a) = at(b)
        BY <2>1 DEF IsInjective
    <2> QED
        BY <1>2, <2>1, <2>2
<1>7. ToSet(t) = ToSet(s) \ {c}
    <2>1. ASSUME NEW i \in DOMAIN t PROVE t[i] \in ToSet(s) \ {c}
        <3>1. PICK j \in DOMAIN s : j /= k /\ t[i] = s[j]
            BY <1>2, <1>5
        <3> QED
            BY <1>1, <3>1 DEF ToSet, IsInjective
    <2>2. ASSUME NEW j \in DOMAIN s, j /= k PROVE \E i \in DOMAIN t : t[i] = s[j]
        <3>1. CASE j < k
            BY <1>2, <1>5, <3>1
        <3>2. CASE j > k
            <4>1. j - 1 \in DOMAIN t /\ ~(j - 1 < k) /\ (j - 1) + 1 = j
                BY <1>2, <1>5, <3>2
            <4> QED
                BY <1>5, <4>1
        <3> QED
            BY <1>2, <2>2, <3>1, <3>2
    <2> QED
        BY <1>1, <2>1, <2>2 DEF ToSet
<1> QED
    BY <1>4, <1>6, <1>7

-----------------------------------------------------------------------------
(* What the steps do to the connection and the queue of createRoom. *)

\* Every text has details of its own.
LEMMA TextNotEmpty ==
    ASSUME NEW t \in Texts
    PROVE  DetailsOf(t) /= NoDetails
BY SessionAssumption DEF Texts, DetailsOf, NoDetails

\* Steps that touch neither the connection nor the room.
Quiet ==
    /\ UNCHANGED <<up, toServer, toHost, serverVars, phase, wpc, who, details, roomState,
                  participants, channels, connections, mixed>>
    /\ Closing' <=> Closing

\* A report on its way out is no createRoom.
SendsDetails(b) ==
    /\ SafeSend("audioDetails", buffers[b].report, buffers[b].depth)
    /\ UNCHANGED <<linkVars, toHost, serverVars, handler, roomVars, mixed>>

\* Control and upload threads leave the link and the room alone; they may
\* send the details.
LEMMA OtherThreads ==
    ASSUME ControlThread \/ \E b \in 1 .. 2 : UploadThread(b)
    PROVE  Quiet \/ \E b \in 1 .. 2 : SendsDetails(b)
<1>1. CASE ControlThread
    BY <1>1 DEF ControlThread, SetOutputSampleRate, SetOtherSetting, SetUploadBuffer,
                DestroyOldBuffer, netVars, linkVars, handler, roomVars, history, Quiet, Closing
<1>2. ASSUME NEW b \in 1 .. 2, UploadThread(b)
      PROVE  Quiet \/ SendsDetails(b)
    <2>1. CASE BufferReady(b) \/ TestRoomState(b) \/ TestSignalState(b)
        BY <2>1 DEF BufferReady, TestRoomState, TestSignalState, TestThen, netVars, linkVars,
                    handler, roomVars, Quiet, Closing
    <2>2. CASE UpdateAudioSettings(b)
        BY <2>2 DEF UpdateAudioSettings, SendsDetails, history
    <2> QED
        BY <1>2, <2>1, <2>2 DEF UploadThread
<1> QED
    BY <1>1, <1>2

\* So does a thread that asks to close, or whose send fails, until it begins a Close
\* or ends it.
LEMMA SendersQuiet ==
    ASSUME Typed,
           \/ AskToClose \/ SendFails \/ OtherFindsClosed \/ OtherClosesSignal
           \/ UNCHANGED vars
    PROVE  Quiet
BY LinkFacts DEF AskToClose, SendFails, OtherFindsClosed, OtherClosesSignal, vars, netVars,
                 linkVars, handler, roomVars, history, Quiet, Closing

\* A report adds no createRoom, and may be lost.
LEMMA ReportsAskNothing ==
    ASSUME Typed, NEW b \in 1 .. 2, SendsDetails(b)
    PROVE  /\ \A i \in DOMAIN toServer' : CreateRoomAt(i)' =>
                   i \in DOMAIN toServer /\ CreateRoomAt(i)
           /\ Asking' => Asking
           /\ ~up => UNCHANGED toServer
<1> DEFINE e == [method |-> "audioDetails", rate |-> buffers[b].report,
                 depth |-> buffers[b].depth]
<1>1. toServer \in Seq(Texts)
    BY DEF Typed, NetTyped
<1>2. UNCHANGED toServer \/ (up /\ toServer' = Append(toServer, e))
    BY DEF SendsDetails, SafeSend
<1>3. CASE UNCHANGED toServer
    BY <1>3 DEF Asking, CreateRoomAt
<1>4. CASE toServer' = Append(toServer, e)
    <2>1. /\ DOMAIN toServer = 1 .. Len(toServer) /\ Len(toServer) \in Nat
          /\ DOMAIN toServer' = 1 .. Len(toServer) + 1
          /\ toServer'[Len(toServer) + 1] = e
          /\ \A i \in 1 .. Len(toServer) : toServer'[i] = toServer[i]
        BY <1>1, <1>4
    <2>2. \A i \in DOMAIN toServer' : CreateRoomAt(i)' =>
              i \in DOMAIN toServer /\ CreateRoomAt(i)
        BY <2>1 DEF CreateRoomAt
    <2> QED
        BY <1>2, <2>2 DEF Asking
<1> QED
    BY <1>2, <1>3, <1>4

\* What the server takes from its queue leaves no createRoom that was not there.
LEMMA TakenText ==
    ASSUME Typed, toServer /= <<>>, toServer' = Tail(toServer)
    PROVE  /\ 1 \in DOMAIN toServer /\ Head(toServer) = toServer[1] /\ Head(toServer) \in Texts
           /\ \A i \in DOMAIN toServer' : /\ i \in 1 .. Len(toServer) - 1
                                          /\ i + 1 \in DOMAIN toServer /\ i + 1 /= 1
                                          /\ CreateRoomAt(i)' = CreateRoomAt(i + 1)
           /\ Asking' => Asking
<1>1. toServer \in Seq(Texts)
    BY DEF Typed, NetTyped
<1>2. /\ 1 \in DOMAIN toServer /\ Head(toServer) = toServer[1] /\ Head(toServer) \in Texts
      /\ \A i \in DOMAIN toServer' : /\ i \in 1 .. Len(toServer) - 1
                                     /\ i + 1 \in DOMAIN toServer /\ i + 1 /= 1
                                     /\ CreateRoomAt(i)' = CreateRoomAt(i + 1)
    BY <1>1, TailFacts DEF CreateRoomAt
<1>3. Asking' => Asking
    BY <1>2 DEF Asking
<1> QED
    BY <1>2, <1>3

\* No step leaves texts or a room on a connection that is gone.
LEMMA ConnectionStep == Typed /\ ConnectionInv /\ [Next]_vars => ConnectionInv'
<1> SUFFICES ASSUME Typed, ConnectionInv, [Next]_vars PROVE ConnectionInv'
    OBVIOUS
<1> USE DEF ConnectionInv
<1>0. NetTyped /\ HostTyped
    BY DEF Typed
<1>1. ASSUME UNCHANGED <<up, toServer, toHost, serverDetails, members, wpc>>
      PROVE  ConnectionInv'
    BY <1>1 DEF Asking, CreateRoomAt
\* A handler that neither sends nor opens.
<1>2. ASSUME UNCHANGED <<up, toServer, serverDetails, members>>,
             wpc' \notin {"connecting", "opening"}
      PROVE  ConnectionInv'
    BY <1>2
<1>3. CASE Disconnect
    <2>1. toServer' = <<>> /\ serverDetails' = NoDetails /\ members' = {}
          /\ UNCHANGED <<toHost, wpc>>
        BY <1>3 DEF Disconnect, handler
    <2>2. ~Asking'
        BY <2>1 DEF Asking
    <2> QED
        BY <2>1, <2>2
<1>4. CASE ServerCreateRoom
    <2>1. toServer /= <<>> /\ toServer' = Tail(toServer) /\ up
          /\ UNCHANGED <<up, members, wpc>>
        BY <1>4 DEF ServerCreateRoom, linkVars, handler
    <2>2. Asking
        BY <1>4, <2>1, TakenText DEF ServerCreateRoom, Asking, CreateRoomAt
    <2>3. serverDetails' = NoDetails => serverDetails = NoDetails
        <3>1. DetailsOf(Head(toServer)) /= NoDetails
            BY <2>1, TakenText, TextNotEmpty
        <3> QED
            BY <1>4, <3>1 DEF ServerCreateRoom
    <2> QED
        BY <2>1, <2>2, <2>3
<1>5. CASE ServerAudioDetails
    <2>1. toServer /= <<>> /\ toServer' = Tail(toServer) /\ up
          /\ UNCHANGED <<up, toHost, members, wpc>>
        BY <1>5 DEF ServerAudioDetails, linkVars, handler
    <2>2. serverDetails' = NoDetails <=> serverDetails = NoDetails
        <3>1. DetailsOf(Head(toServer)) /= NoDetails
            BY <2>1, TakenText, TextNotEmpty
        <3> QED
            BY <1>5, <3>1 DEF ServerAudioDetails
    <2>3. Asking' => Asking
        BY <2>1, TakenText
    <2> QED
        BY <2>1, <2>2, <2>3
<1>6. ASSUME NEW c \in Clients, ClientJoins(c) \/ ClientLeaves(c)
      PROVE  ConnectionInv'
    <2>1. serverDetails /= NoDetails
        BY <1>6 DEF ClientJoins, ClientLeaves
    <2> QED
        BY <1>6, <2>1 DEF ClientJoins, ClientLeaves, linkVars, handler
<1>7. CASE Quiet
    BY <1>1, <1>7 DEF Quiet, serverVars
<1>8. ASSUME NEW b \in 1 .. 2, SendsDetails(b)
      PROVE  ConnectionInv'
    <2>1. UNCHANGED <<up, toHost, serverDetails, members, wpc>>
        BY <1>8 DEF SendsDetails, linkVars, serverVars, handler
    <2> QED
        BY <1>8, <2>1, ReportsAskNothing
<1>9. CASE Try
    <2>1. /\ ~up /\ toHost = <<>>
          /\ UNCHANGED <<up, toServer, toHost, serverDetails, members>>
        BY <1>9, LinkFacts DEF Try, linkVars, serverVars
    <2>2. ~Asking'
        BY <2>1 DEF Asking
    <2> QED
        BY <2>1, <2>2
<1>10. CASE Connect
    <2>1. /\ wpc = "connecting" /\ UNCHANGED <<toServer, toHost, serverDetails, members>>
          /\ UNCHANGED up \/ up'
          /\ wpc' \in {"opening", "idle"}
        BY <1>10, LinkFacts DEF Connect, linkVars, serverVars
    <2>2. ~Asking'
        BY <2>1 DEF Asking, CreateRoomAt
    <2> QED
        BY <2>1, <2>2
<1>11. CASE LoseUnread
    BY <1>11 DEF LoseUnread, linkVars, serverVars, handler
<1>12. CASE CreateRoom
    BY <1>12 DEF CreateRoom, SafeSend, linkVars, serverVars
<1>13. CASE \/ OnOpen \/ OpenMeetsClose \/ OnClose \/ CloseSignal \/ ClosePeerConnections
            \/ ReplaceParticipants \/ CreatePeerConnection \/ CloseRtcConnection
            \/ LoadDetail("rate") \/ LoadDetail("depth")
    <2>1. UNCHANGED <<up, toServer, serverDetails, members>>
        BY <1>13, LinkFacts DEF OnOpen, OpenMeetsClose, OnClose, CloseSignal,
                     ClosePeerConnections, ReplaceParticipants, CreatePeerConnection,
                     CloseRtcConnection, LoadDetail, netVars, linkVars, serverVars
    <2>2. wpc' \notin {"connecting", "opening"}
        BY <1>13 DEF OnOpen, OpenMeetsClose, OnClose, CloseSignal, ClosePeerConnections,
                     ReplaceParticipants, CreatePeerConnection, CloseRtcConnection, LoadDetail
    <2> QED
        BY <1>2, <2>1, <2>2
<1>14. CASE OnCreateRoomResponse \/ OnClientJoin \/ OnClientLeave
    BY <1>2, <1>14 DEF OnCreateRoomResponse, OnClientJoin, OnClientLeave, Receive, linkVars,
                       serverVars
<1>15. CASE OtherCloses \/ OtherEnds
    BY <1>1, <1>15, LinkFacts DEF OtherCloses, OtherEnds, linkVars, serverVars
<1> QED
    BY <1>3, <1>4, <1>5, <1>6, <1>7, <1>8, <1>9, <1>10, <1>11, <1>12, <1>13, <1>14, <1>15,
       OtherThreads, SendersQuiet DEF Next, Server, WebSocketThread, FailedSend

\* Where the threads are while no Close runs inside a handler.
LEMMA Phases ==
    ASSUME Typed, PhaseInv, ~mixed
    PROVE  /\ wpc \in {"create", "createSend", "clear", "channel", "connection", "close"}
                  => phase = "open" /\ signalState = "open"
           /\ wpc \in {"connecting", "opening", "closeSignal", "reset"} => phase = "closed"
           /\ phase = "closed" => roomState = "closed"
           /\ phase = "closed" /\ wpc /= "opening" => ~up
           /\ readyState = "closed" => phase = "closed" /\ ~Closing
           /\ Closing => phase = "closed" /\ wpc = "idle"
           /\ opc = "reset" => signalState = "closed"
BY DEF Typed, HostTyped, PhaseInv, EventsInv, Apart, Closing

\* A step in which no Close begins, and none has run inside a handler.
Undisturbed == [Next]_vars /\ ~mixed /\ ~mixed' /\ ~OnClose /\ ~OtherCloses

Handling == OnCreateRoomResponse \/ OnClientJoin \/ OnClientLeave

\* Steps of the handlers that send nothing and handle no message of the server.
Inner ==
    \/ CloseSignal \/ ClosePeerConnections \/ ReplaceParticipants
    \/ CreatePeerConnection \/ CloseRtcConnection

\* The steps there are then.
LEMMA Steps ==
    ASSUME Typed, PhaseInv, Undisturbed
    PROVE  \/ Quiet \/ (\E b \in 1 .. 2 : SendsDetails(b))
           \/ Try \/ Connect \/ Disconnect \/ LoseUnread
           \/ ServerCreateRoom \/ ServerAudioDetails
           \/ (\E c \in Clients : ClientJoins(c) \/ ClientLeaves(c))
           \/ OnOpen \/ LoadDetail("rate") \/ LoadDetail("depth") \/ CreateRoom
           \/ Inner \/ Handling \/ OtherEnds
<1>1. ~OpenMeetsClose
    BY Phases DEF OpenMeetsClose, Undisturbed
<1> QED
    BY <1>1, OtherThreads, SendersQuiet
       DEF Undisturbed, Next, Server, WebSocketThread, FailedSend, Inner, Handling

\* A message that is handled in time finds its link open, the room as the last
\* message left it, and no createRoom under way.
LEMMA Received ==
    ASSUME Typed, PhaseInv, LiveInv, ~mixed',
           NEW m \in {"createRoomResponse", "clientJoin", "clientLeave"}, Receive(m)
    PROVE  /\ phase = "open" /\ wpc = "idle" /\ ~Asking
           /\ toHost \in Seq(Events) /\ toHost /= <<>>
           /\ toHost[1].method = m /\ Head(toHost) = toHost[1] /\ toHost' = Tail(toHost)
           /\ m = "createRoomResponse" => roomState = "closed"
           /\ m /= "createRoomResponse" => roomState = "open" /\ toHost[1].id \in Clients
           /\ m = "clientJoin" => toHost[1].id \notin InRoom
           /\ m = "clientLeave" => toHost[1].id \in InRoom
<1>0. NetTyped /\ HostTyped
    BY DEF Typed
<1>1. /\ phase = "open" /\ wpc = "idle" /\ toHost /= <<>> /\ toHost' = Tail(toHost)
      /\ Head(toHost).method = m
    BY <1>0 DEF Receive, HostTyped
<1>2. toHost \in Seq(Events)
    BY <1>0 DEF NetTyped
<1>3. /\ toHost[1].method = m /\ Head(toHost) = toHost[1] /\ toHost[1] \in Events
      /\ 1 \in DOMAIN toHost /\ 1 \in 1 .. Len(toHost)
    BY <1>1, <1>2, TailFacts
<1>4. ~Asking
    BY <1>1 DEF LiveInv, AskInv, NoRoom
<1>5. m = "createRoomResponse" => roomState = "closed"
    BY <1>1, <1>3 DEF LiveInv, QueueInv, Response
<1>6. m /= "createRoomResponse" => roomState = "open"
    BY <1>0, <1>1, <1>3 DEF LiveInv, QueueInv, Response, HostTyped
<1>7. m /= "createRoomResponse" => toHost[1].id \in Clients
    BY <1>3 DEF Events
<1>8. PICK f \in [0 .. Len(toHost) -> SUBSET Clients] : Replays(f)
    BY <1>1 DEF LiveInv, ReplayInv
<1>9. f[0] = Base /\ Leads(f[0], toHost[1], f[1])
    <2>1. Leads(f[1 - 1], toHost[1], f[1])
        BY <1>3, <1>8 DEF Replays
    <2> QED
        BY <1>8, <2>1 DEF Replays
<1>10. m /= "createRoomResponse" => f[0] = InRoom
    BY <1>1, <1>6, <1>9 DEF Base
<1>11. m = "clientJoin" => toHost[1].id \notin InRoom
    BY <1>3, <1>9, <1>10 DEF Leads, Response
<1>12. m = "clientLeave" => toHost[1].id \in InRoom
    BY <1>3, <1>9, <1>10 DEF Leads, Response
<1> QED
    BY <1>1, <1>2, <1>3, <1>4, <1>5, <1>6, <1>7, <1>11, <1>12

-----------------------------------------------------------------------------
(* One createRoom per connection. *)

\* No step asks for a second room on a link.
LEMMA AskStep ==
    ASSUME Typed, ConnectionInv, PhaseInv, LiveInv, Undisturbed
    PROVE  AskInv'
<1>0. NetTyped /\ HostTyped
    BY DEF Typed
<1> USE DEF LiveInv, AskInv
<1>1. ASSUME UNCHANGED <<toServer, toHost, serverDetails, phase, wpc, roomState,
                         channels, connections>>
      PROVE  AskInv'
    BY <1>1 DEF Asking, CreateRoomAt, NoRoom, NoConnections
\* No text is added, and the room is not touched.
<1>2. ASSUME ~Asking', wpc' \notin {"connecting", "opening", "create", "createSend"}
      PROVE  AskInv'
    BY <1>2 DEF Asking
<1>3. toServer \in Seq(Texts) /\ toHost \in Seq(Events)
    BY <1>0 DEF NetTyped
<1>4. CASE Try
    <2>1. /\ wpc = "idle" /\ ~up /\ readyState = "closed" /\ toHost = <<>>
          /\ UNCHANGED <<toServer, toHost, serverDetails, roomState, channels, connections>>
        BY <1>4, LinkFacts DEF Try, serverVars, roomVars
    <2>2. phase = "closed" /\ ~Closing /\ roomState = "closed"
        BY <2>1, Phases DEF Undisturbed
    <2>3. NoRoom
        BY <2>1, <2>2 DEF NoRoom, ConnectionInv, MapsInv
    <2>4. NoRoom' /\ toServer' = <<>>
        BY <2>1, <2>3 DEF NoRoom, NoConnections, ConnectionInv
    <2> QED
        BY <2>4 DEF Asking
<1>16. CASE Connect
    <2>1. /\ wpc = "connecting" /\ wpc' \in {"opening", "idle"}
          /\ UNCHANGED <<toServer, toHost, serverDetails, roomState, channels, connections>>
        BY <1>16 DEF Connect, serverVars, roomVars
    <2>2. ~Asking /\ NoRoom
        BY <2>1 DEF ConnectionInv
    <2>3. ~Asking' /\ NoRoom'
        BY <2>1, <2>2 DEF Asking, CreateRoomAt, NoRoom, NoConnections
    <2> QED
        BY <2>3 DEF Asking
<1>17. CASE LoseUnread \/ OtherEnds
    <2>1. /\ ~up /\ wpc = "idle" /\ UNCHANGED <<toServer, wpc>>
        BY <1>17, Phases DEF LoseUnread, OtherEnds, handler, Closing, Undisturbed
    <2>2. toServer' = <<>>
        BY <2>1 DEF ConnectionInv
    <2> QED
        BY <1>2, <2>1, <2>2 DEF Asking
<1>5. CASE Disconnect
    <2>1. toServer' = <<>> /\ serverDetails' = NoDetails
          /\ UNCHANGED <<toHost, phase, wpc, roomState, channels, connections>>
        BY <1>5 DEF Disconnect, handler, roomVars
    <2>2. ~Asking' /\ (NoRoom => NoRoom')
        BY <2>1 DEF Asking, NoRoom, NoConnections
    <2> QED
        BY <2>1, <2>2
<1>6. CASE ServerCreateRoom \/ ServerAudioDetails
    <2>1. /\ toServer /= <<>> /\ toServer' = Tail(toServer)
          /\ UNCHANGED <<phase, wpc, roomState, channels, connections>>
        BY <1>6 DEF ServerCreateRoom, ServerAudioDetails, handler, roomVars
    <2>2. /\ 1 \in DOMAIN toServer /\ Head(toServer) = toServer[1]
          /\ \A i \in DOMAIN toServer' : /\ i \in 1 .. Len(toServer) - 1
                                         /\ i + 1 \in DOMAIN toServer /\ i + 1 /= 1
                                         /\ CreateRoomAt(i)' = CreateRoomAt(i + 1)
          /\ Asking' => Asking
        BY <2>1, TakenText
    <2>4. CASE ServerCreateRoom
        <3>1. CreateRoomAt(1) /\ Asking
            BY <2>2, <2>4 DEF ServerCreateRoom, CreateRoomAt, Asking
        <3>2. ~Asking'
            BY <2>2, <3>1 DEF Asking
        <3> QED
            BY <1>2, <2>1, <3>1, <3>2
    <2>5. CASE ServerAudioDetails
        <3>1. \A i, j \in DOMAIN toServer' : CreateRoomAt(i)' /\ CreateRoomAt(j)' => i = j
            BY <2>2
        <3>2. Asking' => Asking
            BY <2>2
        <3>3. NoRoom => NoRoom'
            BY <2>1, <2>5 DEF ServerAudioDetails, NoRoom, NoConnections
        <3>4. \A i, j \in (DOMAIN toServer)' : (CreateRoomAt(i) /\ CreateRoomAt(j) => i = j)'
            BY <3>1
        <3> QED
            BY <2>1, <3>2, <3>3, <3>4
    <2> QED
        BY <1>6, <2>4, <2>5
<1>7. ASSUME NEW c \in Clients, ClientJoins(c) \/ ClientLeaves(c)
      PROVE  AskInv'
    <2>1. serverDetails /= NoDetails /\ UNCHANGED <<toServer, phase, wpc>>
        BY <1>7 DEF ClientJoins, ClientLeaves, ConnectionInv, handler
    <2>2. ~Asking' /\ wpc' \notin {"connecting", "opening", "create", "createSend"}
        BY <2>1 DEF NoRoom, Asking, CreateRoomAt
    <2> QED
        BY <1>2, <2>2
<1>8. CASE Quiet
    BY <1>1, <1>8 DEF Quiet, serverVars
<1>9. ASSUME NEW b \in 1 .. 2, SendsDetails(b)
      PROVE  AskInv'
    <2>1. UNCHANGED <<toHost, serverDetails, phase, wpc, roomState, channels, connections>>
        BY <1>9 DEF SendsDetails, serverVars, handler, roomVars
    <2>2. NoRoom => NoRoom'
        BY <2>1 DEF NoRoom, NoConnections
    <2> QED
        BY <1>9, <2>1, <2>2, ReportsAskNothing
<1>10. CASE OnOpen
    <2>1. /\ wpc = "opening" /\ wpc' = "create"
          /\ UNCHANGED <<toServer, toHost, serverDetails, roomState, channels, connections>>
        BY <1>10 DEF OnOpen, serverVars
    <2>2. ~Asking /\ NoRoom
        BY <2>1 DEF ConnectionInv
    <2>3. ~Asking' /\ NoRoom'
        BY <2>1, <2>2 DEF Asking, CreateRoomAt, NoRoom, NoConnections
    <2> QED
        BY <2>3 DEF Asking
<1>11. ASSUME NEW what \in {"rate", "depth"}, LoadDetail(what)
       PROVE  AskInv'
    <2>1. /\ wpc = "create" /\ wpc' \in {"create", "createSend"}
          /\ UNCHANGED <<toServer, toHost, serverDetails, phase, roomState, channels,
                       connections>>
        BY <1>11 DEF LoadDetail, netVars, linkVars, serverVars, roomVars
    <2>2. ~Asking /\ NoRoom
        BY <2>1
    <2>3. ~Asking' /\ NoRoom'
        BY <2>1, <2>2 DEF Asking, CreateRoomAt, NoRoom, NoConnections
    <2>4. UNCHANGED toServer
        BY <2>1
    <2> QED
        BY <2>3, <2>4 DEF Asking
<1>12. CASE CreateRoom
    <2>1. /\ wpc = "createSend" /\ wpc' = "idle"
          /\ UNCHANGED <<toHost, serverDetails, phase, roomState, channels, connections>>
        BY <1>12 DEF CreateRoom, serverVars, roomVars
    <2>2. ~Asking /\ NoRoom /\ phase = "open"
        BY <2>1, Phases DEF Undisturbed
    <2>3. NoRoom' /\ phase' = "open"
        BY <2>1, <2>2 DEF NoRoom, NoConnections
    <2> DEFINE e == [method |-> "createRoom", rate |-> details.rate, depth |-> details.depth]
    <2>4. toServer' = toServer \/ toServer' = Append(toServer, e)
        BY <1>12 DEF CreateRoom, SafeSend
    <2>5. \A i \in DOMAIN toServer' : CreateRoomAt(i)' => i = Len(toServer) + 1
        <3>1. CASE toServer' = toServer
            BY <2>2, <3>1 DEF Asking, CreateRoomAt
        <3>2. CASE toServer' = Append(toServer, e)
            <4>1. /\ DOMAIN toServer = 1 .. Len(toServer) /\ Len(toServer) \in Nat
                  /\ DOMAIN toServer' = 1 .. Len(toServer) + 1
                  /\ \A i \in 1 .. Len(toServer) : toServer'[i] = toServer[i]
                BY <1>3, <3>2
            <4> QED
                BY <2>2, <4>1 DEF Asking, CreateRoomAt
        <3> QED
            BY <2>4, <3>1, <3>2
    <2> QED
        BY <2>1, <2>3, <2>5
<1>14. CASE Inner
    <2>1. /\ wpc /= "idle" /\ wpc' \notin {"connecting", "opening", "create", "createSend"}
          /\ UNCHANGED toServer
        BY <1>14 DEF Inner, CloseSignal, ClosePeerConnections, ReplaceParticipants,
                     CreatePeerConnection, CloseRtcConnection, netVars
    <2>2. ~Asking'
        BY <2>1 DEF Asking, CreateRoomAt
    <2> QED
        BY <1>2, <2>1, <2>2
<1>15. CASE Handling
    <2>1. phase = "open" /\ ~Asking /\ wpc = "idle"
        BY <1>15, Received DEF Handling, OnCreateRoomResponse, OnClientJoin, OnClientLeave,
                               Undisturbed
    <2>2. UNCHANGED <<toServer, phase>> /\ wpc' \in {"idle", "clear", "channel", "close"}
        BY <1>15, <2>1 DEF Handling, OnCreateRoomResponse, OnClientJoin, OnClientLeave, Receive
    <2>3. ~Asking'
        BY <2>1, <2>2 DEF Asking, CreateRoomAt
    <2> QED
        BY <1>2, <2>1, <2>2, <2>3
<1> QED
    BY <1>4, <1>5, <1>6, <1>7, <1>8, <1>9, <1>10, <1>11, <1>12, <1>14, <1>15, <1>16, <1>17,
       Steps

-----------------------------------------------------------------------------
(* The maps. *)

\* Each step of a handler moves the maps as its position says.
LEMMA MapsStep ==
    ASSUME Typed, ConnectionInv, PhaseInv, LiveInv, Undisturbed
    PROVE  MapsInv'
<1>0. NetTyped /\ HostTyped
    BY DEF Typed
<1> USE DEF LiveInv, NoConnections
<1>1. ASSUME UNCHANGED <<phase, wpc, who, roomState, participants, channels, connections>>,
             Closing' <=> Closing
      PROVE  MapsInv'
    BY <1>1 DEF MapsInv, InRoom
<1>2. CASE Disconnect \/ LoseUnread \/ ServerCreateRoom \/ ServerAudioDetails
           \/ (\E c \in Clients : ClientJoins(c) \/ ClientLeaves(c))
           \/ Quiet \/ (\E b \in 1 .. 2 : SendsDetails(b))
    BY <1>1, <1>2 DEF Disconnect, LoseUnread, ServerCreateRoom, ServerAudioDetails,
                      ClientJoins, ClientLeaves, Quiet, SendsDetails, handler, roomVars, Closing
<1>3. CASE Try \/ Connect
    <2>1. /\ phase = "closed" /\ roomState = "closed" /\ NoConnections
          /\ UNCHANGED <<phase, roomState, channels, connections>>
          /\ wpc' \in {"connecting", "opening", "idle"}
        <3>1. CASE Try
            BY <3>1, LinkFacts, Phases DEF Try, roomVars, MapsInv, Undisturbed
        <3>2. CASE Connect
            BY <3>2, Phases DEF Connect, roomVars, AskInv, NoRoom, Undisturbed
        <3> QED
            BY <1>3, <3>1, <3>2
    <2> QED
        BY <2>1 DEF MapsInv
<1>4. CASE OnOpen
    <2>1. NoRoom
        BY <1>4 DEF OnOpen, AskInv
    <2> QED
        BY <1>4, <2>1 DEF OnOpen, MapsInv, NoRoom
<1>5. CASE LoadDetail("rate") \/ LoadDetail("depth") \/ CreateRoom
    <2>1. /\ wpc \in {"create", "createSend"} /\ wpc' \in {"idle", "create", "createSend"}
          /\ UNCHANGED <<phase, roomVars>>
        BY <1>5 DEF LoadDetail, CreateRoom
    <2>2. phase = "open" /\ NoRoom
        BY <2>1, Phases DEF AskInv, Undisturbed
    <2> QED
        BY <2>1, <2>2 DEF MapsInv, NoRoom, roomVars
<1>6. CASE CloseSignal
    <2>1. /\ roomState' = "closed" /\ phase' = "closed" /\ wpc' = "reset"
        BY <1>6, Phases DEF CloseSignal, Undisturbed
    <2> QED
        BY <2>1 DEF MapsInv
<1>7. CASE ClosePeerConnections \/ OtherEnds
    <2>1. phase = "closed" /\ roomState = "closed" /\ (OtherEnds => signalState = "closed")
        BY <1>7, Phases DEF ClosePeerConnections, OtherEnds, Closing, Undisturbed
    <2>2. phase' = "closed" /\ roomState' = "closed" /\ NoConnections' /\ wpc' /= "clear"
        BY <1>7, <2>1, Phases DEF ClosePeerConnections, OtherEnds, Undisturbed
    <2> QED
        BY <2>2 DEF MapsInv
<1>8. CASE ReplaceParticipants
    <2>1. phase = "open" /\ NoConnections /\ roomState = "open"
        BY <1>0, <1>8, Phases DEF ReplaceParticipants, MapsInv, HostTyped, Undisturbed
    <2>2. InRoom' = {} /\ IsInjective(participants')
        BY <1>8 DEF ReplaceParticipants, InRoom, ToSet, IsInjective
    <2> QED
        BY <1>8, <2>1, <2>2 DEF ReplaceParticipants, MapsInv
<1>9. CASE CreatePeerConnection \/ CloseRtcConnection
    <2>1. /\ wpc \in {"channel", "connection", "close"} /\ phase = "open" /\ roomState = "open"
        BY <1>0, <1>9, Phases DEF CreatePeerConnection, CloseRtcConnection, MapsInv, HostTyped,
                                  Undisturbed
    <2>2. UNCHANGED <<phase, roomState, participants>> /\ InRoom' = InRoom
        BY <1>9 DEF CreatePeerConnection, CloseRtcConnection, InRoom
    <2>3. CASE wpc = "channel"
        BY <1>9, <2>1, <2>2, <2>3 DEF CreatePeerConnection, CloseRtcConnection, MapsInv
    <2>4. CASE wpc = "connection"
        BY <1>9, <2>1, <2>2, <2>4 DEF CreatePeerConnection, CloseRtcConnection, MapsInv
    <2>5. CASE wpc = "close"
        BY <1>9, <2>1, <2>2, <2>5 DEF CreatePeerConnection, CloseRtcConnection, MapsInv
    <2> QED
        BY <2>1, <2>3, <2>4, <2>5
<1>10. CASE OnCreateRoomResponse
    <2>1. phase = "open" /\ wpc = "idle" /\ roomState = "closed"
        BY <1>10, Received DEF OnCreateRoomResponse, Undisturbed
    <2>2. NoConnections
        BY <2>1 DEF MapsInv
    <2>3. UNCHANGED <<phase, channels, connections>>
        BY <1>10 DEF OnCreateRoomResponse, Receive
    <2>4. (roomState' = "open" /\ wpc' = "clear") \/ UNCHANGED <<roomState, wpc>>
        BY <1>10 DEF OnCreateRoomResponse
    <2> QED
        BY <2>1, <2>2, <2>3, <2>4 DEF MapsInv
<1>11. CASE OnClientJoin
    <2> DEFINE c == toHost[1].id
    <2>1. /\ phase = "open" /\ wpc = "idle" /\ roomState = "open"
          /\ c \in Clients /\ c \notin InRoom /\ Head(toHost) = toHost[1]
        BY <1>11, Received DEF OnClientJoin, Undisturbed
    <2>2. /\ UNCHANGED <<phase, roomState, channels, connections>>
          /\ wpc' = "channel" /\ who' = c /\ participants' = Append(participants, c)
        BY <1>11, <2>1 DEF OnClientJoin, Receive
    <2>3. IsInjective(participants) /\ channels = InRoom /\ connections = InRoom
        BY <2>1 DEF MapsInv
    <2>4. IsInjective(participants') /\ InRoom' = InRoom \cup {c}
        BY <1>0, <2>1, <2>2, <2>3, JoinOnce DEF InRoom, HostTyped
    <2> QED
        BY <2>1, <2>2, <2>3, <2>4 DEF MapsInv
<1>12. CASE OnClientLeave
    <2> DEFINE c == toHost[1].id
    <2>1. /\ phase = "open" /\ wpc = "idle" /\ roomState = "open"
          /\ c \in InRoom /\ Head(toHost) = toHost[1]
        BY <1>12, Received DEF OnClientLeave, Undisturbed
    <2>2. /\ UNCHANGED <<phase, roomState, channels, connections>>
          /\ wpc' = "close" /\ who' = c /\ participants' = RemoveParticipant(participants, c)
        BY <1>12, <2>1 DEF OnClientLeave, Receive
    <2>3. IsInjective(participants) /\ channels = InRoom /\ connections = InRoom
        BY <2>1 DEF MapsInv
    <2>4. IsInjective(participants') /\ InRoom' = InRoom \ {c}
        BY <1>0, <2>1, <2>2, <2>3, LeaveOnce DEF InRoom, HostTyped
    <2> QED
        BY <2>1, <2>2, <2>3, <2>4 DEF MapsInv
<1> QED
    BY <1>2, <1>3, <1>4, <1>5, <1>6, <1>7, <1>8, <1>9, <1>10, <1>11, <1>12,
       Steps DEF Inner, Handling

-----------------------------------------------------------------------------
(* The queue. *)

\* No step puts anything before a response.
LEMMA QueueStep ==
    ASSUME Typed, ConnectionInv, PhaseInv, LiveInv, Undisturbed
    PROVE  QueueInv'
<1>0. NetTyped /\ HostTyped
    BY DEF Typed
<1>1. toHost \in Seq(Events)
    BY <1>0 DEF NetTyped
<1> USE DEF LiveInv
<1>2. ASSUME UNCHANGED <<toHost, serverDetails, phase, roomState>>
      PROVE  QueueInv'
    BY <1>2 DEF QueueInv, Response
<1>3. CASE Try \/ Connect \/ OtherEnds
    <2>1. phase' = "closed"
        <3>1. CASE Try
            BY <3>1, LinkFacts, Phases DEF Try, Undisturbed
        <3>2. CASE Connect
            BY <3>2, Phases DEF Connect, Undisturbed
        <3>3. CASE OtherEnds
            BY <3>3, Phases DEF OtherEnds, Closing, Undisturbed
        <3> QED
            BY <1>3, <3>1, <3>2, <3>3
    <2> QED
        BY <2>1 DEF QueueInv
<1>4. CASE Disconnect
    <2>1. serverDetails' = NoDetails /\ UNCHANGED <<toHost, phase, roomState>>
        BY <1>4 DEF Disconnect, handler, roomVars
    <2> QED
        BY <2>1 DEF QueueInv, Response
<1>13. CASE LoseUnread
    <2>1. PICK n \in 0 .. Len(toHost) - 1 : toHost' = SubSeq(toHost, 1, n)
        BY <1>13 DEF LoseUnread
    <2>2. serverDetails' = NoDetails /\ UNCHANGED <<phase, roomState>>
        BY <1>13 DEF LoseUnread, serverVars, handler, roomVars, ConnectionInv
    <2>3. /\ DOMAIN toHost = 1 .. Len(toHost) /\ DOMAIN toHost' = 1 .. n /\ Len(toHost') = n
          /\ \A i \in 1 .. n : toHost'[i] = toHost[i] /\ i \in 1 .. Len(toHost)
          /\ Len(toHost) \in Nat /\ n < Len(toHost)
        BY <1>1, <2>1
    <2>4. ASSUME phase = "open", NEW i \in DOMAIN toHost', Response(toHost'[i])
          PROVE  i = 1 /\ roomState = "closed" /\ toHost'[i].success
        <3>1. i \in DOMAIN toHost /\ toHost'[i] = toHost[i] /\ Len(toHost) /= 1
            BY <2>3, <2>4
        <3> QED
            BY <2>4, <3>1 DEF QueueInv
    <2>5. ASSUME phase = "open", roomState = "closed", toHost' /= <<>>
          PROVE  Response(toHost'[1])
        <3>1. 1 \in 1 .. n
            BY <2>1, <2>3, <2>5
        <3> QED
            BY <2>3, <2>5, <3>1 DEF QueueInv
    <2> QED
        BY <2>2, <2>4, <2>5 DEF QueueInv, Response
<1>5. CASE ServerCreateRoom
    <2>1. Asking
        <3>1. toServer \in Seq(Texts) /\ toServer /= <<>> /\ Head(toServer).method = "createRoom"
            BY <1>0, <1>5 DEF ServerCreateRoom, NetTyped
        <3>2. 1 \in DOMAIN toServer /\ toServer[1].method = "createRoom"
            BY <3>1, TailFacts
        <3> QED
            BY <3>2 DEF Asking, CreateRoomAt
    <2>2. toHost = <<>> /\ roomState = "closed" /\ serverDetails = NoDetails
        BY <2>1 DEF AskInv, NoRoom
    <2>3. \/ toHost' = <<[method |-> "createRoomResponse", success |-> TRUE]>>
          \/ /\ toHost' = <<[method |-> "createRoomResponse", success |-> FALSE]>>
             /\ serverDetails' = NoDetails
        BY <1>5, <2>2 DEF ServerCreateRoom
    <2>4. UNCHANGED <<phase, roomState>>
        BY <1>5 DEF ServerCreateRoom, handler, roomVars
    <2>5. /\ Len(toHost') = 1 /\ DOMAIN toHost' = {1} /\ toHost' /= <<>>
          /\ Response(toHost'[1])
          /\ toHost'[1].success \/ serverDetails' = NoDetails
        BY <2>3 DEF Response
    <2> QED
        BY <2>2, <2>4, <2>5 DEF QueueInv, Response
<1>6. CASE ServerAudioDetails
    <2>1. serverDetails' = NoDetails <=> serverDetails = NoDetails
        <3>1. Head(toServer) \in Texts
            BY <1>0, <1>6, QueueFacts DEF ServerAudioDetails, NetTyped
        <3> QED
            BY <1>6, <3>1, TextNotEmpty DEF ServerAudioDetails
    <2>2. UNCHANGED <<toHost, phase, roomState>>
        BY <1>6 DEF ServerAudioDetails, handler, roomVars
    <2> QED
        BY <2>1, <2>2 DEF QueueInv, Response
<1>7. ASSUME NEW c \in Clients, ClientJoins(c) \/ ClientLeaves(c)
      PROVE  QueueInv'
    <2>1. serverDetails /= NoDetails
        BY <1>7 DEF ClientJoins, ClientLeaves, ConnectionInv
    <2>2. UNCHANGED <<serverDetails, phase, roomState>>
        BY <1>7 DEF ClientJoins, ClientLeaves, handler, roomVars
    <2>3. PICK e \in Events : toHost' = Append(toHost, e) /\ ~Response(e)
        <3>1. \E m \in {"clientJoin", "clientLeave"} :
                  toHost' = Append(toHost, [method |-> m, id |-> c])
            BY <1>7 DEF ClientJoins, ClientLeaves
        <3>2. \A m \in {"clientJoin", "clientLeave"} :
                  [method |-> m, id |-> c] \in Events /\ ~Response([method |-> m, id |-> c])
            BY DEF Events, Response
        <3> QED
            BY <3>1, <3>2
    <2>4. /\ Len(toHost) \in Nat /\ DOMAIN toHost = 1 .. Len(toHost)
          /\ DOMAIN toHost' = 1 .. Len(toHost) + 1 /\ toHost' /= <<>>
          /\ \A i \in 1 .. Len(toHost) : toHost'[i] = toHost[i]
          /\ ~Response(toHost'[Len(toHost) + 1])
        BY <1>1, <2>3, AppendFacts
    <2>5. ASSUME phase' = "open", NEW i \in DOMAIN toHost', Response(toHost'[i])
          PROVE  i = 1 /\ roomState' = "closed" /\ toHost'[i].success
        <3>1. i \in DOMAIN toHost /\ toHost'[i] = toHost[i]
            BY <2>4, <2>5
        <3> QED
            BY <2>1, <2>2, <2>5, <3>1 DEF QueueInv
    <2>6. ASSUME phase' = "open", roomState' = "closed"
          PROVE  Response(toHost'[1])
        <3>1. toHost /= <<>> /\ Response(toHost[1])
            BY <2>1, <2>2, <2>6 DEF QueueInv
        <3>2. 1 \in 1 .. Len(toHost)
            BY <1>1, <3>1, TailFacts
        <3> QED
            BY <2>4, <3>1, <3>2
    <2> QED
        BY <2>4, <2>5, <2>6 DEF QueueInv, Response
<1>8. CASE Quiet \/ \E b \in 1 .. 2 : SendsDetails(b)
    BY <1>2, <1>8 DEF Quiet, SendsDetails, serverVars, handler, roomVars
<1>9. CASE OnOpen
    <2>1. NoRoom /\ UNCHANGED <<toHost, serverDetails, roomState>>
        BY <1>9 DEF OnOpen, AskInv, serverVars
    <2> QED
        BY <1>1, <2>1 DEF NoRoom, QueueInv
<1>11. CASE LoadDetail("rate") \/ LoadDetail("depth") \/ CreateRoom \/ Inner
    <2>1. UNCHANGED <<toHost, serverDetails, phase, roomState>>
        BY <1>11 DEF Inner, LoadDetail, CreateRoom, CloseSignal, ClosePeerConnections,
                     ReplaceParticipants, CreatePeerConnection, CloseRtcConnection, netVars,
                     serverVars, roomVars
    <2> QED
        BY <1>2, <2>1
<1>12. CASE Handling
    <2>1. /\ phase = "open" /\ toHost /= <<>> /\ toHost' = Tail(toHost)
          /\ toHost[1].method \in {"createRoomResponse", "clientJoin", "clientLeave"}
          /\ OnCreateRoomResponse => roomState = "closed" /\ Response(toHost[1])
          /\ ~OnCreateRoomResponse => roomState = "open" /\ ~Response(toHost[1])
          /\ Head(toHost) = toHost[1]
        <3>1. CASE OnCreateRoomResponse
            BY <3>1, Received DEF OnCreateRoomResponse, Response, Undisturbed
        <3>2. CASE ~OnCreateRoomResponse
            BY <1>12, <3>2, Received DEF Handling, OnClientJoin, OnClientLeave, Response,
                                         Undisturbed
        <3> QED
            BY <3>1, <3>2
    <2>2. UNCHANGED <<serverDetails, phase>>
        BY <1>12 DEF Handling, OnCreateRoomResponse, OnClientJoin, OnClientLeave, Receive,
                     serverVars
    <2>3. \A i \in DOMAIN toHost' : ~Response(toHost'[i])
        <3>1. \A i \in DOMAIN toHost' : /\ i \in 1 .. Len(toHost) - 1
                                        /\ i + 1 \in DOMAIN toHost /\ i + 1 /= 1
                                        /\ toHost'[i] = toHost[i + 1]
            BY <1>1, <2>1, TailFacts
        <3> QED
            BY <2>1, <3>1 DEF QueueInv
    <2>4. roomState' = "closed" => serverDetails' = NoDetails /\ toHost' = <<>>
        <3>1. CASE OnCreateRoomResponse
            <4>1. ~toHost[1].success => serverDetails = NoDetails /\ Len(toHost) = 1
                <5>1. 1 \in DOMAIN toHost
                    BY <1>1, <2>1, TailFacts
                <5> QED
                    BY <2>1, <3>1, <5>1 DEF QueueInv
            <4>2. roomState' = "closed" => ~toHost[1].success
                BY <2>1, <3>1 DEF OnCreateRoomResponse
            <4>3. Len(toHost) = 1 => toHost' = <<>>
                BY <1>1, <2>1
            <4> QED
                BY <2>2, <4>1, <4>2, <4>3
        <3>2. CASE ~OnCreateRoomResponse
            BY <1>12, <2>1, <3>2 DEF Handling, OnClientJoin, OnClientLeave
        <3> QED
            BY <3>1, <3>2
    <2> QED
        BY <2>3, <2>4 DEF QueueInv, Response
<1> QED
    BY <1>3, <1>4, <1>5, <1>6, <1>7, <1>8, <1>9, <1>11, <1>12, <1>13, Steps

-----------------------------------------------------------------------------
(* What handling the queue leads to. *)

\* What the server announces extends the sequence of rooms, and what a handler
\* takes shortens it.
LEMMA ReplayStep ==
    ASSUME Typed, ConnectionInv, PhaseInv, LiveInv, Undisturbed
    PROVE  ReplayInv'
<1>0. NetTyped /\ HostTyped
    BY DEF Typed
<1>1. /\ toHost \in Seq(Events) /\ Len(toHost) \in Nat /\ members \subseteq Clients
      /\ InRoom \subseteq Clients
    BY <1>0 DEF NetTyped, HostTyped, InRoom, ToSet
<1> USE DEF LiveInv
\* The queue, the server and the room are as they were.
<1>2. ASSUME UNCHANGED <<toHost, members, phase>>, Base' = Base, up' => up
      PROVE  ReplayInv'
    BY <1>2 DEF ReplayInv, Replays
<1>3. ASSUME UNCHANGED <<up, toHost, members, phase, wpc, roomState, participants>>
      PROVE  ReplayInv'
    <2>1. Base' = Base
        BY <1>3 DEF Base, InRoom
    <2> QED
        BY <1>2, <1>3, <2>1
<1>4. CASE Try \/ Connect \/ CloseSignal \/ ClosePeerConnections \/ OtherEnds
    <2>1. phase' = "closed"
        <3>1. CASE Try
            BY <3>1, LinkFacts, Phases DEF Try, Undisturbed
        <3>2. CASE Connect
            BY <3>2, Phases DEF Connect, Undisturbed
        <3>3. CASE CloseSignal \/ ClosePeerConnections
            BY <3>3, Phases DEF CloseSignal, ClosePeerConnections, Undisturbed
        <3>4. CASE OtherEnds
            BY <3>4, Phases DEF OtherEnds, Closing, Undisturbed
        <3> QED
            BY <1>4, <3>1, <3>2, <3>3, <3>4
    <2> QED
        BY <2>1 DEF ReplayInv
<1>5. CASE Disconnect
    <2>1. UNCHANGED <<toHost, phase, wpc, roomState, participants>> /\ ~up'
        BY <1>5, LinkFacts DEF Disconnect, handler, roomVars
    <2>2. Base' = Base
        BY <2>1 DEF Base, InRoom
    <2> QED
        BY <2>1, <2>2 DEF ReplayInv, Replays
\* The end of the queue is lost.
<1>13. CASE LoseUnread
    <2>1. PICK n \in 0 .. Len(toHost) - 1 : toHost' = SubSeq(toHost, 1, n)
        BY <1>13 DEF LoseUnread
    <2>2. UNCHANGED <<phase, wpc, roomState, participants>> /\ ~up'
        BY <1>13 DEF LoseUnread, linkVars, handler, roomVars
    <2>3. /\ Len(toHost') = n /\ n \in Nat /\ n < Len(toHost)
          /\ \A i \in 1 .. n : toHost'[i] = toHost[i]
        BY <1>1, <2>1
    <2> SUFFICES ASSUME phase = "open"
                 PROVE  \E f \in [0 .. Len(toHost') -> SUBSET Clients] : Replays(f)'
        BY <2>2 DEF ReplayInv
    <2>4. PICK f \in [0 .. Len(toHost) -> SUBSET Clients] : Replays(f)
        BY DEF ReplayInv
    <2> DEFINE g == [i \in 0 .. n |-> f[i]]
    <2>5. g \in [0 .. Len(toHost') -> SUBSET Clients] /\ \A i \in 0 .. n : g[i] = f[i]
        BY <1>1, <2>3, <2>4
    <2> HIDE DEF g
    <2>6. Base' = Base
        BY <2>2 DEF Base, InRoom
    <2>7. ASSUME NEW i \in 1 .. n PROVE Leads(g[i - 1], toHost'[i], g[i])
        <3>1. i \in 1 .. Len(toHost) /\ i \in 0 .. n /\ i - 1 \in 0 .. n
            BY <1>1, <2>3
        <3> QED
            BY <2>3, <2>4, <2>5, <3>1 DEF Replays
    <2>8. PICK h \in [0 .. Len(toHost') -> SUBSET Clients] : h = g
        BY <2>5
    <2>9. Replays(h)'
        <3>1. h[0] = Base'
            BY <2>3, <2>4, <2>5, <2>6, <2>8 DEF Replays
        <3>2. \A i \in 1 .. Len(toHost') : Leads(h[i - 1], toHost'[i], h[i])
            BY <2>3, <2>7, <2>8
        <3> QED
            BY <2>2, <3>1, <3>2 DEF Replays, Leads, Response
    <2> QED
        BY <2>8, <2>9
\* One message more, and a server that knows of it.
<1>6. ASSUME NEW e \in Events, toHost' = Append(toHost, e), members' \subseteq Clients,
             up, Leads(members, e, members'),
             UNCHANGED <<phase, wpc, roomState, participants>>
      PROVE  ReplayInv'
    <2> SUFFICES ASSUME phase = "open"
                 PROVE  \E f \in [0 .. Len(toHost') -> SUBSET Clients] : Replays(f)'
        BY <1>6 DEF ReplayInv
    <2>1. PICK f \in [0 .. Len(toHost) -> SUBSET Clients] : Replays(f)
        BY DEF ReplayInv
    <2>2. /\ Len(toHost') = Len(toHost) + 1
          /\ \A i \in 1 .. Len(toHost) : toHost'[i] = toHost[i]
          /\ toHost'[Len(toHost) + 1] = e
        BY <1>1, <1>6, AppendFacts
    <2>3. Base' = Base
        BY <1>6 DEF Base, InRoom
    <2> DEFINE n == Len(toHost)
               g == [i \in 0 .. n + 1 |-> IF i = n + 1 THEN members' ELSE f[i]]
    <2>4. g \in [0 .. Len(toHost') -> SUBSET Clients]
        BY <1>1, <1>6, <2>1, <2>2
    <2>5. g[0] = f[0] /\ g[n] = f[n] /\ g[n + 1] = members'
        BY <1>1
    <2>6. \A i \in 1 .. n : g[i] = f[i] /\ g[i - 1] = f[i - 1]
        BY <1>1
    <2> HIDE DEF g
    <2>7. ASSUME NEW i \in 1 .. n + 1
          PROVE  Leads(g[i - 1], toHost'[i], g[i])
        <3>1. CASE i \in 1 .. n
            BY <2>1, <2>2, <2>6, <3>1 DEF Replays
        <3>2. CASE i = n + 1
            <4>1. i - 1 = n
                BY <1>1, <3>2
            <4>2. g[i - 1] = members
                BY <1>6, <2>1, <2>5, <4>1 DEF Replays
            <4> QED
                BY <1>6, <2>2, <2>5, <3>2, <4>2
        <3> QED
            BY <1>1, <3>1, <3>2
    <2>8. PICK h \in [0 .. Len(toHost') -> SUBSET Clients] : h = g
        BY <2>4
    <2>9. Replays(h)'
        <3>1. h[0] = Base'
            BY <2>1, <2>3, <2>5, <2>8 DEF Replays
        <3>2. \A i \in 1 .. Len(toHost') : Leads(h[i - 1], toHost'[i], h[i])
            BY <2>2, <2>7, <2>8
        <3>3. h[Len(toHost')] = members'
            BY <2>2, <2>5, <2>8
        <3> QED
            BY <3>1, <3>2, <3>3 DEF Replays, Leads, Response
    <2> QED
        BY <2>8, <2>9
<1>7. CASE ServerCreateRoom
    <2>1. /\ toServer \in Seq(Texts) /\ toServer /= <<>> /\ CreateRoomAt(1)
          /\ 1 \in DOMAIN toServer
        BY <1>0, <1>7, TailFacts DEF ServerCreateRoom, NetTyped, CreateRoomAt
    <2>2. NoRoom /\ up /\ members = {}
        BY <1>7, <2>1 DEF ServerCreateRoom, AskInv, Asking, ConnectionInv, NoRoom
    <2>3. UNCHANGED <<members, phase, wpc, roomState, participants>>
        BY <1>7 DEF ServerCreateRoom, handler, roomVars
    <2>4. PICK e \in Events : toHost' = Append(toHost, e) /\ Response(e)
        <3>1. \A b \in {TRUE, FALSE} :
                 LET r == [method |-> "createRoomResponse", success |-> b]
                 IN  r \in Events /\ Response(r)
            BY Zenon DEF Events, Response
        <3> QED
            BY <1>7, <3>1 DEF ServerCreateRoom
    <2>5. Leads(members, e, members')
        BY <2>2, <2>3, <2>4 DEF Leads
    <2> QED
        BY <1>1, <1>6, <2>2, <2>3, <2>4, <2>5
<1>8. CASE ServerAudioDetails
    BY <1>3, <1>8 DEF ServerAudioDetails, linkVars, handler, roomVars
<1>9. ASSUME NEW c \in Clients, ClientJoins(c) \/ ClientLeaves(c)
      PROVE  ReplayInv'
    <2>1. up
        BY <1>9 DEF ClientJoins, ClientLeaves, ConnectionInv
    <2>2. UNCHANGED <<phase, wpc, roomState, participants>>
        BY <1>9 DEF ClientJoins, ClientLeaves, handler, roomVars
    <2>3. members' \subseteq Clients
        BY <1>1, <1>9 DEF ClientJoins, ClientLeaves
    <2>4. \E e \in Events : toHost' = Append(toHost, e) /\ Leads(members, e, members')
        <3>1. \A m \in {"clientJoin", "clientLeave"} : [method |-> m, id |-> c] \in Events
            BY DEF Events
        <3>2. CASE ClientJoins(c)
            BY <3>1, <3>2 DEF ClientJoins, Leads
        <3>3. CASE ClientLeaves(c)
            BY <3>1, <3>3 DEF ClientLeaves, Leads
        <3> QED
            BY <1>9, <3>2, <3>3
    <2> QED
        BY <1>6, <2>1, <2>2, <2>3, <2>4
<1>10. CASE Quiet \/ \E b \in 1 .. 2 : SendsDetails(b)
    BY <1>3, <1>10 DEF Quiet, SendsDetails, linkVars, serverVars, handler, roomVars
<1>11. CASE OnOpen
    <2>1. NoRoom /\ members = {}
        BY <1>11 DEF OnOpen, AskInv, ConnectionInv, NoRoom
    <2>2. Base' = {} /\ toHost' = <<>> /\ members' = {}
        BY <1>11, <2>1 DEF OnOpen, NoRoom, Base, serverVars
    <2> DEFINE g == [i \in 0 .. 0 |-> {}]
    <2>3. g \in [0 .. Len(toHost') -> SUBSET Clients] /\ g[0] = {} /\ Len(toHost') = 0
        BY <2>2
    <2> HIDE DEF g
    <2>4. Replays(g)'
        <3>1. g[0] = Base' /\ g[Len(toHost')] = members' /\ 1 .. Len(toHost') = {}
            BY <2>2, <2>3
        <3> QED
            BY <3>1 DEF Replays
    <2> QED
        BY <2>3, <2>4 DEF ReplayInv
<1>12. CASE LoadDetail("rate") \/ LoadDetail("depth") \/ CreateRoom
    <2>1. NoRoom
        BY <1>12 DEF LoadDetail, CreateRoom, AskInv
    <2>2. UNCHANGED <<up, toHost, members, phase, roomState>>
        BY <1>12 DEF LoadDetail, CreateRoom, netVars, linkVars, serverVars, roomVars
    <2>3. Base' = Base
        BY <2>1, <2>2 DEF Base, NoRoom
    <2> QED
        BY <1>2, <2>2, <2>3
<1>15. CASE ReplaceParticipants
    <2>1. Base = {} /\ Base' = {}
        BY <1>15 DEF ReplaceParticipants, Base, InRoom, ToSet
    <2> QED
        BY <1>2, <1>15, <2>1 DEF ReplaceParticipants, netVars, linkVars, serverVars
<1>16. CASE CreatePeerConnection \/ CloseRtcConnection
    <2>1. wpc /= "clear" /\ wpc' /= "clear" /\ UNCHANGED <<roomState, participants>>
        BY <1>16 DEF CreatePeerConnection, CloseRtcConnection
    <2>2. Base' = Base
        BY <2>1 DEF Base, InRoom
    <2> QED
        BY <1>2, <1>16, <2>2 DEF CreatePeerConnection, CloseRtcConnection, netVars, linkVars,
                                 serverVars
\* The first message handled.
<1>17. ASSUME phase = "open", toHost /= <<>>, toHost' = Tail(toHost),
              UNCHANGED <<up, members, phase>>,
              \A T : Leads(Base, toHost[1], T) => Base' = T
       PROVE  ReplayInv'
    <2>1. PICK f \in [0 .. Len(toHost) -> SUBSET Clients] : Replays(f)
        BY <1>17 DEF ReplayInv
    <2>2. /\ Len(toHost) >= 1 /\ Len(toHost') = Len(toHost) - 1
          /\ \A i \in 1 .. Len(toHost) - 1 : toHost'[i] = toHost[i + 1]
        BY <1>1, <1>17, TailFacts
    <2> DEFINE n == Len(toHost)
               g == [i \in 0 .. n - 1 |-> f[i + 1]]
    <2>3. g \in [0 .. Len(toHost') -> SUBSET Clients]
        <3>1. \A i \in 0 .. n - 1 : i + 1 \in 0 .. n
            BY <1>1, <2>2
        <3> QED
            BY <2>1, <2>2, <3>1
    <2>4. \A i \in 0 .. n - 1 : g[i] = f[i + 1]
        OBVIOUS
    <2> HIDE DEF g
    <2>5. g[0] = Base'
        <3>1. 1 \in 1 .. n /\ 1 - 1 = 0 /\ 0 \in 0 .. n - 1
            BY <1>1, <2>2
        <3>2. Leads(Base, toHost[1], f[1])
            BY <2>1, <3>1 DEF Replays
        <3>3. g[0] = f[1]
            BY <2>4, <3>1
        <3> QED
            BY <1>17, <3>2, <3>3
    <2>6. ASSUME NEW i \in 1 .. n - 1
          PROVE  Leads(g[i - 1], toHost'[i], g[i])
        <3>1. /\ i + 1 \in 1 .. n /\ (i + 1) - 1 = i /\ i \in 0 .. n - 1
              /\ i - 1 \in 0 .. n - 1 /\ (i - 1) + 1 = i
            BY <1>1, <2>2
        <3>2. Leads(f[i], toHost[i + 1], f[i + 1])
            BY <2>1, <3>1 DEF Replays
        <3>3. g[i - 1] = f[i] /\ g[i] = f[i + 1]
            BY <2>4, <3>1
        <3> QED
            BY <2>2, <3>2, <3>3
    <2>7. up' => g[Len(toHost')] = members'
        <3>1. n - 1 \in 0 .. n - 1 /\ (n - 1) + 1 = n
            BY <1>1, <2>2
        <3> QED
            BY <1>17, <2>1, <2>2, <2>4, <3>1 DEF Replays
    <2>8. PICK h \in [0 .. Len(toHost') -> SUBSET Clients] : h = g
        BY <2>3
    <2>9. Replays(h)'
        <3>1. \A i \in 1 .. Len(toHost') : Leads(h[i - 1], toHost'[i], h[i])
            BY <2>2, <2>6, <2>8
        <3>2. h[0] = Base' /\ (up' => h[Len(toHost')] = members')
            BY <2>5, <2>7, <2>8
        <3> QED
            BY <3>1, <3>2 DEF Replays, Leads, Response
    <2> QED
        BY <2>8, <2>9 DEF ReplayInv
<1>18. CASE OnCreateRoomResponse
    <2>1. /\ phase = "open" /\ wpc = "idle" /\ toHost /= <<>> /\ toHost' = Tail(toHost)
          /\ roomState = "closed" /\ Response(toHost[1])
        BY <1>18, Received DEF OnCreateRoomResponse, Undisturbed, Response
    <2>2. UNCHANGED <<up, members, phase>>
        BY <1>18 DEF OnCreateRoomResponse, Receive, linkVars, serverVars
    <2>3. Base' = {}
        BY <1>18, <2>1 DEF OnCreateRoomResponse, Base
    <2>4. \A T : Leads(Base, toHost[1], T) => T = {}
        BY <2>1 DEF Leads, Response
    <2> QED
        BY <1>17, <2>1, <2>2, <2>3, <2>4
<1>19. CASE OnClientJoin
    <2>1. /\ phase = "open" /\ wpc = "idle" /\ toHost /= <<>> /\ toHost' = Tail(toHost)
          /\ roomState = "open" /\ toHost[1].method = "clientJoin"
          /\ toHost[1].id \in Clients /\ toHost[1].id \notin InRoom
          /\ Head(toHost) = toHost[1]
        BY <1>19, Received DEF OnClientJoin, Undisturbed
    <2>2. UNCHANGED <<up, members, phase>>
        BY <1>19 DEF OnClientJoin, Receive, linkVars, serverVars
    <2>3. InRoom' = InRoom \cup {toHost[1].id}
        <3>1. participants \in Seq(Clients) /\ IsInjective(participants)
            BY <1>0, <2>1 DEF HostTyped, MapsInv
        <3> QED
            BY <1>19, <2>1, <3>1, JoinOnce DEF OnClientJoin, InRoom
    <2>4. Base = InRoom /\ Base' = InRoom \cup {toHost[1].id}
        BY <1>19, <2>1, <2>3 DEF OnClientJoin, Base
    <2>5. \A T : Leads(Base, toHost[1], T) => T = InRoom \cup {toHost[1].id}
        BY <2>1, <2>4 DEF Leads, Response
    <2> QED
        BY <1>17, <2>1, <2>2, <2>4, <2>5
<1>20. CASE OnClientLeave
    <2>1. /\ phase = "open" /\ wpc = "idle" /\ toHost /= <<>> /\ toHost' = Tail(toHost)
          /\ roomState = "open" /\ toHost[1].method = "clientLeave"
          /\ toHost[1].id \in InRoom
          /\ Head(toHost) = toHost[1]
        BY <1>20, Received DEF OnClientLeave, Undisturbed
    <2>2. UNCHANGED <<up, members, phase>>
        BY <1>20 DEF OnClientLeave, Receive, linkVars, serverVars
    <2>3. InRoom' = InRoom \ {toHost[1].id}
        <3>1. participants \in Seq(Clients) /\ IsInjective(participants)
            BY <1>0, <2>1 DEF HostTyped, MapsInv
        <3> QED
            BY <1>20, <2>1, <3>1, LeaveOnce DEF OnClientLeave, InRoom
    <2>4. Base = InRoom /\ Base' = InRoom \ {toHost[1].id}
        BY <1>20, <2>1, <2>3 DEF OnClientLeave, Base
    <2>5. \A T : Leads(Base, toHost[1], T) => T = InRoom \ {toHost[1].id}
        BY <2>1, <2>4 DEF Leads, Response
    <2> QED
        BY <1>17, <2>1, <2>2, <2>4, <2>5
<1> QED
    BY <1>4, <1>5, <1>7, <1>8, <1>9, <1>10, <1>11, <1>12, <1>13, <1>15, <1>16,
       <1>18, <1>19, <1>20, Steps DEF Inner, Handling

-----------------------------------------------------------------------------
(* Theorems. *)

\* A new plugin has no room, and neither has the server.
LEMMA InitRoom == Init => RoomInv
<1> SUFFICES ASSUME Init PROVE RoomInv
    OBVIOUS
<1>1. /\ ~up /\ toServer = <<>> /\ toHost = <<>> /\ serverDetails = NoDetails
      /\ members = {} /\ phase = "closed" /\ wpc = "idle" /\ roomState = "closed"
      /\ channels = {} /\ connections = {}
    BY DEF Init
<1>2. ConnectionInv
    BY <1>1 DEF ConnectionInv
<1>3. AskInv
    BY <1>1 DEF AskInv, Asking
<1>4. MapsInv /\ QueueInv /\ ReplayInv
    BY <1>1 DEF MapsInv, NoConnections, QueueInv, ReplayInv
<1> QED
    BY <1>2, <1>3, <1>4, InitPhase DEF RoomInv, LiveInv

\* A Close that begins alone leaves a closed room on a connection that is gone.
LEMMA LiveAgain ==
    ASSUME Typed, ConnectionInv, CloseAlone
    PROVE  LiveInv'
<1>1. /\ ~Asking' /\ toServer' = <<>> /\ phase' = "closed" /\ roomState' = "closed"
      /\ wpc' \in {"idle", "closeSignal"} /\ (wpc' = "idle" => Closing')
    <2>1. toServer' = <<>>
        BY DEF CloseAlone, ConnectionInv
    <2>2. wpc' = "idle" => Closing'
        BY DEF CloseAlone, OnClose, OtherCloses, Closing
    <2> QED
        BY <2>1, <2>2 DEF CloseAlone, Asking
<1>2. AskInv'
    BY <1>1 DEF AskInv, Asking
<1>3. MapsInv'
    BY <1>1 DEF MapsInv
<1> QED
    BY <1>1, <1>2, <1>3 DEF LiveInv, QueueInv, ReplayInv

\* Every step keeps the room invariant.
LEMMA StepRoom == Typed /\ RoomInv /\ [Next]_vars => RoomInv'
<1> SUFFICES ASSUME Typed, RoomInv, [Next]_vars PROVE RoomInv'
    OBVIOUS
<1>1. ConnectionInv /\ ConnectionInv' /\ PhaseInv /\ PhaseInv'
    BY ConnectionStep, PhaseStep DEF RoomInv
<1>2. ASSUME ~mixed' PROVE LiveInv'
    <2>1. CASE CloseAlone
        BY <1>1, <2>1, LiveAgain
    <2>2. CASE Undisturbed /\ LiveInv
        BY <1>1, <2>2, AskStep, MapsStep, QueueStep, ReplayStep DEF LiveInv
    <2> QED
        BY <1>2, <2>1, <2>2, MixedStays DEF RoomInv, Undisturbed
<1> QED
    BY <1>1, <1>2 DEF RoomInv

\* The room invariant, in every state.
LEMMA AlwaysRoom == Spec => [](Typed /\ RoomInv)
BY InitRoom, StepRoom, AlwaysTyped, PTL DEF Spec

\* Between handlers of an open room, the participants and the keys of both maps
\* are the same clients, each once, over any number of links.
THEOREM RoomMatches == Spec => []RoomMatchesConnections
<1>1. Typed /\ RoomInv => RoomMatchesConnections
    BY DEF RoomInv, LiveInv, MapsInv, RoomMatchesConnections
<1> QED
    BY <1>1, AlwaysRoom, PTL

\* No peer connection is left when a Close is over, on whichever thread it ran.
THEOREM NoPeersLeft == Spec => []ClosedWithoutPeers
<1>1. ASSUME Typed, RoomInv, signalState = "closed", wpc = "idle", ~Closing, ~mixed
      PROVE  channels = {} /\ connections = {}
    <2>1. phase = "closed"
        BY <1>1 DEF RoomInv, PhaseInv, EventsInv, Typed, HostTyped
    <2> QED
        BY <1>1, <2>1 DEF RoomInv, LiveInv, MapsInv, NoConnections
<1>2. Typed /\ RoomInv => ClosedWithoutPeers
    BY <1>1 DEF ClosedWithoutPeers, Closing
<1> QED
    BY <1>2, AlwaysRoom, PTL

\* A host that has handled everything the server sent has its members in the room.
THEOREM RoomAgrees == Spec => []RoomAgreesWithServer
<1>1. ASSUME Typed, RoomInv, wpc = "idle", roomState = "open", up, toHost = <<>>, ~mixed
      PROVE  InRoom = members
    <2>1. phase = "open" /\ Base = InRoom
        BY <1>1, Phases DEF RoomInv, Base, Typed, HostTyped
    <2>2. PICK f \in [0 .. Len(toHost) -> SUBSET Clients] : Replays(f)
        BY <1>1, <2>1 DEF RoomInv, LiveInv, ReplayInv
    <2>3. Len(toHost) = 0
        BY <1>1
    <2> QED
        BY <1>1, <2>1, <2>2, <2>3 DEF Replays
<1>2. Typed /\ RoomInv => RoomAgreesWithServer
    BY <1>1 DEF RoomAgreesWithServer
<1> QED
    BY <1>2, AlwaysRoom, PTL

-----------------------------------------------------------------------------
(* The link. *)

\* A session asks of its websocket no more than SignalLink promises, which is what
\* the websocket implements: what it shows of its links holds of the websocket's.
THEOREM LinkUsed == Spec => UsesLink
<1>1. Init => Link!Init
    BY DEF Init, Link!Init
<1>2. ASSUME Typed, ConnectionInv, PhaseInv, [Next]_vars
      PROVE  [Link!Next]_Link!vars
    <2>0. toHost \in Seq(Events)
        BY <1>2 DEF Typed, NetTyped
    <2>1. CASE \/ Try \/ Connect \/ Disconnect \/ AskToClose \/ OnOpen \/ OnClose
               \/ ClosePeerConnections \/ SendFails \/ OtherFindsClosed \/ OtherCloses
               \/ OtherEnds
        BY <2>1 DEF Link!Next, Try, Connect, Disconnect, AskToClose, OnOpen, OnClose,
                    ClosePeerConnections, SendFails, OtherFindsClosed, OtherCloses, OtherEnds
    <2>2. ASSUME UNCHANGED <<linkVars, wpc, opc>>,
                 wpc \notin {"connecting", "opening", "closeSignal", "reset"}, toHost' /= <<>>
          PROVE  Link!Next
        BY <2>2 DEF Link!Next, Link!Arrive, linkVars
    <2>3. CASE ServerCreateRoom
        <3>1. /\ toServer /= <<>> /\ toServer' = Tail(toServer)
              /\ UNCHANGED <<linkVars, wpc, opc>>
            BY <2>3 DEF ServerCreateRoom, handler
        <3>2. Asking /\ up
            BY <1>2, <2>3, <3>1, TakenText
               DEF ServerCreateRoom, Asking, CreateRoomAt, ConnectionInv
        <3>3. wpc \notin {"connecting", "opening", "closeSignal", "reset"}
            BY <1>2, <3>2 DEF ConnectionInv, PhaseInv
        <3>4. toHost' /= <<>>
            BY <2>0, <2>3 DEF ServerCreateRoom
        <3> QED
            BY <2>2, <3>1, <3>3, <3>4
    <2>4. ASSUME NEW c \in Clients, ClientJoins(c) \/ ClientLeaves(c)
          PROVE  Link!Next
        <3>1. serverDetails /= NoDetails /\ UNCHANGED <<linkVars, wpc, opc>>
            BY <1>2, <2>4 DEF ClientJoins, ClientLeaves, ConnectionInv, handler
        <3>2. wpc \notin {"connecting", "opening", "closeSignal", "reset"}
            BY <1>2, <3>1 DEF ConnectionInv, PhaseInv
        <3>3. toHost' /= <<>>
            BY <2>0, <2>4 DEF ClientJoins, ClientLeaves
        <3> QED
            BY <2>2, <3>1, <3>2, <3>3
    <2>5. ASSUME toHost /= <<>>, UNCHANGED <<linkVars, opc>>, wpc = "idle",
                 wpc' \notin {"connecting", "opening", "closeSignal", "reset"}
          PROVE  Link!Next
        BY <2>5 DEF Link!Next, Link!Handle, linkVars
    <2>6. CASE LoseUnread
        <3>1. toHost /= <<>>
            BY <2>6 DEF LoseUnread
        <3> QED
            BY <2>5, <2>6, <3>1 DEF LoseUnread, handler
    <2>7. CASE Handling
        BY <2>5, <2>7 DEF Handling, OnCreateRoomResponse, OnClientJoin, OnClientLeave, Receive
    <2>8. ASSUME UNCHANGED <<linkVars, toHost>>, UNCHANGED wpc \/ wpc \notin Apart
                     \/ (wpc = "closeSignal" /\ wpc' = "reset"),
                 wpc' \in Apart => wpc' = "idle" \/ UNCHANGED wpc \/ wpc' = "reset",
                 wpc' = "reset" => wpc \in {"closeSignal", "reset"},
                 UNCHANGED opc \/ (opc = "signal" /\ opc' = "reset")
          PROVE  UNCHANGED Link!vars
        BY <2>8 DEF Link!vars, linkVars, Apart
    <2>9. CASE OpenMeetsClose \/ LoadDetail("rate") \/ LoadDetail("depth") \/ CreateRoom
               \/ CloseSignal \/ ReplaceParticipants \/ CreatePeerConnection
               \/ CloseRtcConnection
        BY <2>8, <2>9 DEF OpenMeetsClose, LoadDetail, CreateRoom, CloseSignal,
                          ReplaceParticipants, CreatePeerConnection, CloseRtcConnection,
                          netVars, Apart
    <2>10. CASE OtherClosesSignal
        BY <2>8, <2>10 DEF OtherClosesSignal, netVars
    <2>11. CASE \/ ServerAudioDetails \/ ControlThread \/ (\E b \in 1 .. 2 : UploadThread(b))
                \/ UNCHANGED vars
        <3>1. UNCHANGED <<linkVars, toHost, wpc, opc>>
            BY <2>11 DEF ServerAudioDetails, ControlThread, SetOutputSampleRate,
                         SetOtherSetting, SetUploadBuffer, DestroyOldBuffer, UploadThread,
                         BufferReady, TestRoomState, TestSignalState, TestThen,
                         UpdateAudioSettings, netVars, handler, vars
        <3> QED
            BY <2>8, <3>1
    <2> QED
        BY <1>2, <2>1, <2>3, <2>4, <2>6, <2>7, <2>9, <2>10, <2>11
           DEF Next, Server, WebSocketThread, FailedSend, Handling
<1>3. Typed /\ RoomInv => ConnectionInv /\ PhaseInv
    BY DEF RoomInv
<1> QED
    BY <1>1, <1>2, <1>3, AlwaysRoom, PTL DEF Spec, UsesLink, Link!Spec

-----------------------------------------------------------------------------
(* The maps. *)

\* Outside these steps an undisturbed session leaves the maps alone.
LEMMA MapsKept ==
    ASSUME Typed, Typed', PhaseInv, Undisturbed, ~CreatePeerConnection, ~CloseRtcConnection,
           ~ClosePeerConnections, ~OtherEnds
    PROVE  UNCHANGED Maps!vars
<1>0. mixed' = mixed
    BY DEF Undisturbed, Typed, HistoryTyped
<1>1. ASSUME UNCHANGED <<channels, connections, wpc, who>>, Closing' <=> Closing
      PROVE  UNCHANGED Maps!vars
    BY <1>0, <1>1 DEF Maps!vars, LoneClose, Closing
<1>2. ASSUME UNCHANGED <<channels, connections, opc>>,
             wpc /= "connection" /\ wpc' /= "connection",
             wpc \in {"closeSignal", "reset"} <=> wpc' \in {"closeSignal", "reset"}
      PROVE  UNCHANGED Maps!vars
    BY <1>0, <1>2 DEF Maps!vars, LoneClose
<1>3. CASE Disconnect \/ LoseUnread \/ ServerCreateRoom \/ ServerAudioDetails
           \/ (\E c \in Clients : ClientJoins(c) \/ ClientLeaves(c))
           \/ Quiet \/ (\E b \in 1 .. 2 : SendsDetails(b))
    BY <1>1, <1>3 DEF Disconnect, LoseUnread, ServerCreateRoom, ServerAudioDetails,
                      ClientJoins, ClientLeaves, Quiet, SendsDetails, handler, roomVars, Closing
<1>4. CASE Try \/ Connect \/ OnOpen \/ LoadDetail("rate") \/ LoadDetail("depth")
           \/ CreateRoom \/ CloseSignal \/ ReplaceParticipants
    BY <1>2, <1>4 DEF Try, Connect, OnOpen, LoadDetail, CreateRoom, CloseSignal,
                      ReplaceParticipants, roomVars
<1>5. CASE Handling
    BY <1>2, <1>5 DEF Handling, OnCreateRoomResponse, OnClientJoin, OnClientLeave, Receive
<1> QED
    BY <1>3, <1>4, <1>5, Steps DEF Inner

\* What happens to the maps is what PeerMaps promises, which is what the manager
\* implements beside its upload thread.
THEOREM MapsUsed == Spec => UsesMaps
<1>1. Init => Maps!Init
    BY DEF Init, Maps!Init, LoneClose
<1>2. ASSUME Typed, Typed', PhaseInv, RoomInv, [Next]_vars
      PROVE  [Maps!Next]_Maps!vars
    <2>0. /\ mixed \in BOOLEAN /\ mixed' \in BOOLEAN /\ who \in Clients /\ who' \in Clients
          /\ channels' \subseteq Clients /\ connections' \subseteq Clients
        BY <1>2 DEF Typed, HistoryTyped, HostTyped
    <2>1. CASE mixed'
        <3>1. Maps!Cross
            BY <2>0, <2>1 DEF Maps!Cross
        <3> QED
            BY <3>1 DEF Maps!Next
    <2>2. CASE ~mixed' /\ CloseAlone
        <3>1. LoneClose' /\ wpc = "idle" /\ wpc' /= "connection" /\ mixed' = FALSE
            BY <2>0, <2>2 DEF CloseAlone, LoneClose, OnClose, OtherCloses
        <3>2. Maps!Reset
            BY <3>1 DEF Maps!Reset
        <3> QED
            BY <3>2 DEF Maps!Next
    <2>3. CASE Undisturbed
        <3>1. mixed = FALSE /\ mixed' = FALSE
            BY <2>0, <2>3 DEF Undisturbed
        <3>2. CASE CreatePeerConnection
            <4>1. ~LoneClose /\ ~LoneClose'
                BY <1>2, <3>1, <3>2, Phases DEF CreatePeerConnection, LoneClose, Closing
            <4>2. Maps!EnterConnections \/ Maps!EnterChannels(who)
                BY <3>2, <4>1 DEF CreatePeerConnection, Maps!EnterConnections,
                                  Maps!EnterChannels
            <4> QED
                BY <2>0, <3>1, <4>2 DEF Maps!Next, Maps!Operation
        <3>3. CASE CloseRtcConnection
            <4>1. ~LoneClose /\ ~LoneClose'
                BY <1>2, <3>1, <3>3, Phases DEF CloseRtcConnection, LoneClose, Closing
            <4>2. Maps!Leave(who)
                BY <3>3, <4>1 DEF CloseRtcConnection, Maps!Leave
            <4> QED
                BY <2>0, <3>1, <4>2 DEF Maps!Next, Maps!Operation
        <3>4. CASE ClosePeerConnections \/ OtherEnds
            <4>1. LoneClose /\ wpc /= "connection" /\ wpc' /= "connection"
                BY <1>2, <3>1, <3>4, Phases
                   DEF ClosePeerConnections, OtherEnds, LoneClose, Closing
            <4>2. ~LoneClose' /\ channels' = {} /\ connections' = {}
                BY <1>2, <3>1, <3>4, Phases
                   DEF ClosePeerConnections, OtherEnds, LoneClose, Closing
            <4> QED
                BY <3>1, <4>1, <4>2 DEF Maps!vars
        <3> QED
            BY <1>2, <2>3, <3>2, <3>3, <3>4, MapsKept
    <2> QED
        BY <1>2, <2>1, <2>2, <2>3, MixedStays DEF Undisturbed
<1>3. Typed /\ RoomInv => PhaseInv
    BY DEF RoomInv
<1> QED
    BY <1>1, <1>2, <1>3, AlwaysRoom, PTL DEF Spec, UsesMaps, Maps!Spec

-----------------------------------------------------------------------------
(* One room per link. *)

\* createRoom is sent when none is under way and neither side has anything of a
\* room; and it reaches a server that still has none.
AsksOnce ==
    ~mixed =>
        /\ CreateRoom => ~Asking /\ NoRoom
        /\ ServerCreateRoom => NoRoom /\ members = {}

\* No interleaving of reconnects, failed sends, reports and texts under way lets a
\* host ask for a second room beside one it has, or the server answer for a second,
\* unless a Close ran inside a handler.
THEOREM OneRoomPerLink == Spec => [][AsksOnce]_vars
<1>1. ASSUME Typed, RoomInv PROVE AsksOnce
    <2>1. ASSUME ~mixed, CreateRoom PROVE ~Asking /\ NoRoom
        BY <1>1, <2>1 DEF RoomInv, LiveInv, AskInv, CreateRoom
    <2>2. ASSUME ~mixed, ServerCreateRoom PROVE NoRoom /\ members = {}
        <3>1. Asking
            BY <1>1, <2>2, TakenText DEF ServerCreateRoom, Asking, CreateRoomAt
        <3>2. NoRoom
            BY <1>1, <2>2, <3>1 DEF RoomInv, LiveInv, AskInv
        <3> QED
            BY <1>1, <3>2 DEF RoomInv, ConnectionInv, NoRoom
    <2> QED
        BY <2>1, <2>2 DEF AsksOnce
<1> QED
    BY <1>1, AlwaysRoom, PTL

-----------------------------------------------------------------------------
(* The details: what the buffers' threads do. *)

Current == buffers[uploadBuffer]
CurrentDetails == [rate |-> Current.rate, depth |-> Current.depth]

\* A report of the buffer that sends is still to come.
Owed == Current.due \/ Current.pc /= "idle"

\* A report has its buffer's rate, unless there will be another; as long as nothing
\* is stale, a replaced buffer reports only while its successor has still to.
ReportsInv ==
    /\ ~replacing => buffers[Other] = NoBuffer
    /\ \A b \in 1 .. 2 : buffers[b].pc /= "idle" =>
           buffers[b].due \/ buffers[b].report = buffers[b].rate
    /\ ~stale /\ buffers[Other].pc /= "idle" => Current.due /\ Current.pc = "idle"

\* One of the two buffers is in use, and that one exists.
LEMMA TwoBuffers ==
    ASSUME Typed
    PROVE  /\ uploadBuffer \in 1 .. 2 /\ Other \in 1 .. 2 /\ Other /= uploadBuffer
           /\ \A b \in 1 .. 2 : b = uploadBuffer \/ b = Other
           /\ Current \in LiveBuffers
           /\ NoBuffer.pc = "idle" /\ ~NoBuffer.due
BY DEF Typed, BuffersTyped, Other, Current, NoBuffer

\* A change of the rate leaves its report due.
LEMMA SetRateEffect ==
    ASSUME Typed, NEW r \in Rates, SetOutputSampleRate(r)
    PROVE  /\ ~replacing /\ UNCHANGED <<uploadBuffer, replacing>>
           /\ Current'.due /\ Current'.pc = Current.pc
           /\ buffers'[Other] = buffers[Other]
<1>1. buffers \in [1 .. 2 -> LiveBuffers \cup {NoBuffer}] /\ UNCHANGED uploadBuffer
    BY DEF Typed, BuffersTyped, SetOutputSampleRate
<1>2. buffers' = [[buffers EXCEPT ![uploadBuffer].rate = r]
                     EXCEPT ![uploadBuffer].due = TRUE]
    BY DEF SetOutputSampleRate
<1>3. buffers'[uploadBuffer] = [[Current EXCEPT !.rate = r] EXCEPT !.due = TRUE]
    BY <1>1, <1>2, TwoBuffers DEF Current
<1>4. buffers'[uploadBuffer].due /\ buffers'[uploadBuffer].pc = Current.pc
    BY <1>3, TwoBuffers DEF LiveBuffers
<1>5. buffers'[Other] = buffers[Other]
    BY <1>1, <1>2, TwoBuffers
<1>6. Current' = buffers'[uploadBuffer]
    BY <1>1 DEF Current
<1> QED
    BY <1>1, <1>4, <1>5, <1>6 DEF SetOutputSampleRate

\* A change of another setting makes a report due, too.
LEMMA SetOtherEffect ==
    ASSUME Typed, SetOtherSetting
    PROVE  /\ UNCHANGED <<uploadBuffer, replacing>>
           /\ Current' = [Current EXCEPT !.due = TRUE]
           /\ Current'.due /\ Current'.pc = Current.pc
           /\ buffers'[Other] = buffers[Other]
<1>1. buffers \in [1 .. 2 -> LiveBuffers \cup {NoBuffer}] /\ UNCHANGED uploadBuffer
    BY DEF Typed, BuffersTyped, SetOtherSetting
<1>2. buffers' = [buffers EXCEPT ![uploadBuffer].due = TRUE]
    BY DEF SetOtherSetting
<1>3. Current' = [Current EXCEPT !.due = TRUE]
    BY <1>1, <1>2, TwoBuffers DEF Current
<1>4. Current'.due /\ Current'.pc = Current.pc
    BY <1>3, TwoBuffers DEF LiveBuffers
<1>5. buffers'[Other] = buffers[Other]
    BY <1>1, <1>2, TwoBuffers
<1> QED
    BY <1>1, <1>3, <1>4, <1>5 DEF SetOtherSetting

\* A new buffer has its first report due.
LEMMA SetBufferEffect ==
    ASSUME Typed, NEW d \in Depths, SetUploadBuffer(d)
    PROVE  /\ uploadBuffer' = Other /\ Other' = uploadBuffer /\ replacing'
           /\ Current'.due /\ Current'.pc = "idle"
           /\ buffers'[uploadBuffer] = Current
<1>1. /\ buffers \in [1 .. 2 -> LiveBuffers \cup {NoBuffer}]
      /\ uploadBuffer' = Other /\ replacing'
      /\ buffers' = [buffers EXCEPT ![Other] = Buffer(buffers[uploadBuffer].rate, d)]
    BY DEF Typed, BuffersTyped, SetUploadBuffer
<1>2. Other' = uploadBuffer
    BY <1>1, TwoBuffers DEF Other
<1>3. Current' = Buffer(buffers[uploadBuffer].rate, d) /\ buffers'[uploadBuffer] = Current
    BY <1>1, TwoBuffers DEF Current
<1> QED
    BY <1>1, <1>2, <1>3 DEF Buffer

\* The old buffer goes, the new one stays as it is.
LEMMA DestroyEffect ==
    ASSUME Typed, DestroyOldBuffer
    PROVE  /\ UNCHANGED uploadBuffer /\ ~replacing'
           /\ Current' = Current /\ buffers'[Other] = NoBuffer
BY TwoBuffers DEF Typed, BuffersTyped, DestroyOldBuffer, Current

\* What a step of an upload thread does to its buffer.
LEMMA UploadEffect ==
    ASSUME Typed, NEW b \in 1 .. 2, UploadThread(b)
    PROVE  /\ UNCHANGED <<uploadBuffer, replacing>>
           /\ \A o \in 1 .. 2 : o /= b => buffers'[o] = buffers[o]
           /\ buffers'[b].rate = buffers[b].rate /\ buffers'[b].depth = buffers[b].depth
           /\ \/ /\ BufferReady(b) /\ buffers[b].pc = "idle" /\ buffers[b].due
                 /\ buffers'[b].pc = "room" /\ buffers'[b].report = buffers[b].rate
              \/ /\ TestRoomState(b) /\ buffers[b].pc = "room"
                 /\ buffers'[b].due = buffers[b].due
                 /\ IF roomState = "open"
                    THEN buffers'[b].pc = "signal" /\ buffers'[b].report = buffers[b].report
                    ELSE buffers'[b].pc = "idle"
              \/ /\ TestSignalState(b) /\ buffers[b].pc = "signal"
                 /\ buffers'[b].due = buffers[b].due
                 /\ IF signalState = "open"
                    THEN buffers'[b].pc = "send" /\ buffers'[b].report = buffers[b].report
                    ELSE buffers'[b].pc = "idle"
              \/ /\ UpdateAudioSettings(b) /\ buffers[b].pc = "send"
                 /\ buffers'[b].due = buffers[b].due /\ buffers'[b].pc = "idle"
<1>1. buffers \in [1 .. 2 -> LiveBuffers \cup {NoBuffer}] /\ b \in DOMAIN buffers
    BY DEF Typed, BuffersTyped
<1>2. buffers[b].due \/ buffers[b].pc /= "idle"
    BY DEF UploadThread, BufferReady, TestRoomState, TestSignalState, UpdateAudioSettings
<1>3. buffers[b] \in LiveBuffers
    BY <1>2, Live DEF Typed
<1>4. CASE BufferReady(b)
    BY <1>1, <1>3, <1>4 DEF BufferReady, LiveBuffers
<1>5. CASE TestRoomState(b)
    BY <1>1, <1>3, <1>5 DEF TestRoomState, TestThen, LiveBuffers
<1>6. CASE TestSignalState(b)
    BY <1>1, <1>3, <1>6 DEF TestSignalState, TestThen, LiveBuffers
<1>7. CASE UpdateAudioSettings(b)
    BY <1>1, <1>3, <1>7 DEF UpdateAudioSettings, LiveBuffers
<1> QED
    BY <1>4, <1>5, <1>6, <1>7 DEF UploadThread

\* The other steps leave the buffers alone, and only a load forgets what was stale.
LEMMA BuffersKept ==
    ASSUME Typed, [Next]_vars, ~ControlThread, ~\E b \in 1 .. 2 : UploadThread(b)
    PROVE  /\ UNCHANGED <<uploadBuffer, buffers, replacing>>
           /\ \/ UNCHANGED stale
              \/ \E what \in {"rate", "depth"} :
                     LoadDetail(what) /\ details = NoDetails /\ ReportIdle
<1>1. ASSUME NEW what \in {"rate", "depth"}, LoadDetail(what)
      PROVE  /\ UNCHANGED <<uploadBuffer, buffers, replacing>>
             /\ UNCHANGED stale \/ (details = NoDetails /\ ReportIdle)
    BY <1>1 DEF LoadDetail, Typed, HistoryTyped, uploadVars
<1>2. CASE Try \/ Connect \/ Disconnect \/ LoseUnread \/ AskToClose \/ Server
           \/ FailedSend \/ UNCHANGED vars
    BY <1>2 DEF Try, Connect, Disconnect, LoseUnread, AskToClose, Server, ServerCreateRoom,
                ServerAudioDetails, ClientJoins, ClientLeaves, FailedSend, SendFails,
                OtherFindsClosed, OtherCloses, OtherClosesSignal, OtherEnds, uploadVars,
                history, vars
<1>3. CASE OnOpen \/ OpenMeetsClose \/ CreateRoom \/ OnClose \/ Inner \/ Handling
    BY <1>3 DEF OnOpen, OpenMeetsClose, CreateRoom, OnClose, Inner, CloseSignal,
                ClosePeerConnections, Handling, OnCreateRoomResponse, ReplaceParticipants,
                OnClientJoin, CreatePeerConnection, OnClientLeave, CloseRtcConnection, Receive,
                uploadVars, history
<1> QED
    BY <1>1, <1>2, <1>3 DEF Next, WebSocketThread, Inner, Handling

\* No step lets a report go without its rate, or one to come.
LEMMA ReportsStep ==
    ASSUME Typed, ReportsInv, [Next]_vars
    PROVE  ReportsInv'
<1> USE DEF ReportsInv
<1>0. stale \in BOOLEAN
    BY DEF Typed, HistoryTyped
<1>1. ASSUME NEW r \in Rates, SetOutputSampleRate(r)
      PROVE  ReportsInv'
    <2>1. /\ UNCHANGED <<uploadBuffer, replacing>> /\ Other' = Other
          /\ Current'.due /\ buffers'[Other] = NoBuffer
        BY <1>1, SetRateEffect DEF Other
    <2>2. \A b \in 1 .. 2 : buffers'[b].pc /= "idle" => buffers'[b].due
        BY <2>1, TwoBuffers DEF Current
    <2> QED
        BY <2>1, <2>2, TwoBuffers
<1>2. ASSUME NEW d \in Depths, SetUploadBuffer(d)
      PROVE  ReportsInv'
    <2>1. /\ uploadBuffer' = Other /\ Other' = uploadBuffer /\ replacing'
          /\ Current'.due /\ Current'.pc = "idle"
          /\ buffers'[uploadBuffer] = buffers[uploadBuffer]
        BY <1>2, SetBufferEffect DEF Current
    <2>2. Current' = buffers'[Other]
        BY <2>1 DEF Current
    <2>3. \A b \in 1 .. 2 : buffers'[b].pc /= "idle" =>
              buffers'[b].due \/ buffers'[b].report = buffers'[b].rate
        BY <2>1, <2>2, TwoBuffers
    <2> QED
        BY <2>1, <2>3
<1>3. CASE DestroyOldBuffer
    <2>1. /\ UNCHANGED uploadBuffer /\ ~replacing' /\ Other' = Other
          /\ buffers'[uploadBuffer] = buffers[uploadBuffer] /\ buffers'[Other] = NoBuffer
        BY <1>3, DestroyEffect DEF Current, Other
    <2>2. \A b \in 1 .. 2 : buffers'[b].pc /= "idle" =>
              buffers'[b].due \/ buffers'[b].report = buffers'[b].rate
        BY <2>1, TwoBuffers
    <2> QED
        BY <2>1, <2>2, TwoBuffers
<1>4. ASSUME NEW b \in 1 .. 2, UploadThread(b)
      PROVE  ReportsInv'
    <2>1. UNCHANGED <<uploadBuffer, replacing>> /\ Other' = Other
        BY <1>4, UploadEffect DEF Other
    <2>2. \A o \in 1 .. 2 : buffers'[o].pc /= "idle" =>
              buffers'[o].due \/ buffers'[o].report = buffers'[o].rate
        <3>1. \A o \in 1 .. 2 : o /= b => buffers'[o] = buffers[o]
            BY <1>4, UploadEffect
        <3>2. buffers'[b].pc /= "idle" =>
                  buffers'[b].due \/ buffers'[b].report = buffers'[b].rate
            BY <1>4, UploadEffect
        <3> QED
            BY <3>1, <3>2
    <2>3. ASSUME ~replacing PROVE buffers'[Other] = NoBuffer
        <3>1. b /= Other
            BY <1>4, <2>3, TwoBuffers, UploadEffect
        <3> QED
            BY <1>4, <2>3, <3>1, TwoBuffers, UploadEffect
    <2>4. ASSUME ~stale', buffers'[Other].pc /= "idle"
          PROVE  buffers'[uploadBuffer].due /\ buffers'[uploadBuffer].pc = "idle"
        <3>1. ~stale
            BY <1>0, <1>4, <2>4 DEF UploadThread, BufferReady, TestRoomState, TestSignalState,
                                    TestThen, UpdateAudioSettings, history
        <3>2. CASE b = uploadBuffer
            <4>1. buffers[Other].pc /= "idle"
                BY <1>4, <2>4, <3>2, TwoBuffers, UploadEffect
            <4>2. ~ReportIdle /\ Current.pc = "idle"
                BY <3>1, <4>1, TwoBuffers DEF ReportIdle
            <4>3. BufferReady(b)
                BY <1>4, <3>2, <4>2, UploadEffect DEF Current
            <4> QED
                BY <2>4, <4>2, <4>3 DEF BufferReady, Overtakes
        <3>3. CASE b = Other
            <4>1. buffers'[uploadBuffer] = Current
                BY <1>4, <3>3, TwoBuffers, UploadEffect DEF Current
            <4>2. CASE buffers[Other].pc /= "idle"
                BY <3>1, <4>1, <4>2
            <4>3. CASE buffers[Other].pc = "idle"
                <5>1. BufferReady(b)
                    BY <1>4, <3>3, <4>3, UploadEffect
                <5>2. ReportIdle /\ Current.due
                    BY <2>4, <3>3, <5>1, TwoBuffers DEF BufferReady, Overtakes, Current
                <5> QED
                    BY <4>1, <5>2, TwoBuffers DEF ReportIdle, Current
            <4> QED
                BY <4>2, <4>3
        <3> QED
            BY <3>2, <3>3, TwoBuffers
    <2> QED
        BY <2>1, <2>2, <2>3, <2>4 DEF Current
<1>5. ASSUME ~ControlThread, ~\E b \in 1 .. 2 : UploadThread(b)
      PROVE  ReportsInv'
    <2>1. UNCHANGED <<uploadBuffer, buffers, replacing>> /\ (stale' \/ ~stale \/ ReportIdle)
        BY <1>5, BuffersKept
    <2>2. Other' = Other /\ Current' = Current
        BY <2>1 DEF Other, Current
    <2>3. ReportIdle => buffers[Other].pc = "idle"
        BY TwoBuffers DEF ReportIdle
    <2> QED
        BY <2>1, <2>2, <2>3
<1>6. CASE SetOtherSetting
    <2>1. /\ UNCHANGED <<uploadBuffer, replacing>> /\ Other' = Other
          /\ Current'.due /\ Current'.pc = Current.pc
          /\ buffers'[Other] = buffers[Other] /\ UNCHANGED stale
        BY <1>6, SetOtherEffect DEF Other, SetOtherSetting, history
    <2>2. buffers'[uploadBuffer].due
        BY <2>1 DEF Current
    <2>3. \A b \in 1 .. 2 : buffers'[b].pc /= "idle" =>
              buffers'[b].due \/ buffers'[b].report = buffers'[b].rate
        BY <2>1, <2>2, TwoBuffers
    <2> QED
        BY <2>1, <2>3
<1> QED
    BY <1>1, <1>2, <1>3, <1>4, <1>5, <1>6 DEF ControlThread

-----------------------------------------------------------------------------
(* The details on their way to the server. *)

\* What the server will have once it has received everything.
Latest == IF toServer = <<>> THEN serverDetails ELSE DetailsOf(Last(toServer))

\* Arguments are loaded in the handler of Open only.
DetailsIdle == wpc \notin {"create", "createSend"} => details = NoDetails

\* The arguments of createRoom are the buffer's, or a report follows createRoom:
\* until then the room is closed, and a report that starts to look is skipped.
LoadedInv ==
    ~stale => \A what \in {"rate", "depth"} :
       \/ details[what] = None \/ details[what] = Current[what]
       \/ Current.due \/ Current.pc = "room"

\* The server of an open room has details.
ServedInv ==
    (/\ up
     /\ \/ roomState = "open"
        \/ \E i \in DOMAIN toHost : Response(toHost[i]) /\ toHost[i].success)
        => serverDetails /= NoDetails

\* On an open link, what the server was told last is what is set, or a report is
\* still to come.
LatestInv ==
    ~stale /\ readyState = "open" /\ (Asking \/ serverDetails /= NoDetails)
        => Owed \/ Latest = CurrentDetails

DetailsInv == LoadedInv /\ ServedInv /\ LatestInv

\* A report that is turned down after createRoom has its details is noticed.
LEMMA Skipped ==
    ASSUME NEW b \in 1 .. 2, RoomRequested, UploadThread(b), buffers[b].pc /= "idle",
           buffers'[b].pc = "idle", ~UpdateAudioSettings(b), Typed
    PROVE  stale'
<1>1. buffers \in [1 .. 2 -> LiveBuffers \cup {NoBuffer}] /\ buffers[b] \in LiveBuffers
    BY Live DEF Typed, BuffersTyped
<1>2. ~BufferReady(b)
    BY DEF BufferReady
<1>3. CASE TestRoomState(b)
    BY <1>1, <1>3 DEF TestRoomState, TestThen, LiveBuffers
<1>4. CASE TestSignalState(b)
    BY <1>1, <1>4 DEF TestSignalState, TestThen, LiveBuffers
<1> QED
    BY <1>2, <1>3, <1>4 DEF UploadThread

\* The exception, once made, is never taken back by these threads.
LEMMA StaleStays ==
    ASSUME Typed, ControlThread \/ \E b \in 1 .. 2 : UploadThread(b), ~stale'
    PROVE  ~stale
<1>1. CASE ControlThread
    BY <1>1 DEF ControlThread, SetOutputSampleRate, SetOtherSetting, SetUploadBuffer,
                DestroyOldBuffer, history
<1>2. ASSUME NEW b \in 1 .. 2, UploadThread(b)
      PROVE  ~stale
    BY <1>2 DEF UploadThread, BufferReady, TestRoomState, TestSignalState, TestThen,
                UpdateAudioSettings, history
<1> QED
    BY <1>1, <1>2

\* Every step leaves the arguments to that handler.
LEMMA DetailsIdleStep == Typed /\ DetailsIdle /\ [Next]_vars => DetailsIdle'
<1> SUFFICES ASSUME Typed, DetailsIdle, [Next]_vars PROVE DetailsIdle'
    OBVIOUS
<1> USE DEF DetailsIdle
<1>1. CASE ControlThread \/ (\E b \in 1 .. 2 : UploadThread(b)) \/ Disconnect \/ LoseUnread
           \/ AskToClose \/ Server \/ UNCHANGED vars
    <2>1. UNCHANGED <<wpc, details>>
        BY <1>1 DEF ControlThread, SetOutputSampleRate, SetOtherSetting, SetUploadBuffer,
                    DestroyOldBuffer, UploadThread, BufferReady, TestRoomState,
                    TestSignalState, TestThen, UpdateAudioSettings, Disconnect, LoseUnread,
                    AskToClose, Server, ServerCreateRoom, ServerAudioDetails, ClientJoins,
                    ClientLeaves, handler, vars
    <2> QED
        BY <2>1
<1>2. CASE Try \/ Connect \/ FailedSend
    BY <1>2 DEF Try, Connect, FailedSend, SendFails, OtherFindsClosed, OtherCloses,
                OtherClosesSignal, OtherEnds
<1>3. CASE OnOpen \/ OpenMeetsClose \/ CreateRoom \/ OnClose \/ Inner
           \/ LoadDetail("rate") \/ LoadDetail("depth")
    BY <1>3 DEF OnOpen, OpenMeetsClose, CreateRoom, OnClose, Inner, LoadDetail, CloseSignal,
                ClosePeerConnections, ReplaceParticipants, CreatePeerConnection,
                CloseRtcConnection
<1>4. CASE Handling
    BY <1>4 DEF Handling, OnCreateRoomResponse, OnClientJoin, OnClientLeave, Receive
<1> QED
    BY <1>1, <1>2, <1>3, <1>4 DEF Next, WebSocketThread, Inner, Handling

\* Arguments of createRoom go out of date only while a report is due.
LEMMA LoadedStep ==
    ASSUME Typed, PhaseInv, LiveInv, DetailsIdle, LoadedInv, Undisturbed
    PROVE  LoadedInv'
<1> USE DEF LoadedInv
<1>0. details \in DetailSet /\ stale \in BOOLEAN /\ [Next]_vars
    BY DEF Typed, HostTyped, HistoryTyped, Undisturbed
<1>1. CASE ControlThread \/ \E b \in 1 .. 2 : UploadThread(b)
    <2>1. UNCHANGED details
        BY <1>1, OtherThreads DEF Quiet, SendsDetails, handler
    <2> SUFFICES ASSUME ~stale', NEW what \in {"rate", "depth"}, details[what] /= None
                 PROVE  \/ details[what] = Current'[what]
                        \/ Current'.due \/ Current'.pc = "room"
        BY <2>1
    <2>2. ~stale
        BY <1>1, StaleStays
    <2>3. details[what] = Current[what] \/ Current.due \/ Current.pc = "room"
        BY <2>2
    <2>4. RoomRequested /\ roomState = "closed"
        <3>1. details /= NoDetails
            BY <1>0 DEF NoDetails
        <3>2. wpc \in {"create", "createSend"}
            BY <3>1 DEF DetailsIdle
        <3> QED
            BY <3>1, <3>2, Phases DEF RoomRequested, LiveInv, AskInv, NoRoom, Undisturbed
    <2>5. CASE ControlThread
        <3>1. CASE \E r \in Rates : SetOutputSampleRate(r)
            BY <3>1, SetRateEffect
        <3>2. CASE \E d \in Depths : SetUploadBuffer(d)
            BY <3>2, SetBufferEffect
        <3>3. CASE DestroyOldBuffer
            BY <2>3, <3>3, DestroyEffect
        <3>4. CASE SetOtherSetting
            BY <3>4, SetOtherEffect
        <3> QED
            BY <2>5, <3>1, <3>2, <3>3, <3>4 DEF ControlThread
    <2>6. ASSUME NEW b \in 1 .. 2, UploadThread(b)
          PROVE  details[what] = Current'[what] \/ Current'.due \/ Current'.pc = "room"
        <3>1. Current' = buffers'[uploadBuffer]
            BY <2>6, UploadEffect DEF Current
        <3>2. CASE b /= uploadBuffer
            BY <2>3, <2>6, <3>1, <3>2, TwoBuffers, UploadEffect DEF Current
        <3>3. CASE b = uploadBuffer
            <4>1. Current'.rate = Current.rate /\ Current'.depth = Current.depth
                BY <2>6, <3>1, <3>3, UploadEffect DEF Current
            <4>2. Current'[what] = Current[what]
                BY <4>1
            <4>3. CASE BufferReady(b)
                BY <2>6, <3>1, <3>3, <4>3, UploadEffect DEF BufferReady, TestRoomState,
                   TestSignalState, UpdateAudioSettings
            <4>4. CASE TestRoomState(b)
                <5>1. buffers[b].pc = "room" /\ ~UpdateAudioSettings(b) /\ buffers'[b].pc = "idle"
                    BY <2>4, <2>6, <4>4, UploadEffect DEF TestRoomState, BufferReady,
                       TestSignalState, UpdateAudioSettings
                <5> QED
                    BY <2>4, <2>6, <5>1, Skipped
            <4>5. CASE TestSignalState(b) \/ UpdateAudioSettings(b)
                <5>1. Current'.due = Current.due /\ Current.pc /= "room"
                    BY <2>6, <3>1, <3>3, <4>5, UploadEffect DEF Current, BufferReady,
                       TestRoomState, TestSignalState, UpdateAudioSettings
                <5> QED
                    BY <2>3, <4>2, <5>1
            <4> QED
                BY <2>6, <4>3, <4>4, <4>5 DEF UploadThread
        <3> QED
            BY <3>2, <3>3
    <2> QED
        BY <1>1, <2>5, <2>6
<1>2. ASSUME NEW load \in {"rate", "depth"}, LoadDetail(load),
             ~ControlThread, ~\E b \in 1 .. 2 : UploadThread(b)
      PROVE  LoadedInv'
    <2>1. details' = [details EXCEPT ![load] = Current[load]]
        BY <1>2 DEF LoadDetail, Current
    <2>2. Current' = Current /\ (stale' \/ ~stale \/ details = NoDetails)
        BY <1>0, <1>2, BuffersKept DEF Current
    <2>3. ASSUME ~stale', NEW what \in {"rate", "depth"}
          PROVE  \/ details'[what] = None \/ details'[what] = Current[what]
                 \/ Current.due \/ Current.pc = "room"
        <3>1. CASE what = load
            BY <1>0, <2>1, <3>1 DEF DetailSet
        <3>2. CASE what /= load
            <4>1. details'[what] = details[what]
                BY <1>0, <2>1, <3>2 DEF DetailSet
            <4>2. CASE details = NoDetails
                BY <4>1, <4>2 DEF NoDetails
            <4>3. CASE ~stale
                BY <4>1, <4>3
            <4> QED
                BY <2>2, <2>3, <4>2, <4>3
        <3> QED
            BY <3>1, <3>2
    <2> QED
        BY <2>1, <2>2, <2>3
<1>3. ASSUME UNCHANGED <<uploadBuffer, buffers, stale>>,
             details' = details \/ details' = NoDetails
      PROVE  LoadedInv'
    <2>1. Current' = Current
        BY <1>3 DEF Current
    <2>2. NoDetails.rate = None /\ NoDetails.depth = None
        BY DEF NoDetails
    <2>3. CASE details' = NoDetails
        BY <1>3, <2>2, <2>3
    <2>4. CASE details' = details
        BY <1>3, <2>1, <2>4
    <2> QED
        BY <1>3, <2>3, <2>4
<1>4. ASSUME ~ControlThread, ~\E b \in 1 .. 2 : UploadThread(b),
             ~\E load \in {"rate", "depth"} : LoadDetail(load)
      PROVE  LoadedInv'
    <2>1. UNCHANGED <<uploadBuffer, buffers, stale>>
        BY <1>0, <1>4, BuffersKept
    <2>2. CASE CreateRoom
        BY <1>3, <2>1, <2>2 DEF CreateRoom
    <2>3. CASE Disconnect \/ LoseUnread \/ ServerCreateRoom \/ ServerAudioDetails
               \/ (\E c \in Clients : ClientJoins(c) \/ ClientLeaves(c))
               \/ Quiet \/ (\E b \in 1 .. 2 : SendsDetails(b))
        <3>1. UNCHANGED details
            BY <2>3 DEF Disconnect, LoseUnread, ServerCreateRoom, ServerAudioDetails,
                        ClientJoins, ClientLeaves, Quiet, SendsDetails, handler
        <3> QED
            BY <1>3, <2>1, <3>1
    <2>4. CASE Try \/ Connect \/ OnOpen \/ Inner \/ Handling \/ OtherEnds
        <3>1. UNCHANGED details
            BY <2>4 DEF Try, Connect, OnOpen, Inner, CloseSignal, ClosePeerConnections,
                        ReplaceParticipants, CreatePeerConnection, CloseRtcConnection,
                        Handling, OnCreateRoomResponse, OnClientJoin, OnClientLeave, Receive,
                        OtherEnds
        <3> QED
            BY <1>3, <2>1, <3>1
    <2> QED
        BY <1>4, <2>2, <2>3, <2>4, Steps
<1> QED
    BY <1>1, <1>2, <1>4

\* A room opens, and a success is announced, only with details at the server.
LEMMA ServedStep ==
    ASSUME Typed, ConnectionInv, PhaseInv, LiveInv, ServedInv, Undisturbed
    PROVE  ServedInv'
<1> USE DEF ServedInv
<1>1. toHost \in Seq(Events) /\ toServer \in Seq(Texts) /\ up \in BOOLEAN
    BY DEF Typed, NetTyped
<1>2. ASSUME UNCHANGED <<up, toHost, roomState>>,
             serverDetails' = NoDetails => serverDetails = NoDetails
      PROVE  ServedInv'
    BY <1>2 DEF Response
<1>3. CASE Try \/ Connect
    <2>1. toHost' = <<>> /\ roomState' = "closed"
        <3>1. CASE Try
            BY <3>1, LinkFacts, Phases DEF Try, roomVars, Undisturbed
        <3>2. CASE Connect
            BY <3>2, Phases DEF Connect, roomVars, ConnectionInv, Undisturbed
        <3> QED
            BY <1>3, <3>1, <3>2
    <2> QED
        BY <2>1
<1>4. CASE Disconnect \/ LoseUnread
    BY <1>4, LinkFacts DEF Disconnect, LoseUnread, linkVars
<1>5. CASE Server
    <2>1. /\ up /\ UNCHANGED <<up, roomState>>
          /\ serverDetails' = NoDetails => serverDetails = NoDetails
        <3>1. CASE ServerCreateRoom \/ ServerAudioDetails
            <4>1. toServer /= <<>> /\ DetailsOf(Head(toServer)) /= NoDetails
                BY <1>1, <3>1, QueueFacts, TextNotEmpty
                   DEF ServerCreateRoom, ServerAudioDetails
            <4> QED
                BY <3>1, <4>1 DEF ServerCreateRoom, ServerAudioDetails, ConnectionInv, linkVars,
                                  roomVars
        <3>2. CASE \E c \in Clients : ClientJoins(c) \/ ClientLeaves(c)
            BY <3>2 DEF ClientJoins, ClientLeaves, ConnectionInv, linkVars, roomVars
        <3> QED
            BY <1>5, <3>1, <3>2 DEF Server
    <2>2. CASE ServerCreateRoom
        <3>1. CASE serverDetails' = DetailsOf(Head(toServer))
            BY <1>1, <2>2, <3>1, QueueFacts, TextNotEmpty DEF ServerCreateRoom
        <3> DEFINE refusal == [method |-> "createRoomResponse", success |-> FALSE]
        <3>2. CASE serverDetails' = serverDetails /\ toHost' = Append(toHost, refusal)
            <4>1. /\ DOMAIN toHost' = 1 .. Len(toHost) + 1 /\ toHost'[Len(toHost) + 1] = refusal
                  /\ DOMAIN toHost = 1 .. Len(toHost) /\ Len(toHost) \in Nat
                  /\ \A i \in 1 .. Len(toHost) : toHost'[i] = toHost[i]
                BY <1>1, <3>2
            <4>2. \A i \in DOMAIN toHost' : toHost'[i].success =>
                      i \in DOMAIN toHost /\ toHost'[i] = toHost[i]
                BY <4>1
            <4> QED
                BY <2>1, <3>2, <4>2 DEF Response
        <3> QED
            BY <2>2, <3>1, <3>2 DEF ServerCreateRoom
    <2>3. CASE ServerAudioDetails
        BY <1>2, <2>1, <2>3 DEF ServerAudioDetails
    <2>4. CASE \E c \in Clients : ClientJoins(c) \/ ClientLeaves(c)
        BY <2>1, <2>4 DEF ClientJoins, ClientLeaves, ConnectionInv
    <2> QED
        BY <1>5, <2>2, <2>3, <2>4 DEF Server
<1>6. CASE Quiet \/ \E b \in 1 .. 2 : SendsDetails(b)
    <2>1. UNCHANGED <<up, toHost, serverDetails, roomState>>
        BY <1>6 DEF Quiet, SendsDetails, linkVars, serverVars, roomVars
    <2> QED
        BY <1>2, <2>1
<1>7. CASE OnOpen \/ LoadDetail("rate") \/ LoadDetail("depth") \/ CreateRoom \/ Inner
           \/ OtherEnds
    <2>1. UNCHANGED <<up, toHost, serverDetails, roomState>>
        BY <1>7, LinkFacts
           DEF CreateRoom, Inner, OnOpen, LoadDetail, CloseSignal, ClosePeerConnections,
               ReplaceParticipants, CreatePeerConnection, CloseRtcConnection, OtherEnds,
               netVars, linkVars, serverVars, roomVars
    <2> QED
        BY <1>2, <2>1
<1>9. CASE Handling
    <2>1. \E m \in {"createRoomResponse", "clientJoin", "clientLeave"} : Receive(m)
        BY <1>9 DEF Handling, OnCreateRoomResponse, OnClientJoin, OnClientLeave
    <2>2. /\ toHost /= <<>> /\ toHost' = Tail(toHost) /\ Head(toHost) = toHost[1]
          /\ UNCHANGED <<up, serverDetails>>
        BY <1>1, <2>1, TailFacts DEF Receive, linkVars, serverVars
    <2>3. \A i \in DOMAIN toHost' : i + 1 \in DOMAIN toHost /\ toHost'[i] = toHost[i + 1]
        BY <1>1, <2>2, TailFacts
    <2>4. 1 \in DOMAIN toHost
        BY <1>1, <2>2, TailFacts
    <2>5. roomState' = "open" => \/ roomState = "open"
                                 \/ Response(toHost[1]) /\ toHost[1].success
        BY <1>9, <2>2 DEF Handling, OnCreateRoomResponse, OnClientJoin, OnClientLeave,
                          Receive, Response
    <2> QED
        BY <2>2, <2>3, <2>4, <2>5 DEF Response
<1> QED
    BY <1>3, <1>4, <1>5, <1>6, <1>7, <1>9, Steps DEF Server

\* Where the server will have details, createRoom has been sent on an open link.
LEMMA Requested ==
    ASSUME Typed, ConnectionInv, PhaseInv, LiveInv, ~mixed,
           Asking \/ serverDetails /= NoDetails
    PROVE  RoomRequested /\ up /\ wpc \notin {"create", "createSend"}
<1>1. up
    BY DEF ConnectionInv, Asking
<1>2. phase = "open"
    BY <1>1, Phases DEF Typed, HostTyped, ConnectionInv
<1>3. wpc \notin {"create", "createSend"}
    BY DEF LiveInv, AskInv, NoRoom
<1> QED
    BY <1>1, <1>2, <1>3 DEF RoomRequested

\* The last of a queue.
LEMMA LastText ==
    ASSUME NEW s \in Seq(Texts)
    PROVE  /\ \A e \in Texts : Append(s, e) /= <<>> /\ Last(Append(s, e)) = e
           /\ s /= <<>> /\ Tail(s) /= <<>> => Last(Tail(s)) = Last(s)
           /\ s /= <<>> /\ Tail(s) = <<>> => Last(s) = Head(s)
<1>1. \A e \in Texts : Append(s, e) /= <<>> /\ Last(Append(s, e)) = e
    BY DEF Last
<1>2. ASSUME s /= <<>>, Tail(s) /= <<>>
      PROVE  Last(Tail(s)) = Last(s)
    <2>1. Len(s) \in Nat /\ Len(s) >= 2 /\ Len(Tail(s)) = Len(s) - 1
        BY <1>2
    <2>2. Len(s) - 1 \in 1 .. Len(s) - 1 /\ (Len(s) - 1) + 1 = Len(s)
        BY <2>1
    <2> QED
        BY <1>2, <2>1, <2>2, TailFacts DEF Last
<1>3. ASSUME s /= <<>>, Tail(s) = <<>>
      PROVE  Last(s) = Head(s)
    <2>1. Len(s) \in Nat /\ Len(Tail(s)) = Len(s) - 1 /\ Head(s) = s[1]
        BY <1>3, TailFacts
    <2>2. Len(s) = 1
        <3>1. Len(<<>>) = 0
            OBVIOUS
        <3>2. Len(Tail(s)) = 0
            BY <1>3, <3>1, Zenon
        <3> QED
            BY <2>1, <3>2
    <2> QED
        BY <2>1, <2>2 DEF Last
<1> QED
    BY <1>1, <1>2, <1>3

\* Only a new connection opens the link again.
LEMMA ReadyKept ==
    ASSUME Typed, [Next]_vars, ~Connect, readyState' = "open"
    PROVE  readyState = "open"
<1>1. CASE Try \/ Disconnect \/ AskToClose
    BY <1>1, LinkFacts DEF linkVars
<1>2. CASE LoseUnread \/ Server \/ ControlThread \/ (\E b \in 1 .. 2 : UploadThread(b))
           \/ UNCHANGED vars
    BY <1>2 DEF LoseUnread, Server, ServerCreateRoom, ServerAudioDetails, ClientJoins,
                ClientLeaves, ControlThread, SetOutputSampleRate, SetOtherSetting,
                SetUploadBuffer, DestroyOldBuffer, UploadThread, BufferReady, TestRoomState,
                TestSignalState, TestThen, UpdateAudioSettings, netVars, linkVars, vars
<1>3. CASE FailedSend
    BY <1>3, LinkFacts DEF FailedSend, OtherClosesSignal, netVars, linkVars
<1>4. CASE OnOpen \/ OnClose \/ ClosePeerConnections
    BY <1>4, LinkFacts DEF linkVars
<1>5. CASE WebSocketThread /\ ~OnOpen /\ ~OnClose /\ ~ClosePeerConnections
    BY <1>5 DEF WebSocketThread, OpenMeetsClose, LoadDetail, CreateRoom, CloseSignal,
                OnCreateRoomResponse, ReplaceParticipants, OnClientJoin, CreatePeerConnection,
                OnClientLeave, CloseRtcConnection, Receive, netVars, linkVars
<1> QED
    BY <1>1, <1>2, <1>3, <1>4, <1>5 DEF Next

\* The latest text under way, or a report to come, has the current details.
LEMMA LatestStep ==
    ASSUME Typed, ConnectionInv, ConnectionInv', PhaseInv, LiveInv, ReportsInv, DetailsInv,
           Undisturbed
    PROVE  LatestInv'
<1> USE DEF DetailsInv, LatestInv
<1>0. /\ toServer \in Seq(Texts) /\ Current \in LiveBuffers
      /\ Current.rate \in Rates /\ Current.depth \in Depths
    BY TwoBuffers DEF Typed, NetTyped, LiveBuffers
<1>8. [Next]_vars /\ ~mixed
    BY DEF Undisturbed
<1>1. ASSUME UNCHANGED <<toServer, serverDetails, stale>>, Owed' <=> Owed,
             CurrentDetails' = CurrentDetails, readyState' = "open" => readyState = "open"
      PROVE  LatestInv'
    BY <1>1 DEF Asking, CreateRoomAt, Latest
<1>2. ASSUME UNCHANGED <<toServer, serverDetails, uploadBuffer, buffers, stale>>,
             readyState' = "open" => readyState = "open"
      PROVE  LatestInv'
    BY <1>1, <1>2 DEF Owed, Current, CurrentDetails
<1>3. CASE ControlThread
    <2>1. UNCHANGED <<toServer, serverDetails, stale, readyState>>
        BY <1>3 DEF ControlThread, SetOutputSampleRate, SetOtherSetting, SetUploadBuffer,
                    DestroyOldBuffer, netVars, linkVars, serverVars, history
    <2>2. CASE \E r \in Rates : SetOutputSampleRate(r)
        BY <2>2, SetRateEffect DEF Owed
    <2>3. CASE \E d \in Depths : SetUploadBuffer(d)
        BY <2>3, SetBufferEffect DEF Owed
    <2>4. CASE DestroyOldBuffer
        BY <1>1, <2>1, <2>4, DestroyEffect DEF Owed, CurrentDetails
    <2>5. CASE SetOtherSetting
        BY <2>5, SetOtherEffect DEF Owed
    <2> QED
        BY <1>3, <2>2, <2>3, <2>4, <2>5 DEF ControlThread
<1>4. ASSUME NEW b \in 1 .. 2, UploadThread(b), ~stale', readyState' = "open",
             (Asking \/ serverDetails /= NoDetails)'
      PROVE  Owed' \/ Latest' = CurrentDetails'
    <2>1. /\ UNCHANGED serverDetails /\ Current' = buffers'[uploadBuffer]
          /\ Current'.rate = Current.rate /\ Current'.depth = Current.depth
        <3>1. UNCHANGED serverDetails
            BY <1>4, OtherThreads DEF Quiet, SendsDetails, serverVars
        <3>2. Current' = buffers'[uploadBuffer]
            BY <1>4, UploadEffect DEF Current
        <3>3. buffers'[uploadBuffer].rate = Current.rate
              /\ buffers'[uploadBuffer].depth = Current.depth
            BY <1>4, TwoBuffers, UploadEffect DEF Current
        <3> QED
            BY <3>1, <3>2, <3>3
    <2>2. CurrentDetails' = CurrentDetails
        BY <2>1 DEF CurrentDetails
    <2>3. ~stale /\ readyState = "open"
        <3>1. UNCHANGED readyState
            BY <1>4 DEF UploadThread, BufferReady, TestRoomState, TestSignalState, TestThen,
                        UpdateAudioSettings, netVars, linkVars
        <3> QED
            BY <1>4, <3>1, StaleStays
    <2>4. CASE ~UpdateAudioSettings(b)
        <3>1. UNCHANGED toServer
            BY <1>4, <2>4 DEF UploadThread, BufferReady, TestRoomState, TestSignalState,
                              TestThen, netVars
        <3>2. (Asking \/ serverDetails /= NoDetails) /\ Latest' = Latest
            BY <1>4, <2>1, <3>1 DEF Asking, CreateRoomAt, Latest
        <3>3. CASE b /= uploadBuffer
            <4>1. Current' = Current
                BY <1>4, <2>1, <3>3, TwoBuffers, UploadEffect DEF Current
            <4> QED
                BY <2>2, <2>3, <3>2, <4>1 DEF Owed
        <3>4. CASE b = uploadBuffer
            <4>1. CASE BufferReady(b)
                <5>1. buffers'[b].pc /= "idle"
                    BY <1>4, <4>1, UploadEffect
                       DEF BufferReady, TestRoomState, TestSignalState,
                           UpdateAudioSettings
                <5> QED
                    BY <2>1, <3>4, <5>1 DEF Owed
            <4>2. CASE ~BufferReady(b)
                <5>1. buffers[b].pc /= "idle"
                    BY <1>4, <4>2, UploadEffect
                <5>2. buffers'[b].pc /= "idle"
                    BY <1>4, <1>8, <2>4, <3>2, <5>1, Skipped, Requested
                <5> QED
                    BY <2>1, <3>4, <5>2 DEF Owed
            <4> QED
                BY <4>1, <4>2
        <3> QED
            BY <3>3, <3>4
    <2>5. CASE UpdateAudioSettings(b)
        <3>1. buffers[b].pc = "send" /\ buffers'[b].due = buffers[b].due
            BY <1>4, <2>5, UploadEffect DEF UpdateAudioSettings, BufferReady, TestRoomState,
               TestSignalState
        <3>2. CASE b /= uploadBuffer
            <4>1. Current.due /\ Current' = Current
                BY <1>4, <2>1, <2>3, <3>1, <3>2, TwoBuffers, UploadEffect
                   DEF ReportsInv, Current
            <4> QED
                BY <4>1 DEF Owed
        <3>3. CASE b = uploadBuffer
            <4>1. CASE Current.due
                BY <2>1, <3>1, <3>3, <4>1 DEF Owed, Current
            <4>2. CASE ~Current.due
                <5> DEFINE e == [method |-> "audioDetails", rate |-> buffers[b].report,
                                 depth |-> buffers[b].depth]
                <5>1. buffers[b].report = Current.rate /\ buffers[b].depth = Current.depth
                    BY <3>1, <3>3, <4>2 DEF ReportsInv, Current
                <5>2. e \in Texts /\ DetailsOf(e) = CurrentDetails
                    BY <1>0, <5>1 DEF Texts, DetailsOf, CurrentDetails
                <5>3. up
                    <6>1. CASE serverDetails' /= NoDetails
                        BY <2>1, <6>1 DEF ConnectionInv
                    <6>2. CASE Asking'
                        <7>1. toServer' /= <<>>
                            BY <6>2 DEF Asking
                        <7> QED
                            BY <2>5, <7>1 DEF UpdateAudioSettings, SafeSend, ConnectionInv
                    <6> QED
                        BY <1>4, <6>1, <6>2
                <5>4. toServer' = Append(toServer, e)
                    BY <2>3, <2>5, <5>3 DEF UpdateAudioSettings, SafeSend
                <5>5. Latest' = CurrentDetails
                    BY <1>0, <5>2, <5>4, LastText DEF Latest
                <5> QED
                    BY <2>2, <5>5
            <4> QED
                BY <4>1, <4>2
        <3> QED
            BY <3>2, <3>3
    <2> QED
        BY <2>4, <2>5
<1>5. ASSUME ~ControlThread, ~\E b \in 1 .. 2 : UploadThread(b)
      PROVE  LatestInv'
    <2>1. UNCHANGED <<uploadBuffer, buffers>> /\ Current' = Current
          /\ Owed' = Owed /\ CurrentDetails' = CurrentDetails
        BY <1>5, <1>8, BuffersKept DEF Current, Owed, CurrentDetails
    <2>2. ASSUME NEW load \in {"rate", "depth"}, LoadDetail(load)
          PROVE  LatestInv'
        <3>1. ~(Asking \/ serverDetails /= NoDetails) /\ UNCHANGED <<toServer, serverDetails>>
            BY <1>8, <2>2, Requested DEF LoadDetail, netVars, serverVars
        <3> QED
            BY <3>1 DEF Asking, CreateRoomAt
    <2>3. ASSUME ~\E load \in {"rate", "depth"} : LoadDetail(load)
          PROVE  UNCHANGED stale
        BY <1>5, <1>8, <2>3, BuffersKept
    <2>4. CASE Disconnect
        BY <2>4 DEF Disconnect, Asking
    <2>5. CASE CreateRoom
        <3>1. /\ wpc = "createSend" /\ UNCHANGED serverDetails /\ serverDetails = NoDetails
              /\ stale' = stale /\ UNCHANGED readyState
            BY <2>5 DEF CreateRoom, linkVars, serverVars, LiveInv, AskInv, NoRoom, history
        <3> SUFFICES ASSUME ~stale, readyState = "open", Asking'
                     PROVE  Owed \/ Latest' = CurrentDetails
            BY <2>1, <3>1
        <3>2. details.rate \in Rates /\ details.depth \in Depths
            BY <3>1 DEF Typed, HostTyped
        <3>3. \A what \in {"rate", "depth"} : details[what] = Current[what] \/ Owed
            BY <3>2, SessionAssumption DEF LoadedInv, Owed
        <3>4. CASE Owed
            BY <3>4
        <3>5. CASE ~Owed
            <4> DEFINE e == [method |-> "createRoom", rate |-> details.rate,
                             depth |-> details.depth]
            <4>1. details.rate = Current.rate /\ details.depth = Current.depth
                BY <3>3, <3>5
            <4>2. e \in Texts /\ DetailsOf(e) = CurrentDetails
                BY <3>2, <4>1 DEF Texts, DetailsOf, CurrentDetails
            <4>3. up
                <5>1. toServer' /= <<>>
                    BY DEF Asking
                <5> QED
                    BY <2>5, <5>1 DEF CreateRoom, SafeSend, ConnectionInv
            <4>4. toServer' = Append(toServer, e)
                BY <2>5, <4>3 DEF CreateRoom, SafeSend
            <4> QED
                BY <1>0, <4>2, <4>4, LastText DEF Latest
        <3> QED
            BY <3>4, <3>5
    <2>6. CASE ServerCreateRoom \/ ServerAudioDetails
        <3>1. /\ toServer /= <<>> /\ toServer' = Tail(toServer)
              /\ UNCHANGED <<stale, readyState>>
            BY <2>6 DEF ServerCreateRoom, ServerAudioDetails, linkVars, history
        <3>2. 1 \in DOMAIN toServer /\ Head(toServer) = toServer[1]
              /\ DetailsOf(Head(toServer)) /= NoDetails
            BY <1>0, <3>1, TailFacts, TextNotEmpty
        <3>3. Asking' => Asking
            BY <3>1, TakenText
        <3> SUFFICES ASSUME ~stale, readyState = "open",
                            (Asking \/ serverDetails /= NoDetails)'
                     PROVE  Owed \/ Latest' = CurrentDetails
            BY <2>1, <3>1
        <3>4. Asking \/ serverDetails /= NoDetails
            <4>1. CASE ServerCreateRoom
                BY <3>2, <4>1 DEF ServerCreateRoom, Asking, CreateRoomAt
            <4>2. CASE ServerAudioDetails
                BY <3>3, <4>2 DEF ServerAudioDetails
            <4> QED
                BY <2>6, <4>1, <4>2
        <3>5. Owed \/ DetailsOf(Last(toServer)) = CurrentDetails
            BY <3>1, <3>4 DEF Latest
        <3>6. CASE toServer' /= <<>>
            BY <1>0, <3>1, <3>5, <3>6, LastText DEF Latest
        <3>7. CASE toServer' = <<>>
            <4>1. serverDetails' /= NoDetails
                BY <3>7 DEF Asking
            <4>2. serverDetails' = DetailsOf(Head(toServer))
                <5>1. CASE ServerCreateRoom
                    <6>1. serverDetails = NoDetails
                        BY <3>2, <5>1 DEF ServerCreateRoom, Asking, CreateRoomAt, LiveInv,
                                          AskInv, NoRoom
                    <6> QED
                        BY <4>1, <5>1, <6>1 DEF ServerCreateRoom
                <5>2. CASE ServerAudioDetails
                    BY <4>1, <5>2 DEF ServerAudioDetails
                <5> QED
                    BY <2>6, <5>1, <5>2
            <4>3. Latest' = DetailsOf(Last(toServer))
                BY <1>0, <3>1, <3>7, <4>2, LastText DEF Latest
            <4> QED
                BY <3>5, <4>3
        <3> QED
            BY <3>6, <3>7
    <2> DEFINE NoLoad == ~\E load \in {"rate", "depth"} : LoadDetail(load)
    <2>7. CASE /\ NoLoad /\ ~Connect
               /\ \/ LoseUnread \/ Quiet
                  \/ \E c \in Clients : ClientJoins(c) \/ ClientLeaves(c)
        <3>1. UNCHANGED <<toServer, serverDetails>>
            BY <2>7 DEF LoseUnread, Quiet, ClientJoins, ClientLeaves, serverVars
        <3>2. UNCHANGED stale
            BY <2>3, <2>7
        <3> QED
            BY <1>2, <1>8, <2>1, <2>7, <3>1, <3>2, ReadyKept
    <2>8. CASE ~Connect /\ (Try \/ OnOpen \/ Inner \/ Handling \/ OtherEnds)
        <3>1. UNCHANGED <<toServer, serverDetails, stale>>
            BY <2>8 DEF Try, OnOpen, Inner, CloseSignal, ClosePeerConnections,
                        ReplaceParticipants, CreatePeerConnection, CloseRtcConnection, Handling,
                        OnCreateRoomResponse, OnClientJoin, OnClientLeave, Receive, OtherEnds,
                        netVars, serverVars, history
        <3> QED
            BY <1>2, <1>8, <2>1, <2>8, <3>1, ReadyKept
    <2>9. CASE Connect
        <3>1. /\ wpc = "connecting" /\ UNCHANGED <<toServer, serverDetails>>
            BY <2>9 DEF Connect, serverVars
        <3>2. ~Asking' /\ serverDetails' = NoDetails
            BY <3>1 DEF ConnectionInv, Asking, CreateRoomAt
        <3> QED
            BY <3>2
    <2>10. ~OpenMeetsClose /\ ~OnClose /\ ~OtherCloses
        BY <1>8, Phases DEF OpenMeetsClose, Undisturbed
    <2>11. AskToClose \/ SendFails \/ OtherFindsClosed \/ OtherClosesSignal \/ UNCHANGED vars
               => Quiet
        BY SendersQuiet
    <2> QED
        BY <1>5, <1>8, <2>2, <2>4, <2>5, <2>6, <2>7, <2>8, <2>9, <2>10, <2>11
           DEF Next, Server, WebSocketThread, FailedSend, Inner, Handling
<1> QED
    BY <1>3, <1>4, <1>5

\* The invariant of the details, beside that of the room.
ServerInv == ReportsInv /\ DetailsIdle /\ (~mixed => DetailsInv)

\* A server not yet asked has no details to be wrong about.
LEMMA InitServer == Init => ServerInv
<1> SUFFICES ASSUME Init PROVE ServerInv
    OBVIOUS
<1>1. ReportsInv
    <2>1. /\ uploadBuffer = 1 /\ ~replacing
          /\ buffers = <<Buffer(DefaultRate, DefaultDepth), NoBuffer>>
        BY DEF Init
    <2>2. Other = 2
        BY <2>1 DEF Other
    <2>3. buffers[2] = NoBuffer /\ \A b \in 1 .. 2 : buffers[b].pc = "idle"
        BY <2>1 DEF Buffer, NoBuffer
    <2> QED
        BY <2>2, <2>3 DEF ReportsInv
<1>2. LoadedInv /\ DetailsIdle
    BY DEF Init, LoadedInv, DetailsIdle, NoDetails
<1>3. ServedInv
    BY DEF Init, ServedInv
<1>4. LatestInv
    BY DEF Init, LatestInv
<1> QED
    BY <1>1, <1>2, <1>3, <1>4 DEF ServerInv, DetailsInv

\* A Close that begins alone leaves a server that was asked nothing.
LEMMA DetailsAgain ==
    ASSUME Typed, ConnectionInv, DetailsIdle, CloseAlone
    PROVE  DetailsInv'
<1>1. /\ ~up /\ toServer = <<>> /\ UNCHANGED toServer
      /\ serverDetails = NoDetails /\ UNCHANGED serverDetails
      /\ details = NoDetails /\ UNCHANGED details
    BY DEF CloseAlone, ConnectionInv, DetailsIdle, serverVars
<1>2. up' = up
    BY LinkFacts DEF CloseAlone, linkVars
<1>3. LoadedInv'
    BY <1>1 DEF LoadedInv, NoDetails
<1>4. ServedInv'
    BY <1>1, <1>2 DEF ServedInv
<1>5. LatestInv'
    BY <1>1 DEF LatestInv, Asking
<1> QED
    BY <1>3, <1>4, <1>5 DEF DetailsInv

\* Every step keeps the invariant of the details.
LEMMA StepServer == Typed /\ RoomInv /\ ServerInv /\ [Next]_vars => ServerInv'
<1> SUFFICES ASSUME Typed, RoomInv, ServerInv, [Next]_vars PROVE ServerInv'
    OBVIOUS
<1>1. /\ ConnectionInv /\ ConnectionInv' /\ PhaseInv
      /\ ReportsInv /\ ReportsInv' /\ DetailsIdle /\ DetailsIdle'
    BY ConnectionStep, ReportsStep, DetailsIdleStep DEF RoomInv, ServerInv
<1>2. ASSUME ~mixed' PROVE DetailsInv'
    <2>1. CASE CloseAlone
        BY <1>1, <2>1, DetailsAgain
    <2>2. CASE Undisturbed /\ LiveInv /\ DetailsInv
        <3>1. LoadedInv' /\ ServedInv'
            BY <1>1, <2>2, LoadedStep, ServedStep DEF DetailsInv
        <3>2. LatestInv'
            BY <1>1, <2>2, LatestStep
        <3> QED
            BY <3>1, <3>2 DEF DetailsInv
    <2> QED
        BY <1>2, <2>1, <2>2, MixedStays DEF RoomInv, ServerInv, Undisturbed
<1> QED
    BY <1>1, <1>2 DEF ServerInv

\* With no report due and none under way, the server of an open room has the rate
\* and the depth of the buffer that sends, unless a report went stale.
THEOREM DetailsCurrent == Spec => []ServerDetailsCurrent
<1>1. Spec => [](Typed /\ RoomInv /\ ServerInv)
    BY InitServer, StepServer, AlwaysRoom, PTL DEF Spec
<1>2. Typed /\ RoomInv /\ ServerInv => ServerDetailsCurrent
    <2> SUFFICES ASSUME ServedInv, LatestInv, ~stale, roomState = "open", up,
                        readyState = "open", toServer = <<>>, ~Owed
                 PROVE  /\ serverDetails.rate = Current.rate
                        /\ serverDetails.depth = Current.depth
        <3>1. Typed /\ ReportIdle /\ ~Current.due => ~Owed
            BY TwoBuffers DEF ReportIdle, Owed, Current
        <3> QED
            BY <3>1 DEF ServerInv, DetailsInv, ServerDetailsCurrent, Current
    <2>1. serverDetails = CurrentDetails
        BY DEF ServedInv, LatestInv, Latest
    <2> QED
        BY <2>1 DEF CurrentDetails
<1> QED
    BY <1>1, <1>2, PTL
==============================================================================
