------------------------ MODULE PeerConnectionsProofs ------------------------
(***************************************************************************)
(* Theorems about PeerConnections, for any set of clients.                 *)
(***************************************************************************)
EXTENDS PeerConnections, TLAPS

\* Where every thread's operation has the maps agree.
Settled == {"idle", "closeChannel", "closeUnlock"}

\* What the maps hold at every step of an operation, until operations cross;
\* a reset that runs alone may begin with anything in them.
MapsInv ==
    /\ op["websocket"] \in {"created", "closeChannel", "closeConnection"} => who \in Clients
    /\ ~crossed =>
        /\ \A t, u \in Threads : op[t] /= "idle" /\ op[u] /= "idle" => t = u
        /\ (\A t \in Threads : op[t] \in Settled) => channels = connections
        /\ op["websocket"] = "created" => channels = connections \cup {who}
        /\ op["websocket"] = "closeConnection" => channels = connections \ {who}
        /\ \A t \in Threads : op[t] = "resetConnections" => channels = {}

\* Who holds the lock; a sender has it, so nobody erases under its iteration.
LockInv ==
    /\ lock = "websocket" <=>
           op["websocket"] \in {"closeChannel", "closeConnection", "closeUnlock"}
    /\ Iterating => lock = "upload"

\* A channel that is not closed is in the map.
ChannelsInv == \A c \in Clients : state[c] /= "closed" => c \in channels

\* Every client the message is owed to has it, is at hand, or is still to come.
IterationInv ==
    (~undefined /\ Iterating) =>
        /\ toVisit \subseteq channels
        /\ upc = "send" => sending \in channels
        /\ \A c \in owed : \/ c \in served \cup toVisit
                           \/ upc = "send" /\ c = sending

OwedInv == \A c \in owed : state[c] = "open"

IInv == TypeOK /\ MapsInv /\ LockInv /\ ChannelsInv /\ OwedInv /\ IterationInv

\* A new manager has empty maps and a free lock.
LEMMA InitIInv == Init => IInv
<1> SUFFICES ASSUME Init PROVE IInv
    OBVIOUS
<1>1. undefined \in BOOLEAN /\ terminated \in BOOLEAN /\ crossed \in BOOLEAN
    BY Zenon DEF Init
<1>2. TypeOK
    BY <1>1 DEF Init, TypeOK, Threads, Closed
<1>3. MapsInv
    BY DEF Init, MapsInv, Threads
<1> QED
    BY <1>2, <1>3 DEF Init, IInv, LockInv, ChannelsInv, OwedInv, IterationInv, Iterating,
                      Threads, Closed

\* There are two threads, and each is beside the other.
LEMMA TwoThreads ==
    /\ "websocket" \in Threads /\ "sender" \in Threads
    /\ \A t \in Threads : t = "websocket" \/ t = "sender"
    /\ Beside("websocket") <=> op["sender"] /= "idle"
    /\ Beside("sender") <=> op["websocket"] /= "idle"
BY DEF Threads, Beside

-----------------------------------------------------------------------------
(* The websocket thread. *)

\* Inserting a channel, under an iteration or beside a reset too.
LEMMA Create ==
    ASSUME IInv, NEW c \in Clients, CreateChannel(c)
    PROVE  IInv'
<1> USE TwoThreads DEF CreateChannel, Begin, maps, operation, sendVars
<1>0. undefined' \in BOOLEAN /\ crossed' \in BOOLEAN
    <2>1. Beside("websocket") \in BOOLEAN /\ crossed \in BOOLEAN
        BY DEF Beside, IInv, TypeOK
    <2> QED
        BY <2>1
<1>1. TypeOK'
    BY <1>0 DEF IInv, TypeOK, Resetting
<1>2. MapsInv'
    BY DEF IInv, TypeOK, MapsInv, Settled
<1>3. LockInv'
    BY DEF IInv, TypeOK, LockInv, Iterating
<1>4. ChannelsInv' /\ OwedInv'
    BY DEF IInv, TypeOK, ChannelsInv, OwedInv
<1>5. IterationInv'
    BY DEF IInv, TypeOK, IterationInv, Iterating, Running
<1> QED
    BY <1>1, <1>2, <1>3, <1>4, <1>5 DEF IInv

\* Inserting the connection.
LEMMA FinishCreate ==
    ASSUME IInv, CreateConnection
    PROVE  IInv'
<1> USE TwoThreads DEF CreateConnection, Continue, maps, operation, sendVars
<1>0. undefined' \in BOOLEAN
    BY DEF Beside
<1>1. TypeOK'
    BY <1>0 DEF IInv, TypeOK, MapsInv, Resetting
<1>2. MapsInv'
    BY DEF IInv, TypeOK, MapsInv, Settled
<1>3. LockInv'
    BY DEF IInv, TypeOK, LockInv, Iterating
<1>4. ChannelsInv' /\ OwedInv' /\ IterationInv'
    BY DEF IInv, ChannelsInv, OwedInv, IterationInv, Iterating, Running
<1> QED
    BY <1>1, <1>2, <1>3, <1>4 DEF IInv

\* Erasing a client under the lock.
LEMMA Close ==
    ASSUME IInv,
           (\E c \in Clients : CloseLock(c)) \/ CloseErase \/ CloseUnlock
    PROVE  IInv'
<1> USE TwoThreads DEF maps, operation, sendVars
<1>1. ASSUME NEW c \in Clients, CloseLock(c) PROVE IInv'
    <2> USE <1>1 DEF CloseLock, Begin
    <2>1. crossed' \in BOOLEAN
        BY DEF IInv, TypeOK, Beside
    <2>2. TypeOK'
        BY <2>1 DEF IInv, TypeOK, Resetting
    <2>3. MapsInv'
        BY DEF IInv, TypeOK, MapsInv, Settled
    <2>4. LockInv' /\ ChannelsInv' /\ OwedInv'
        BY DEF IInv, TypeOK, LockInv, ChannelsInv, OwedInv, Iterating
    <2>5. IterationInv'
        BY DEF IInv, IterationInv, Iterating
    <2> QED
        BY <2>2, <2>3, <2>4, <2>5 DEF IInv
<1>2. CASE CloseErase
    <2> USE <1>2 DEF CloseErase, Continue
    <2>0. undefined' \in BOOLEAN
        BY DEF Beside
    <2>1. who \in Clients /\ lock = "websocket" /\ ~Iterating
        BY DEF IInv, MapsInv, LockInv
    <2>2. TypeOK'
        BY <2>0, <2>1 DEF IInv, TypeOK, Resetting
    <2>3. MapsInv'
        BY <2>1 DEF IInv, TypeOK, MapsInv, Settled
    <2>4. LockInv'
        BY <2>1 DEF IInv, TypeOK, LockInv, Iterating
    <2>5. ChannelsInv'
        BY <2>1 DEF IInv, TypeOK, ChannelsInv
    <2>6. OwedInv'
        BY <2>1 DEF IInv, TypeOK, OwedInv
    <2>7. IterationInv'
        BY <2>1 DEF IterationInv, Iterating
    <2> QED
        BY <2>2, <2>3, <2>4, <2>5, <2>6, <2>7 DEF IInv
<1>3. CASE CloseUnlock
    <2> USE <1>3 DEF CloseUnlock, Continue
    <2>1. TypeOK'
        BY DEF IInv, TypeOK, Resetting
    <2>2. MapsInv'
        BY DEF IInv, TypeOK, MapsInv, Settled
    <2>3. LockInv' /\ ChannelsInv' /\ OwedInv'
        BY DEF IInv, TypeOK, LockInv, ChannelsInv, OwedInv, Iterating
    <2>4. IterationInv'
        BY DEF IInv, IterationInv, Iterating
    <2> QED
        BY <2>1, <2>2, <2>3, <2>4 DEF IInv
<1> QED
    BY <1>1, <1>2, <1>3

\* Emptying both maps without the lock, on either thread.
LEMMA Reset ==
    ASSUME IInv, NEW t \in Threads, ResetBegin(t) \/ ResetClose(t) \/ ResetClear(t)
    PROVE  IInv'
<1> USE TwoThreads DEF maps, operation, sendVars
<1>1. CASE ResetBegin(t)
    <2> USE <1>1 DEF ResetBegin, Begin
    <2>0. crossed' \in BOOLEAN
        BY DEF Beside
    <2>1. TypeOK'
        BY <2>0 DEF IInv, TypeOK, Resetting
    <2>2. MapsInv'
        BY DEF IInv, TypeOK, MapsInv, Settled
    <2>3. LockInv' /\ ChannelsInv' /\ OwedInv'
        BY DEF IInv, TypeOK, LockInv, ChannelsInv, OwedInv, Iterating
    <2>4. IterationInv'
        BY DEF IInv, IterationInv, Iterating
    <2> QED
        BY <2>1, <2>2, <2>3, <2>4 DEF IInv
<1>2. CASE ResetClose(t)
    <2> USE <1>2 DEF ResetClose, Continue, Closed
    <2>1. TypeOK'
        BY DEF IInv, TypeOK, Resetting
    <2>2. MapsInv'
        BY DEF IInv, TypeOK, MapsInv, Settled
    <2>3. LockInv' /\ ChannelsInv' /\ OwedInv'
        BY DEF IInv, TypeOK, LockInv, ChannelsInv, OwedInv, Iterating
    <2>4. IterationInv'
        BY DEF IInv, IterationInv, Iterating
    <2> QED
        BY <2>1, <2>2, <2>3, <2>4 DEF IInv
<1>3. CASE ResetClear(t)
    <2> USE <1>3 DEF ResetClear, Continue, Closed
    <2>1. undefined' \in BOOLEAN
        <3>1. Iterating \in BOOLEAN /\ Beside(t) \in BOOLEAN
            BY DEF Beside, Iterating
        <3>2. \A b \in BOOLEAN, d \in BOOLEAN : {b, b \/ d, FALSE, d} \subseteq BOOLEAN
            OBVIOUS
        <3>3. \/ undefined' \in {Iterating, Iterating \/ Beside(t)}
              \/ undefined' \in {FALSE, Beside(t)}
            BY Zenon DEF ResetClear
        <3> HIDE DEF ResetClear
        <3> QED
            BY <3>1, <3>2, <3>3, Zenon
    <2>2. TypeOK'
        <3>1. CASE op[t] = "resetChannels"
            BY <2>1, <3>1 DEF IInv, TypeOK, Resetting
        <3>2. CASE op[t] = "resetConnections"
            BY <2>1, <3>2 DEF IInv, TypeOK, Resetting
        <3> QED
            BY <3>1, <3>2
    <2>3. MapsInv'
        <3>1. CASE op[t] = "resetChannels"
            BY <3>1 DEF IInv, TypeOK, MapsInv, Settled
        <3>2. CASE op[t] = "resetConnections"
            BY <3>2 DEF IInv, TypeOK, MapsInv, Settled
        <3> QED
            BY <3>1, <3>2
    <2>4. LockInv' /\ OwedInv'
        BY DEF IInv, TypeOK, LockInv, OwedInv, Iterating
    <2>5. ChannelsInv'
        BY DEF IInv, TypeOK, ChannelsInv
    <2>6. IterationInv'
        <3>1. CASE op[t] = "resetChannels"
            <4>1. Iterating => undefined'
                BY <3>1
            <4>2. Iterating' <=> Iterating
                BY DEF Iterating
            <4> QED
                BY <4>1, <4>2 DEF IterationInv
        <3>2. CASE op[t] = "resetConnections"
            <4>1. UNCHANGED <<channels, sendVars, owed>> /\ ~undefined
                BY <3>2 DEF Running
            <4> QED
                BY <4>1 DEF IInv, IterationInv, Iterating
        <3> QED
            BY <3>1, <3>2
    <2> QED
        BY <2>2, <2>3, <2>4, <2>5, <2>6 DEF IInv
<1> QED
    BY <1>1, <1>2, <1>3

-----------------------------------------------------------------------------
(* The upload thread and the channels themselves. *)

\* One step of sendAudio.
LEMMA Sending ==
    ASSUME IInv, UploadThread
    PROVE  IInv'
<1> USE DEF maps, operation, sendVars
<1>1. CASE SendLock
    <2> USE <1>1 DEF SendLock
    <2>1. TypeOK' /\ MapsInv'
        BY DEF IInv, TypeOK, MapsInv, Resetting
    <2>2. LockInv' /\ ChannelsInv' /\ OwedInv'
        BY DEF IInv, LockInv, ChannelsInv, OwedInv, Iterating
    <2>3. IterationInv'
        BY DEF IterationInv, Iterating
    <2> QED
        BY <2>1, <2>2, <2>3 DEF IInv
<1>2. ASSUME NEW c \in Clients, Visit(c) PROVE IInv'
    <2> USE <1>2 DEF Visit
    <2>1. TypeOK' /\ MapsInv'
        BY DEF IInv, TypeOK, MapsInv, Resetting
    <2>2. LockInv' /\ ChannelsInv' /\ OwedInv'
        BY DEF IInv, LockInv, ChannelsInv, OwedInv, Iterating
    <2>3. IterationInv'
        BY DEF IInv, OwedInv, IterationInv, Iterating
    <2> QED
        BY <2>1, <2>2, <2>3 DEF IInv
<1>3. CASE Send
    <2> USE <1>3 DEF Send
    <2>1. ~undefined /\ Iterating /\ sending \in channels
        BY DEF IInv, IterationInv, Iterating, Running
    <2>2. TypeOK'
        <3>1. sending \in Clients
            BY <2>1 DEF IInv, TypeOK
        <3>2. terminated' \in BOOLEAN
            BY DEF IInv, TypeOK
        <3> QED
            BY <3>1, <3>2 DEF IInv, TypeOK, Resetting
    <2>3. MapsInv'
        BY DEF IInv, MapsInv
    <2>4. LockInv' /\ ChannelsInv' /\ OwedInv'
        BY DEF IInv, LockInv, ChannelsInv, OwedInv, Iterating
    <2>5. IterationInv'
        BY DEF IInv, OwedInv, IterationInv, Iterating
    <2> QED
        BY <2>2, <2>3, <2>4, <2>5 DEF IInv
<1>4. CASE SendUnlock
    <2> USE <1>4 DEF SendUnlock
    <2>1. TypeOK' /\ MapsInv'
        BY DEF IInv, TypeOK, MapsInv, Resetting
    <2>2. LockInv' /\ ChannelsInv' /\ OwedInv'
        BY DEF IInv, LockInv, ChannelsInv, OwedInv, Iterating
    <2>3. IterationInv'
        BY DEF IterationInv, Iterating
    <2> QED
        BY <2>1, <2>2, <2>3 DEF IInv
<1> QED
    BY <1>1, <1>2, <1>3, <1>4 DEF UploadThread

\* A channel opens or closes by itself.
LEMMA Changes ==
    ASSUME IInv, NEW c \in Clients, ChannelChanges(c)
    PROVE  IInv'
<1> USE DEF ChannelChanges, maps, operation, sendVars
<1>1. TypeOK' /\ MapsInv'
    BY DEF IInv, TypeOK, MapsInv, Resetting
<1>2. LockInv' /\ OwedInv'
    BY DEF IInv, TypeOK, LockInv, OwedInv, Iterating
<1>3. ChannelsInv'
    BY DEF IInv, TypeOK, ChannelsInv
<1>4. IterationInv'
    BY DEF IInv, IterationInv, Iterating
<1> QED
    BY <1>1, <1>2, <1>3, <1>4 DEF IInv

\* No step of the two threads or of a channel breaks the invariant.
LEMMA StepIInv == IInv /\ [Next]_vars => IInv'
<1>1. IInv /\ UNCHANGED vars => IInv'
    BY DEF IInv, TypeOK, MapsInv, LockInv, ChannelsInv, OwedInv, IterationInv,
           Iterating, Resetting, vars, maps, operation, sendVars
<1> QED
    BY <1>1, Create, FinishCreate, Close, Reset, Sending, Changes
       DEF Next, Operations, Finish

\* The invariant is inductive.
THEOREM Inductive == Spec => []IInv
BY InitIInv, StepIInv, PTL DEF Spec

\* Types, for any clients.
THEOREM TypeCorrect == Spec => []TypeOK
<1>1. IInv => TypeOK
    BY DEF IInv
<1> QED
    BY <1>1, Inductive, PTL

\* The maps have the same keys whenever no operation is under way, unless a
\* reset has crossed another operation since the last that ran alone.
THEOREM Agreement == Spec => []MapsAgree
<1>1. IInv => MapsAgree
    BY DEF IInv, MapsInv, MapsAgree, Settled
<1> QED
    BY <1>1, Inductive, PTL

\* A message reaches every channel open throughout, with any number of clients.
THEOREM Served == Spec => []EveryOpenChannelServed
<1>1. IInv => EveryOpenChannelServed
    BY DEF IInv, IterationInv, Iterating, EveryOpenChannelServed
<1> QED
    BY <1>1, Inductive, PTL

\* The channel in hand stays in the map until it has been sent on.
THEOREM Held == Spec => []SendsOnHeldChannel
<1>1. IInv => SendsOnHeldChannel
    BY DEF IInv, IterationInv, Iterating, SendsOnHeldChannel
<1> QED
    BY <1>1, Inductive, PTL

-----------------------------------------------------------------------------
(* What sendAudio has left to do. *)

\* The channels the loop may still come to: those it holds, and those that are
\* not in the map and may be put there under it.
Ahead == toVisit \cup (Clients \ channels)

\* Joining under the iteration adds nothing to what is ahead, and the others
\* cannot erase: every pass of the loop takes a channel of it for good.
LoopShrinks ==
    (Iterating /\ ~undefined /\ ~undefined') =>
        /\ Ahead' \subseteq Ahead
        /\ \A c \in Clients : Visit(c) => c \in Ahead /\ c \notin Ahead'

\* A pass of the loop takes a channel, and no other step adds one.
LEMMA LoopStep == IInv /\ [Next]_vars => LoopShrinks
<1> SUFFICES ASSUME IInv, [Next]_vars, Iterating, ~undefined, ~undefined'
             PROVE  /\ Ahead' \subseteq Ahead
                    /\ \A c \in Clients : Visit(c) => c \in Ahead /\ c \notin Ahead'
    BY DEF LoopShrinks
<1>1. toVisit \subseteq channels /\ channels \subseteq Clients
    BY DEF IInv, IterationInv, TypeOK
<1>2. ASSUME NEW c \in Clients, Visit(c)
      PROVE  Ahead' \subseteq Ahead /\ c \in Ahead /\ c \notin Ahead'
    BY <1>1, <1>2 DEF Visit, Ahead, maps
<1>3. ASSUME NEW c \in Clients, CreateChannel(c) PROVE Ahead' \subseteq Ahead
    BY <1>1, <1>3 DEF CreateChannel, Ahead
<1>4. ASSUME CloseErase \/ \E t \in Threads : ResetClear(t)
      PROVE  Ahead' \subseteq Ahead
    <2>1. ~CloseErase
        BY DEF CloseErase, Continue, IInv, LockInv
    <2>2. PICK t \in Threads : ResetClear(t)
        BY <1>4, <2>1
    <2>3. UNCHANGED <<channels, sendVars>>
        BY <2>2 DEF ResetClear
    <2> QED
        BY <2>3 DEF Ahead, sendVars
<1>5. ASSUME \/ CreateConnection \/ CloseUnlock
             \/ \E t \in Threads : ResetBegin(t) \/ ResetClose(t)
             \/ \E c \in Clients : CloseLock(c) \/ ChannelChanges(c)
             \/ Send \/ SendUnlock \/ UNCHANGED vars
      PROVE  Ahead' \subseteq Ahead
    BY <1>5 DEF CreateConnection, CloseUnlock, ResetBegin, ResetClose, CloseLock,
                ChannelChanges, Send, SendUnlock, Ahead, maps, sendVars, vars
<1>6. ~SendLock
    BY DEF SendLock, Iterating
<1> QED
    BY <1>2, <1>3, <1>4, <1>5, <1>6
       DEF Next, Operations, UploadThread, Finish

\* sendAudio() passes each client at most once, however many join while it runs:
\* the safety half of SendAudioReturns.
THEOREM LoopBounded == Spec => [][LoopShrinks]_vars
BY Inductive, LoopStep, PTL DEF Spec

-----------------------------------------------------------------------------
(* The maps of PeerMaps. *)

\* A step after which operations have crossed may do anything to the maps.
LEMMA CrossStep ==
    ASSUME IInv', crossed'
    PROVE  Maps!Cross
<1>1. ~Emptying' /\ channels' \subseteq Clients /\ connections' \subseteq Clients
    BY DEF Emptying, IInv, TypeOK
<1>2. op["websocket"]' = "created" => who' \in Clients
    BY DEF IInv, MapsInv
<1> QED
    BY <1>1, <1>2 DEF Maps!Cross

\* Nobody is emptying the maps while a thread does something else, uncrossed.
LEMMA NotEmptying ==
    ASSUME IInv, NEW t \in Threads, op[t] /= "idle", ~Resetting(t)
    PROVE  ~Emptying
BY DEF IInv, MapsInv, Emptying, Resetting

\* Every step is one of PeerMaps, or leaves its maps alone.
LEMMA MapsStep == IInv /\ IInv' /\ [Next]_vars => [Maps!Next]_Maps!vars
<1> SUFFICES ASSUME IInv, IInv', [Next]_vars, ~crossed'
             PROVE  Maps!Next \/ UNCHANGED Maps!vars
    BY CrossStep DEF Maps!Next
<1> USE TwoThreads DEF Maps!vars
<1>0. crossed \in BOOLEAN /\ op \in [Threads -> {"idle", "created", "closeChannel",
         "closeConnection", "closeUnlock", "resetClose", "resetChannels",
         "resetConnections"}]
      /\ crossed' \in BOOLEAN
    BY DEF IInv, TypeOK
<1>1. ASSUME NEW c \in Clients, CreateChannel(c) PROVE Maps!Next
    <2> USE <1>1 DEF CreateChannel, Begin
    <2>1. ~crossed /\ op["sender"] = "idle" /\ op["websocket"] = "idle"
        OBVIOUS
    <2>2. op'["websocket"] = "created" /\ op'["sender"] = "idle"
        BY <1>0, <2>1
    <2>3. ~Emptying /\ ~Emptying'
        BY <2>1, <2>2 DEF Emptying, Resetting
    <2>4. Maps!EnterChannels(c)
        BY <2>1, <2>2, <2>3 DEF Maps!EnterChannels
    <2> QED
        BY <2>1, <2>4 DEF Maps!Next, Maps!Operation
<1>2. CASE CreateConnection
    <2> USE <1>2 DEF CreateConnection, Continue
    <2>1. ~crossed /\ op["sender"] = "idle" /\ op["websocket"] = "created"
        BY DEF IInv, MapsInv
    <2>2. op'["websocket"] = "idle" /\ op'["sender"] = "idle"
        BY <1>0, <2>1
    <2>3. ~Emptying /\ ~Emptying'
        BY <2>1, <2>2 DEF Emptying, Resetting
    <2>4. Maps!EnterConnections
        BY <2>1, <2>2, <2>3 DEF Maps!EnterConnections
    <2> QED
        BY <2>1, <2>4 DEF Maps!Next, Maps!Operation
<1>3. CASE CloseErase
    <2> USE <1>3 DEF CloseErase, Continue
    <2>1. ~crossed /\ op["sender"] = "idle" /\ who \in Clients
        BY DEF IInv, MapsInv
    <2>2. op'["sender"] = "idle" /\ ~Emptying /\ ~Emptying'
        BY <1>0, <2>1 DEF Emptying, Resetting
    <2>3. CASE op["websocket"] = "closeChannel"
        <3>1. op'["websocket"] = "closeConnection" /\ channels = connections
            BY <1>0, <2>1, <2>3 DEF IInv, MapsInv, Settled
        <3> QED
            BY <2>1, <2>2, <2>3, <3>1
    <2>4. CASE op["websocket"] = "closeConnection"
        <3>1. op'["websocket"] = "closeUnlock" /\ channels = connections \ {who}
            BY <1>0, <2>1, <2>4 DEF IInv, MapsInv
        <3>2. Maps!Leave(who)
            BY <2>1, <2>2, <2>4, <3>1 DEF Maps!Leave
        <3> QED
            BY <2>1, <3>2 DEF Maps!Next, Maps!Operation
    <2> QED
        BY <2>3, <2>4
<1>4. ASSUME NEW t \in Threads, ResetBegin(t) PROVE Maps!Next
    <2> USE <1>4 DEF ResetBegin, Begin
    <2>1. \A u \in Threads : op[u] = "idle"
        BY DEF Beside
    <2>2. op'[t] = "resetClose" /\ op'["websocket"] /= "created"
        BY <1>0, <2>1
    <2>3. Emptying'
        BY <2>2 DEF Emptying, Resetting
    <2>4. Maps!Reset
        BY <2>1, <2>2, <2>3 DEF Maps!Reset
    <2> QED
        BY <2>4 DEF Maps!Next
<1>5. ASSUME NEW t \in Threads, ResetClose(t) \/ ResetClear(t)
      PROVE  UNCHANGED Maps!vars
    <2>1. ~crossed /\ Resetting(t) /\ \A u \in Threads : u = t \/ op[u] = "idle"
        BY <1>5 DEF ResetClose, ResetClear, Continue, Resetting, IInv, MapsInv
    <2>2. Emptying /\ op["websocket"] /= "created" /\ op'["websocket"] /= "created"
        BY <1>0, <1>5, <2>1 DEF Emptying, ResetClose, ResetClear, Continue, Resetting
    <2>3. CASE op[t] = "resetConnections"
        <3>1. channels = {} /\ channels' = {} /\ connections' = {}
            BY <1>5, <2>1, <2>3 DEF ResetClose, ResetClear, Continue, IInv, MapsInv
        <3>2. op'["websocket"] = "idle"
            BY <1>0, <1>5, <2>1, <2>3 DEF ResetClose, ResetClear, Continue
        <3> QED
            BY <1>5, <2>1, <2>2, <3>1, <3>2 DEF ResetClose, ResetClear
    <2>4. CASE op[t] /= "resetConnections"
        <3>1. Resetting(t)'
            BY <1>0, <1>5, <2>4 DEF ResetClose, ResetClear, Continue, Resetting
        <3>2. Emptying'
            BY <3>1 DEF Emptying
        <3> QED
            BY <1>5, <2>2, <3>2 DEF ResetClose, ResetClear
    <2> QED
        BY <2>3, <2>4
<1>6. ASSUME CloseUnlock \/ \E c \in Clients : CloseLock(c)
      PROVE  UNCHANGED Maps!vars
    <2>1. ~crossed /\ op["sender"] = "idle" /\ op["websocket"] \in {"idle", "closeUnlock"}
        BY <1>6 DEF CloseUnlock, CloseLock, Begin, Continue, IInv, MapsInv
    <2>2. op'["sender"] = "idle" /\ op'["websocket"] \in {"idle", "closeChannel"}
        BY <1>0, <1>6, <2>1 DEF CloseUnlock, CloseLock, Begin, Continue
    <2>3. ~Emptying /\ ~Emptying'
        BY <2>1, <2>2 DEF Emptying, Resetting
    <2>4. UNCHANGED maps /\ crossed' = crossed
        BY <1>0, <1>6, <2>1, Zenon DEF CloseUnlock, CloseLock
    <2> QED
        BY <2>1, <2>2, <2>3, <2>4 DEF maps
<1>7. CASE UploadThread \/ (\E c \in Clients : ChannelChanges(c)) \/ UNCHANGED vars
    <2>1. UNCHANGED <<maps, operation>>
        BY <1>7 DEF UploadThread, SendLock, Visit, Send, SendUnlock, ChannelChanges, vars
    <2> QED
        BY <2>1 DEF maps, operation, Emptying, Resetting
<1> QED
    BY <1>1, <1>2, <1>3, <1>4, <1>5, <1>6, <1>7 DEF Next, Operations, Finish

\* The manager implements the maps a session relies on: its locks, its loops and
\* the upload thread's iteration do not show.
THEOREM RefinesMaps == Spec => ImplementsMaps
<1>1. Init => Maps!Init
    BY DEF Init, Maps!Init, Threads, Emptying, Resetting
<1> QED
    BY <1>1, Inductive, MapsStep, PTL DEF Spec, ImplementsMaps, Maps!Spec
==============================================================================
