------------------------------- MODULE PeerMaps -------------------------------
(***************************************************************************)
(* What a session relies on in PeerConnectionManager: a client enters the  *)
(* two maps one after the other and leaves both at once, and a reset that  *)
(* runs alone empties both.  Once a reset has run beside another operation *)
(* nothing is promised, until the next reset that runs alone.              *)
(***************************************************************************)

CONSTANT Clients

VARIABLES
    channels,    \* keys of _dataChannels
    connections, \* keys of _peerConnections
    entering,    \* the client that is in the first map and not yet in the second
    crossed      \* operations ran beside each other since the last lone reset

vars == <<channels, connections, entering, crossed>>

Init == channels = {} /\ connections = {} /\ entering = {} /\ crossed = FALSE

EnterChannels(c) ==
    /\ entering = {} /\ entering' = {c}
    /\ channels' = channels \cup {c}
    /\ UNCHANGED connections

EnterConnections ==
    /\ entering /= {} /\ entering' = {}
    /\ connections' = connections \cup entering
    /\ UNCHANGED channels

Leave(c) ==
    /\ channels' = channels \ {c} /\ connections' = connections \ {c}
    /\ entering = {} /\ UNCHANGED entering

Operation ==
    /\ ~crossed /\ ~crossed'
    /\ EnterConnections \/ \E c \in Clients : EnterChannels(c) \/ Leave(c)

Reset ==
    /\ crossed \/ entering = {}
    /\ channels' = {} /\ connections' = {} /\ entering' = {} /\ crossed' = FALSE

Cross ==
    /\ crossed'
    /\ channels' \subseteq Clients /\ connections' \subseteq Clients
    /\ entering' \subseteq Clients

Next == Operation \/ Reset \/ Cross

Spec == Init /\ [][Next]_vars
===============================================================================
