------------------------------ MODULE WebSocket ------------------------------
(***************************************************************************)
(* The websocket of SignalService: the run loop of ix::WebSocket, which    *)
(* connects, polls and dispatches, and the threads that call into it       *)
(* meanwhile: any that sends a text, the heartbeat's timers, which close   *)
(* the link, and the one that stops the loop and joins it.  The ready      *)
(* state is atomic, but it is tested in one step and stored in another.    *)
(*                                                                         *)
(* A frame is its kind.  What a send leaves in _txbuf is not kept, and the *)
(* server's frames are whole and well formed.                              *)
(***************************************************************************)
EXTENDS Integers, Sequences

CONSTANTS
    Senders,   \* threads that send texts
    Timers,    \* threads that call close()
    Batches    \* bound: the complete frames one poll may read

Loop    == "loop"
Control == "control"
Threads == {Loop, Control} \cup Senders \cup Timers

Nobody == "nobody"

ASSUME ThreadsAssumption ==
    /\ {Loop, Control, Nobody} \cap (Senders \cup Timers) = {}
    /\ Senders \cap Timers = {}
    /\ Batches \subseteq Seq({"message", "ping", "close"})

VARIABLES
    readyState, \* _readyState
    socket,     \* _socket: "none" for a closed one, "up", or "broken" by the peer
    pc,         \* the loop: where it is in run()
    act,        \* what each thread does inside send, close or setReadyState
    writeLock,  \* who keeps _writeMutex
    txLock,     \* who keeps _txbufMutex
    rxbuf,      \* complete frames of _rxbuf
    abnormal,   \* pollResult is not Succeeded
    stop,       \* _stop
    stopping,   \* Control: where it is in stop()
    pollFailed  \* history: polling a socket that was not closed gave an error

locks       == <<writeLock, txLock>>
loopVars    == <<pc, rxbuf, abnormal>>
controlVars == <<stop, stopping>>
vars == <<readyState, socket, act, locks, loopVars, controlVars, pollFailed>>

Init ==
    /\ readyState = "closed" /\ socket = "none"
    /\ pc = "check"
    /\ act = [t \in Threads |-> "none"]
    /\ writeLock = Nobody /\ txLock = Nobody
    /\ rxbuf = <<>> /\ abnormal = FALSE
    /\ stop = FALSE /\ stopping = "no" /\ pollFailed = FALSE

-----------------------------------------------------------------------------
(* What every thread may be doing inside the transport: "write" waits for    *)
(* _writeMutex, "send" for _txbufMutex, "locked" and "failed" for            *)
(* _socketMutex to write and to close, "closing" and "handler" are           *)
(* setReadyState(CLOSED) before and in the Close callback, "asking" and      *)
(* "waking" the two ends of close().                                         *)

Does(t, what) == act' = [act EXCEPT ![t] = what]

\* connectToUrl holds _socketMutex while it connects.
SocketFree == pc /= "handshake"

\* A send is over; what it kept is free, and close() goes on.
Returns(t) ==
    /\ Does(t, IF t \in Senders \cup {Loop} THEN "none" ELSE "waking")
    /\ writeLock' = IF writeLock = t THEN Nobody ELSE writeLock
    /\ txLock' = IF txLock = t THEN Nobody ELSE txLock

\* sendMessage: isConnected(), before the lock.
Send(t) ==
    /\ t \in Senders /\ act[t] = "none" /\ readyState = "open"
    /\ Does(t, "write")
    /\ UNCHANGED <<readyState, socket, locks, loopVars, controlVars, pollFailed>>

\* sendMessage keeps _writeMutex until its send is over, Close callback included.
TakeWrite(t) ==
    /\ act[t] = "write" /\ writeLock = Nobody
    /\ Does(t, "send") /\ writeLock' = t
    /\ UNCHANGED <<readyState, socket, txLock, loopVars, controlVars, pollFailed>>

\* sendData finds the link closed.
SkipSend(t) ==
    /\ act[t] = "send" /\ readyState = "closed"
    /\ Returns(t)
    /\ UNCHANGED <<readyState, socket, loopVars, controlVars, pollFailed>>

\* sendOnSocket, when sendData has found the link open or closing.
TakeTxbuf(t) ==
    /\ act[t] = "send" /\ txLock = Nobody
    /\ Does(t, "locked") /\ txLock' = t
    /\ UNCHANGED <<readyState, socket, writeLock, loopVars, controlVars, pollFailed>>

\* The write, under _socketMutex as well: it succeeds or fails.
WriteOut(t) ==
    /\ act[t] = "locked" /\ SocketFree
    /\ \/ socket /= "none" /\ Returns(t)
       \/ socket /= "up" /\ Does(t, "failed") /\ UNCHANGED locks
    /\ UNCHANGED <<readyState, socket, loopVars, controlVars, pollFailed>>

\* closeSocket after the failed write.
DropSocket(t) ==
    /\ act[t] = "failed" /\ SocketFree
    /\ socket' = "none"
    /\ Does(t, "closing")
    /\ UNCHANGED <<readyState, locks, loopVars, controlVars, pollFailed>>

\* Mutant of BeginClosed: the state is not compared first.
BeginClosedAlways(t) ==
    /\ act[t] = "closing"
    /\ Does(t, "handler")
    /\ UNCHANGED <<readyState, socket, locks, loopVars, controlVars, pollFailed>>

\* setReadyState(CLOSED): no state change, return; otherwise the Close callback.
BeginClosed(t) ==
    /\ act[t] = "closing"
    /\ IF readyState = "closed" THEN Returns(t)
       ELSE Does(t, "handler") /\ UNCHANGED locks
    /\ UNCHANGED <<readyState, socket, loopVars, controlVars, pollFailed>>

\* Mutant of EndClosed: _txbufMutex is never released.
EndClosedLocked(t) ==
    /\ act[t] = "handler"
    /\ readyState' = "closed"
    /\ Does(t, "none")
    /\ UNCHANGED <<socket, locks, loopVars, controlVars, pollFailed>>

\* Only after the callback is the state stored.
EndClosed(t) ==
    /\ act[t] = "handler"
    /\ readyState' = "closed"
    /\ Returns(t)
    /\ UNCHANGED <<socket, loopVars, controlVars, pollFailed>>

\* close(): nothing to do for a link closing or closed.
CallClose(t) ==
    /\ act[t] = "none"
    /\ IF readyState = "open" THEN Does(t, "asking") ELSE UNCHANGED act
    /\ UNCHANGED <<readyState, socket, locks, loopVars, pollFailed>>

\* setReadyState(CLOSING), whatever the state is by now; then sendCloseFrame.
StoreClosing(t) ==
    /\ act[t] = "asking"
    /\ readyState' = "closing"
    /\ Does(t, "send")
    /\ UNCHANGED <<socket, locks, loopVars, controlVars, pollFailed>>

\* wakeUpFromPoll, under _socketMutex.
WakeUp(t) ==
    /\ act[t] = "waking" /\ SocketFree
    /\ Does(t, "none")
    /\ UNCHANGED <<readyState, socket, locks, loopVars, controlVars, pollFailed>>

InTransport(t) ==
    \/ TakeWrite(t) \/ SkipSend(t) \/ TakeTxbuf(t) \/ WriteOut(t) \/ DropSocket(t)
    \/ BeginClosed(t) \/ EndClosed(t) \/ StoreClosing(t) \/ WakeUp(t)

-----------------------------------------------------------------------------
(* The loop: checkConnection. *)

At(place) == pc = place /\ act[Loop] = "none"

Check ==
    /\ At("check")
    /\ pc' = IF readyState /= "closed" \/ stop THEN "test" ELSE "connect"
    /\ UNCHANGED <<readyState, socket, act, locks, rxbuf, abnormal, controlVars, pollFailed>>

\* After the wait between two attempts, a new socket replaces the old one.
Connect ==
    /\ At("connect")
    /\ IF stop THEN pc' = "test" /\ UNCHANGED socket
       ELSE pc' = "handshake" /\ socket' = "none"
    /\ UNCHANGED <<readyState, act, locks, rxbuf, abnormal, controlVars, pollFailed>>

\* The handshake succeeds, or an Error is reported and checkConnection retries.
Handshake ==
    /\ At("handshake")
    /\ \/ pc' = "opened" /\ readyState' = "open" /\ socket' = "up"
       \/ pc' = "check" /\ UNCHANGED <<readyState, socket>>
    /\ UNCHANGED <<act, locks, rxbuf, abnormal, controlVars, pollFailed>>

\* The Open callback, in which SignalService asks for a room.
ReportOpen ==
    /\ At("opened")
    /\ IF readyState = "open" THEN Does(Loop, "write") ELSE UNCHANGED act
    /\ pc' = "check"
    /\ UNCHANGED <<readyState, socket, locks, rxbuf, abnormal, controlVars, pollFailed>>

-----------------------------------------------------------------------------
(* The loop: run. *)

\* Mutant of Test: it polls on, stopped or not.
TestClosedOnly ==
    /\ At("test")
    /\ pc' = IF readyState = "closed" THEN "check" ELSE "poll"
    /\ UNCHANGED <<readyState, socket, act, locks, rxbuf, abnormal, controlVars, pollFailed>>

\* A closed link ends the loop, and so does a stop that finds it not closing.
Test ==
    /\ At("test")
    /\ pc' = IF readyState = "closed" \/ (stop /\ readyState /= "closing")
             THEN "ended" ELSE "poll"
    /\ UNCHANGED <<readyState, socket, act, locks, rxbuf, abnormal, controlVars, pollFailed>>

Polled(result) == pc' = "dispatch" /\ abnormal' = result

\* Nothing within the timeout, or some frames.
PollRead ==
    /\ At("poll") /\ socket = "up"
    /\ Polled(FALSE)
    /\ \E frames \in Batches : rxbuf' = rxbuf \o frames
    /\ UNCHANGED <<readyState, socket, act, locks, controlVars, pollFailed>>

\* Frames may come before the end of the stream.
PollEnd ==
    /\ At("poll") /\ socket = "broken"
    /\ Polled(TRUE)
    /\ \E frames \in Batches : rxbuf' = rxbuf \o frames
    /\ socket' = "none"
    /\ UNCHANGED <<readyState, act, locks, controlVars, pollFailed>>

\* An error closes the socket and counts as success.
PollError ==
    /\ At("poll")
    /\ Polled(FALSE)
    /\ socket' = "none"
    /\ pollFailed' = (pollFailed \/ socket /= "none")
    /\ UNCHANGED <<readyState, act, locks, rxbuf, controlVars>>

\* closingDelayExceeded: 300 ms after CLOSING was stored.
PollExpired ==
    /\ At("poll") /\ readyState = "closing"
    /\ Polled(FALSE)
    /\ rxbuf' = <<>> /\ socket' = "none"
    /\ Does(Loop, "closing")
    /\ UNCHANGED <<readyState, locks, controlVars, pollFailed>>

-----------------------------------------------------------------------------
(* The loop: dispatch, one frame after the other. *)

Replace(frames) == rxbuf' = frames \o Tail(rxbuf)

\* A message is reported whatever the state is: one that was read together
\* with a frame that ended the link follows its Close.
DispatchMessage ==
    /\ At("dispatch") /\ rxbuf /= <<>> /\ Head(rxbuf) \in {"message", "ponged"}
    /\ Replace(<<>>)
    /\ UNCHANGED <<readyState, socket, pc, act, locks, abnormal, controlVars, pollFailed>>

\* The PONG goes out before the Ping is reported.
DispatchPing ==
    /\ At("dispatch") /\ rxbuf /= <<>> /\ Head(rxbuf) = "ping"
    /\ Replace(<<"ponged">>)
    /\ IF readyState /= "closed" THEN Does(Loop, "send") ELSE UNCHANGED act
    /\ UNCHANGED <<readyState, socket, pc, locks, abnormal, controlVars, pollFailed>>

\* The peer's close frame is answered and ends the link; the answer to ours
\* ends it when it carries our reason.
DispatchClose ==
    /\ At("dispatch") /\ rxbuf /= <<>> /\ Head(rxbuf) = "close"
    /\ \/ /\ readyState /= "closing"
          /\ Replace(<<"answered">>)
          /\ IF readyState = "open" THEN Does(Loop, "send") ELSE UNCHANGED act
       \/ /\ readyState = "closing"
          /\ Replace(<<"answered">>) \/ Replace(<<>>)
          /\ UNCHANGED act
    /\ UNCHANGED <<readyState, socket, pc, locks, abnormal, controlVars, pollFailed>>

\* closeSocketAndSwitchToClosedState
DispatchAnswered ==
    /\ At("dispatch") /\ rxbuf /= <<>> /\ Head(rxbuf) = "answered"
    /\ Replace(<<>>)
    /\ socket' = "none"
    /\ Does(Loop, "closing")
    /\ UNCHANGED <<readyState, pc, locks, abnormal, controlVars, pollFailed>>

\* Mutant of DispatchEnd: an abnormal end of the stream is not followed up.
DispatchEndQuiet ==
    /\ At("dispatch") /\ rxbuf = <<>>
    /\ pc' = "check"
    /\ UNCHANGED <<readyState, socket, act, locks, rxbuf, abnormal, controlVars, pollFailed>>

DispatchEnd ==
    /\ At("dispatch") /\ rxbuf = <<>>
    /\ pc' = "check"
    /\ IF abnormal /\ readyState /= "closed"
       THEN socket' = "none" /\ Does(Loop, "closing")
       ELSE UNCHANGED <<socket, act>>
    /\ UNCHANGED <<readyState, locks, rxbuf, abnormal, controlVars, pollFailed>>

RunLoop ==
    \/ Check \/ Connect \/ Handshake \/ ReportOpen \/ Test
    \/ PollRead \/ PollEnd \/ PollError \/ PollExpired
    \/ DispatchMessage \/ DispatchPing \/ DispatchClose \/ DispatchAnswered
    \/ DispatchEnd

-----------------------------------------------------------------------------
(* The other threads and the peer. *)

TimerCloses(t) == t \in Timers /\ CallClose(t) /\ UNCHANGED controlVars

\* stop(): close(), then the flag; then it waits for the loop's thread.
StopCloses ==
    /\ stopping = "no" /\ CallClose(Control)
    /\ stopping' = "close" /\ UNCHANGED stop

StopFlags ==
    /\ stopping = "close" /\ act[Control] = "none"
    /\ stop' = TRUE /\ stopping' = "join"
    /\ UNCHANGED <<readyState, socket, act, locks, loopVars, pollFailed>>

PeerBreaks ==
    /\ socket = "up"
    /\ socket' = "broken"
    /\ UNCHANGED <<readyState, act, locks, loopVars, controlVars, pollFailed>>

Next ==
    \/ RunLoop
    \/ \E t \in Threads : InTransport(t) \/ Send(t) \/ TimerCloses(t)
    \/ StopCloses \/ StopFlags
    \/ PeerBreaks

Spec == Init /\ [][Next]_vars

\* Threads run; the loop gets a mutex that is free again and again, since those
\* who send do so once per block or message; 300 ms pass.
FairSpec ==
    /\ Spec
    /\ WF_vars(RunLoop) /\ WF_vars(StopFlags)
    /\ \A t \in Threads \ {Loop} : WF_vars(InTransport(t))
    /\ SF_vars(InTransport(Loop)) /\ SF_vars(PollExpired)

-----------------------------------------------------------------------------
(* Properties. *)

Acts == {"none", "write", "send", "locked", "failed", "closing", "handler",
         "asking", "waking"}

\* Types of the transport's state, and where a thread is that keeps a mutex.
TypeOK ==
    /\ readyState \in {"closed", "open", "closing"}
    /\ socket \in {"none", "up", "broken"}
    /\ pc \in {"check", "connect", "handshake", "opened", "test", "poll", "dispatch", "ended"}
    /\ act \in [Threads -> Acts]
    /\ writeLock \in Threads \cup {Nobody} /\ txLock \in Threads \cup {Nobody}
    /\ rxbuf \in Seq({"message", "ping", "ponged", "close", "answered"})
    /\ abnormal \in BOOLEAN /\ stop \in BOOLEAN
    /\ stopping \in {"no", "close", "join"}
    /\ pollFailed \in BOOLEAN
    /\ \A t \in Threads :
          /\ writeLock = t => act[t] \in {"send", "locked", "failed", "closing", "handler"}
          /\ txLock = t => act[t] \in {"locked", "failed", "closing", "handler"}
          /\ act[t] \in {"locked", "failed"} => txLock = t

Link == INSTANCE SignalLink
        WITH up    <- socket = "up",
             place <- IF act[Loop] = "handler" THEN "closing"
                      ELSE IF pc \in {"connect", "handshake"} THEN "connecting"
                      ELSE IF pc = "opened" THEN "opening" ELSE "run",
             left  <- \E i \in DOMAIN rxbuf : rxbuf[i] = "message",
             asked <- \E t \in Threads : act[t] = "asking",
             other <- IF \E t \in Threads \ {Loop} : act[t] = "handler" THEN "closing"
                      ELSE IF \E t \in Threads \ {Loop} : act[t] = "closing" THEN "failed"
                      ELSE "idle"

\* What SignalService sees of the link, whoever closes it: one Open for each link
\* that comes up, no Close of a link that is closed already, no two of them from
\* senders together, the loop's only when the connection has gone and never
\* inside another handler of the loop, and no new link before the loop has handled
\* all that it received.
ImplementsLink == Link!Spec

\* Thread t is held up until u goes on: u keeps the mutex t waits for (the loop
\* keeps _socketMutex in its handshake), or is the loop that stop() joins.
WaitsFor(t, u) ==
    \/ act[t] = "write" /\ writeLock = u
    \/ act[t] = "send" /\ txLock = u
    \/ act[t] \in {"locked", "failed", "waking"} /\ ~SocketFree /\ u = Loop
    \/ t = Control /\ stopping = "join" /\ pc /= "ended" /\ u = Loop

\* No deadlock among the loop, the senders, the timers and stop(), which wait for
\* three mutexes and one join: in any set of threads one waits for none of them.
NoWaitingCycle ==
    \A S \in SUBSET Threads :
        S /= {} => \E t \in S : \A u \in S : ~WaitsFor(t, u)

\* stop() returns, whatever the senders, the timers and the peer are doing: the
\* loop never waits for a thread that waits for it.
StopReturns == (stopping = "join") ~> (pc = "ended")

\* A lost link is always noticed: the loop tries to connect again, or ends (stopped
\* or, see TriesPerpetually, closed by another thread at the wrong moment), but it
\* never spins on a closed socket, unless an error of poll() closed it: then it
\* does, until somebody sends or closes.
RecoversFromLoss ==
    (readyState = "open" /\ socket /= "up")
        ~> (pc \in {"handshake", "ended"} \/ pollFailed)

\* What checkConnection says of itself: it tries to connect perpetually, so the
\* loop ends only when it is stopped.
TriesPerpetually == pc = "ended" => stop
=============================================================================
