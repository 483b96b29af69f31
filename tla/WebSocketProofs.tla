--------------------------- MODULE WebSocketProofs ---------------------------
(***************************************************************************)
(* Theorems about WebSocket, for any sets of senders and timers and any    *)
(* number of frames: its types, that its threads never wait in a circle,   *)
(* and that it implements SignalLink.                                      *)
(***************************************************************************)
EXTENDS WebSocket, TLAPS

Frames == {"message", "ping", "ponged", "close", "answered"}

\* The loop and the stopping thread are two, and nobody is none of them.
LEMMA ThreadFacts ==
    /\ Loop \in Threads /\ Control \in Threads /\ Loop /= Control
    /\ Nobody \notin Threads
BY ThreadsAssumption DEF Threads, Loop, Control, Nobody

\* Where thread t is when it keeps a mutex.
Keeps(t) ==
    /\ writeLock = t => act[t] \in {"send", "locked", "failed", "closing", "handler"}
    /\ txLock = t => act[t] \in {"locked", "failed", "closing", "handler"}
    /\ act[t] \in {"locked", "failed"} => txLock = t

\* A poll reads a sequence of frames.
LEMMA BatchesAreFrames ==
    \A f \in Batches : f \in Seq(Frames)
BY ThreadsAssumption DEF Frames

\* A thread inside the transport goes on without the others.
LEMMA TransportKeeps ==
    ASSUME TypeOK, NEW t \in Threads, InTransport(t)
    PROVE  /\ act' \in [Threads -> Acts] /\ \A u \in Threads : Keeps(u)'
           /\ writeLock' \in Threads \cup {Nobody} /\ txLock' \in Threads \cup {Nobody}
<1> USE ThreadFacts DEF TypeOK
<1>0. act \in [Threads -> Acts] /\ \A u \in Threads : Keeps(u)
    BY DEF Keeps
<1>1. ASSUME Returns(t)
      PROVE  /\ act' \in [Threads -> Acts] /\ \A u \in Threads : Keeps(u)'
             /\ writeLock' \in Threads \cup {Nobody} /\ txLock' \in Threads \cup {Nobody}
    BY <1>0, <1>1 DEF Returns, Does, Keeps, Acts
<1>2. CASE TakeWrite(t)
    BY <1>0, <1>2 DEF TakeWrite, Does, Keeps, Acts
<1>3. CASE TakeTxbuf(t)
    BY <1>0, <1>3 DEF TakeTxbuf, Does, Keeps, Acts
<1>4. CASE WriteOut(t)
    BY <1>0, <1>1, <1>4 DEF WriteOut, Does, locks, Keeps, Acts
<1>5. CASE DropSocket(t) \/ StoreClosing(t) \/ WakeUp(t)
    BY <1>0, <1>5 DEF DropSocket, StoreClosing, WakeUp, Does, locks, Keeps, Acts
<1>6. CASE BeginClosed(t)
    BY <1>0, <1>1, <1>6 DEF BeginClosed, Does, locks, Keeps, Acts
<1>7. CASE SkipSend(t) \/ EndClosed(t)
    BY <1>1, <1>7 DEF SkipSend, EndClosed
<1> QED
    BY <1>2, <1>3, <1>4, <1>5, <1>6, <1>7 DEF InTransport

\* Types, and where the keepers of the two mutexes are, in every state.
THEOREM TypeCorrect == Spec => []TypeOK
<1>1. ASSUME Init
      PROVE  TypeOK
    <2>1. \A t \in Threads : act[t] = "none" /\ writeLock /= t /\ txLock /= t
        BY <1>1, ThreadFacts DEF Init
    <2>2. act \in [Threads -> Acts]
        BY <1>1 DEF Init, Acts
    <2>3. rxbuf \in Seq(Frames)
        BY <1>1 DEF Init
    <2> QED
        BY <1>1, <2>1, <2>2, <2>3 DEF Init, TypeOK, Frames
<1>2. ASSUME TypeOK, [Next]_vars
      PROVE  TypeOK'
    <2> USE <1>2, ThreadFacts DEF TypeOK
    <2>0. act \in [Threads -> Acts] /\ rxbuf \in Seq(Frames)
        BY DEF Frames
    <2>1. ASSUME NEW t \in Threads, InTransport(t)
          PROVE  TypeOK'
        <3>1. /\ act' \in [Threads -> Acts] /\ \A u \in Threads : Keeps(u)'
              /\ writeLock' \in Threads \cup {Nobody} /\ txLock' \in Threads \cup {Nobody}
            BY <2>1, TransportKeeps
        <3>2. UNCHANGED <<rxbuf, pc, abnormal, stop, stopping, pollFailed>>
              /\ readyState' \in {readyState, "closed", "closing"}
              /\ socket' \in {socket, "none"}
            BY <2>1 DEF InTransport, TakeWrite, SkipSend, TakeTxbuf, WriteOut, DropSocket,
                        BeginClosed, EndClosed, StoreClosing, WakeUp, loopVars, controlVars
        <3> QED
            BY <3>1, <3>2 DEF Keeps
    <2>2. ASSUME NEW t \in Threads, Send(t)
          PROVE  TypeOK'
        BY <2>0, <2>2 DEF Send, Does, Acts, locks, loopVars, controlVars
    <2>3. ASSUME NEW t \in Threads, CallClose(t)
          PROVE  act' \in [Threads -> Acts] /\ \A u \in Threads : Keeps(u)'
        BY <2>0, <2>3 DEF CallClose, Does, Acts, locks, Keeps
    <2>4. ASSUME NEW t \in Threads, TimerCloses(t)
          PROVE  TypeOK'
        BY <2>3, <2>4
           DEF TimerCloses, CallClose, Acts, Keeps, locks, loopVars, controlVars
    <2>5. CASE StopCloses
        BY <2>3, <2>5 DEF StopCloses, CallClose, Acts, Keeps, locks, loopVars
    <2>6. CASE StopFlags
        BY <2>6 DEF StopFlags, locks, loopVars
    <2>7. CASE PeerBreaks
        BY <2>7 DEF PeerBreaks, locks, loopVars, controlVars
    <2>8. CASE RunLoop
        <3>1. CASE Check
            BY <3>1 DEF Check, locks, controlVars
        <3>2. CASE Connect
            BY <3>2 DEF Connect, locks, controlVars
        <3>3. CASE Handshake
            BY <3>3 DEF Handshake, locks, controlVars
        <3>4. CASE ReportOpen
            BY <2>0, <3>4 DEF ReportOpen, At, Does, Acts, locks, controlVars
        <3>5. CASE Test
            BY <3>5 DEF Test, locks, controlVars
        <3>6. CASE PollRead
            <4>1. rxbuf' \in Seq(Frames)
                BY <3>6, BatchesAreFrames DEF PollRead, Frames
            <4> QED
                BY <3>6, <4>1 DEF PollRead, Polled, Frames, locks, controlVars
        <3>7. CASE PollEnd
            <4>1. rxbuf' \in Seq(Frames)
                BY <3>7, BatchesAreFrames DEF PollEnd, Frames
            <4> QED
                BY <3>7, <4>1 DEF PollEnd, Polled, Frames, locks, controlVars
        <3>8. CASE PollError
            <4>1. pollFailed' \in BOOLEAN
                BY <3>8 DEF PollError
            <4>2. UNCHANGED <<readyState, act, writeLock, txLock, rxbuf, stop, stopping>>
                BY <3>8 DEF PollError, locks, controlVars
            <4>3. pc' = "dispatch" /\ abnormal' = FALSE /\ socket' = "none"
                BY <3>8 DEF PollError, Polled
            <4> QED
                BY <4>1, <4>2, <4>3
        <3>9. CASE PollExpired
            <4>1. act' \in [Threads -> Acts]
                BY <2>0, <3>9 DEF PollExpired, Does, Acts
            <4>2. \A u \in Threads : Keeps(u)'
                BY <2>0, <3>9 DEF PollExpired, At, Does, Keeps, locks
            <4>3. rxbuf' \in Seq(Frames)
                BY <3>9 DEF PollExpired
            <4> QED
                BY <3>9, <4>1, <4>2, <4>3
                   DEF PollExpired, Polled, Acts, Frames, Keeps, locks, controlVars
        <3>10. ASSUME rxbuf /= <<>>, NEW f \in {<<>>, <<"ponged">>, <<"answered">>},
                      Replace(f)
               PROVE  rxbuf' \in Seq(Frames)
            <4>1. "ponged" \in Frames /\ "answered" \in Frames
                BY DEF Frames
            <4>2. <<>> \in Seq(Frames) /\ <<"ponged">> \in Seq(Frames)
                  /\ <<"answered">> \in Seq(Frames)
                BY <4>1
            <4>3. f \in Seq(Frames)
                BY <4>2
            <4>4. Tail(rxbuf) \in Seq(Frames)
                BY <2>0, <3>10
            <4> QED
                BY <3>10, <4>3, <4>4 DEF Replace
        <3>11. CASE DispatchMessage
            BY <3>10, <3>11 DEF DispatchMessage, Frames, locks, controlVars
        <3>12. CASE DispatchPing
            BY <2>0, <3>10, <3>12 DEF DispatchPing, At, Does, Acts, Frames, locks, controlVars
        <3>13. CASE DispatchClose
            BY <2>0, <3>10, <3>13 DEF DispatchClose, At, Does, Acts, Frames, locks, controlVars
        <3>14. CASE DispatchAnswered
            BY <2>0, <3>10, <3>14
               DEF DispatchAnswered, At, Does, Acts, Frames, locks, controlVars
        <3>15. CASE DispatchEnd
            BY <2>0, <3>15 DEF DispatchEnd, At, Does, Acts, locks, controlVars
        <3> QED
            BY <2>8, <3>1, <3>2, <3>3, <3>4, <3>5, <3>6, <3>7, <3>8, <3>9,
               <3>11, <3>12, <3>13, <3>14, <3>15 DEF RunLoop
    <2>9. CASE UNCHANGED vars
        BY <2>9 DEF vars, locks, loopVars, controlVars
    <2> QED
        BY <1>2, <2>1, <2>2, <2>4, <2>5, <2>6, <2>7, <2>8, <2>9 DEF Next
<1> QED
    BY <1>1, <1>2, PTL DEF Spec

-----------------------------------------------------------------------------
(* Where the loop, its socket and the threads that close it are. *)

\* While the loop is between two dispatches nothing it read is left and it is in
\* no send or close; the end it announces is that of a socket it has dropped.
LoopInv ==
    /\ pc /= "dispatch" => rxbuf = <<>>
    /\ pc \notin {"check", "dispatch", "ended"} => act[Loop] = "none"
    /\ act[Loop] = "closing" => socket /= "up"
    /\ pc = "handshake" => socket = "none"

\* Another thread announces an end only while it keeps _txbufMutex.
OthersInv ==
    \A t \in Threads \ {Loop} : act[t] \in {"closing", "handler"} => txLock = t

\* Once stop() joins, its thread is in no send or close.
JoinInv == stopping = "join" => act[Control] = "none"

ThreadsInv == LoopInv /\ OthersInv /\ JoinInv

\* The positions of the threads, the socket and _txbufMutex agree in every state.
THEOREM ThreadsInductive == Spec => []ThreadsInv
<1>1. Init => ThreadsInv
    BY ThreadFacts DEF Init, ThreadsInv, LoopInv, OthersInv, JoinInv
<1>2. ASSUME TypeOK, ThreadsInv, [Next]_vars
      PROVE  ThreadsInv'
    <2>1. act \in [Threads -> Acts] /\ \A u \in Threads : Keeps(u)
        BY <1>2 DEF TypeOK, Keeps
    <2> USE <1>2, <2>1, ThreadFacts DEF ThreadsInv, LoopInv, OthersInv, JoinInv
    <2>2. ASSUME NEW t \in Threads, InTransport(t)
          PROVE  ThreadsInv'
        <3>1. UNCHANGED <<pc, rxbuf, stopping>> /\ socket' \in {socket, "none"}
            BY <2>2 DEF InTransport, TakeWrite, SkipSend, TakeTxbuf, WriteOut, DropSocket,
                        BeginClosed, EndClosed, StoreClosing, WakeUp, loopVars, controlVars
        <3>2. \A u \in Threads \ {t} : act'[u] = act[u]
            BY <2>2 DEF InTransport, TakeWrite, SkipSend, TakeTxbuf, WriteOut, DropSocket,
                        BeginClosed, EndClosed, StoreClosing, WakeUp, Returns, Does
        <3>3. act[t] /= "none"
            BY <2>2 DEF InTransport, TakeWrite, SkipSend, TakeTxbuf, WriteOut, DropSocket,
                        BeginClosed, EndClosed, StoreClosing, WakeUp
        <3>4. act'[t] = "closing" => socket' = "none" /\ act[t] = "failed"
            BY <2>2 DEF InTransport, TakeWrite, SkipSend, TakeTxbuf, WriteOut, DropSocket,
                        BeginClosed, EndClosed, StoreClosing, WakeUp, Returns, Does
        <3>5. /\ act'[t] = "handler" => act[t] = "closing"
              /\ act'[t] \in {"closing", "handler"} => UNCHANGED txLock
            BY <2>2 DEF InTransport, TakeWrite, SkipSend, TakeTxbuf, WriteOut, DropSocket,
                        BeginClosed, EndClosed, StoreClosing, WakeUp, Returns, Does, locks
        <3>6. \A u \in Threads \ {t} : txLock = u => txLock' = u
            BY <2>2 DEF InTransport, TakeWrite, SkipSend, TakeTxbuf, WriteOut, DropSocket,
                        BeginClosed, EndClosed, StoreClosing, WakeUp, Returns, locks
        <3>7. LoopInv'
            BY <3>1, <3>2, <3>3, <3>4
        <3>8. OthersInv'
            BY <3>2, <3>4, <3>5, <3>6 DEF Keeps
        <3>9. JoinInv'
            BY <3>1, <3>2, <3>3
        <3> QED
            BY <3>7, <3>8, <3>9
    <2>3. ASSUME NEW t \in Threads, Send(t) \/ TimerCloses(t)
          PROVE  ThreadsInv'
        <3>1. t /= Loop /\ t /= Control
            BY <2>3, ThreadsAssumption DEF Send, TimerCloses, Loop, Control
        <3> QED
            BY <2>3, <3>1 DEF Send, TimerCloses, CallClose, Does, locks, loopVars, controlVars
    <2>4. CASE StopCloses \/ StopFlags \/ PeerBreaks \/ UNCHANGED vars
        BY <2>4 DEF StopCloses, CallClose, Does, StopFlags, PeerBreaks, locks, loopVars,
                    controlVars, vars
    <2>5. CASE RunLoop
        <3>1. CASE Check \/ Connect \/ Handshake \/ ReportOpen \/ Test
            BY <3>1 DEF Check, Connect, Handshake, ReportOpen, Test, At, Does, locks,
                        controlVars
        <3>2. CASE PollRead \/ PollEnd \/ PollError \/ PollExpired
            BY <3>2 DEF PollRead, PollEnd, PollError, PollExpired, At, Polled, Does, locks,
                        controlVars
        <3>3. CASE DispatchMessage \/ DispatchPing \/ DispatchClose \/ DispatchAnswered
                   \/ DispatchEnd
            BY <3>3 DEF DispatchMessage, DispatchPing, DispatchClose, DispatchAnswered,
                        DispatchEnd, At, Does, locks, controlVars
        <3> QED
            BY <2>5, <3>1, <3>2, <3>3 DEF RunLoop
    <2> QED
        BY <2>2, <2>3, <2>4, <2>5 DEF Next
<1> QED
    BY <1>1, <1>2, TypeCorrect, PTL DEF Spec

-----------------------------------------------------------------------------
(* Waiting. *)

\* How many threads, one after the other, may stand between t and one that runs.
Rank(t) ==
    IF t = Control /\ stopping = "join" THEN 4
    ELSE IF act[t] = "write" THEN 3
    ELSE IF act[t] = "send" THEN 2
    ELSE IF act[t] \in {"locked", "failed", "waking"} THEN 1 ELSE 0

\* A thread waits only for one of a lower rank: the locks are taken in one order.
LEMMA WaitsDown ==
    ASSUME TypeOK, ThreadsInv, NEW t \in Threads, NEW u \in Threads, WaitsFor(t, u)
    PROVE  Rank(u) < Rank(t)
<1> USE ThreadFacts DEF SocketFree, Rank, ThreadsInv
<1>1. /\ writeLock = u => act[u] \in {"send", "locked", "failed", "closing", "handler"}
      /\ txLock = u => act[u] \in {"locked", "failed", "closing", "handler"}
    BY DEF TypeOK
<1>2. CASE act[t] = "write" /\ writeLock = u
    BY <1>1, <1>2 DEF JoinInv
<1>3. CASE act[t] = "send" /\ txLock = u
    BY <1>1, <1>3 DEF JoinInv
<1>4. CASE act[t] \in {"locked", "failed", "waking"} /\ ~SocketFree /\ u = Loop
    BY <1>4 DEF JoinInv, LoopInv
<1>5. CASE t = Control /\ stopping = "join" /\ pc /= "ended" /\ u = Loop
    BY <1>5
<1> QED
    BY <1>2, <1>3, <1>4, <1>5 DEF WaitsFor

\* The loop and its callers never wait for each other in a ring, with any number
\* of senders and timers: what remains of StopReturns is that each of them runs.
THEOREM NoDeadlock == Spec => []NoWaitingCycle
<1>1. ASSUME TypeOK, ThreadsInv, NEW S \in SUBSET Threads, S /= {}
      PROVE  \E t \in S : \A u \in S : ~WaitsFor(t, u)
    <2>1. \A t \in S : Rank(t) \in 0 .. 4
        BY DEF Rank
    <2>2. \E t \in S : \A u \in S : Rank(t) <= Rank(u)
        <3>1. CASE \E t \in S : Rank(t) = 0
            BY <2>1, <3>1
        <3>2. CASE (\A t \in S : Rank(t) >= 1) /\ \E t \in S : Rank(t) = 1
            BY <2>1, <3>2
        <3>3. CASE (\A t \in S : Rank(t) >= 2) /\ \E t \in S : Rank(t) = 2
            BY <2>1, <3>3
        <3>4. CASE (\A t \in S : Rank(t) >= 3) /\ \E t \in S : Rank(t) = 3
            BY <2>1, <3>4
        <3>5. CASE \A t \in S : Rank(t) >= 4
            BY <1>1, <2>1, <3>5
        <3> QED
            BY <2>1, <3>1, <3>2, <3>3, <3>4, <3>5
    <2>3. PICK t \in S : \A u \in S : Rank(t) <= Rank(u)
        BY <2>2
    <2>4. ASSUME NEW u \in S, WaitsFor(t, u)
          PROVE  FALSE
        <3>1. t \in Threads /\ u \in Threads /\ Rank(t) <= Rank(u)
            BY <1>1, <2>3
        <3>2. Rank(u) < Rank(t)
            BY <1>1, <2>4, <3>1, WaitsDown
        <3> QED
            BY <2>1, <3>1, <3>2
    <2> QED
        BY <2>4
<1>2. TypeOK /\ ThreadsInv => NoWaitingCycle
    BY <1>1 DEF NoWaitingCycle
<1> QED
    BY <1>2, TypeCorrect, ThreadsInductive, PTL

-----------------------------------------------------------------------------
(* The refinement. *)

\* What of rxbuf SignalLink sees.
Left(frames) == \E i \in DOMAIN frames : frames[i] = "message"

\* A control frame dispatched leaves the texts behind it.
LEMMA ReplaceLeaves ==
    ASSUME NEW s \in Seq(Frames), s /= <<>>, Head(s) /= "message",
           NEW f \in {<<>>, <<"ponged">>, <<"answered">>}
    PROVE  Left(f \o Tail(s)) <=> Left(s)
<1> DEFINE r == f \o Tail(s)
<1>1. Len(s) \in Nat /\ Len(s) >= 1 /\ Len(Tail(s)) = Len(s) - 1 /\ s[1] = Head(s)
      /\ \A i \in 1 .. Len(s) - 1 : Tail(s)[i] = s[i + 1]
    OBVIOUS
<1>2. CASE f = <<>>
    <2>1. r = Tail(s)
        BY <1>2
    <2>2. DOMAIN Tail(s) = 1 .. Len(s) - 1 /\ DOMAIN s = 1 .. Len(s)
        BY <1>1
    <2>3. ASSUME Left(s) PROVE Left(Tail(s))
        <3>1. PICK i \in 1 .. Len(s) : s[i] = "message"
            BY <2>2, <2>3 DEF Left
        <3>2. i - 1 \in 1 .. Len(s) - 1 /\ (i - 1) + 1 = i
            BY <1>1, <3>1
        <3>3. Tail(s)[i - 1] = "message"
            BY <1>1, <3>1, <3>2
        <3> QED
            BY <2>2, <3>2, <3>3 DEF Left
    <2>4. ASSUME Left(Tail(s)) PROVE Left(s)
        <3>1. PICK i \in 1 .. Len(s) - 1 : Tail(s)[i] = "message"
            BY <2>2, <2>4 DEF Left
        <3>2. i + 1 \in 1 .. Len(s) /\ s[i + 1] = "message"
            BY <1>1, <3>1
        <3> QED
            BY <2>2, <3>2 DEF Left
    <2> QED
        BY <2>1, <2>3, <2>4
<1>3. CASE f /= <<>>
    <2>1. PICK e \in Frames : f = <<e>> /\ e /= "message"
        BY <1>3 DEF Frames
    <2>2. Tail(s) \in Seq(Frames)
        BY <1>1
    <2>3. /\ DOMAIN r = 1 .. Len(s) /\ r[1] = e
          /\ \A i \in 2 .. Len(s) : r[i] = Tail(s)[i - 1]
        BY <1>1, <2>1, <2>2
    <2>4. \A i \in 2 .. Len(s) : r[i] = s[i]
        BY <1>1, <2>3
    <2>5. DOMAIN s = 1 .. Len(s)
        BY <1>1
    <2> HIDE DEF r
    <2>6. \A i \in 1 .. Len(s) : r[i] = "message" <=> s[i] = "message"
        <3>1. \A i \in 1 .. Len(s) : i = 1 \/ i \in 2 .. Len(s)
            BY <1>1
        <3> QED
            BY <1>1, <2>1, <2>3, <2>4, <3>1
    <2>7. Left(r) <=> Left(s)
        BY <2>3, <2>5, <2>6 DEF Left
    <2> QED
        BY <2>7 DEF r
<1> QED
    BY <1>2, <1>3

Place == IF act[Loop] = "handler" THEN "closing"
         ELSE IF pc \in {"connect", "handshake"} THEN "connecting"
         ELSE IF pc = "opened" THEN "opening" ELSE "run"
Asked == \E t \in Threads : act[t] = "asking"
Other == IF \E t \in Threads \ {Loop} : act[t] = "handler" THEN "closing"
         ELSE IF \E t \in Threads \ {Loop} : act[t] = "closing" THEN "failed" ELSE "idle"

\* A step of one thread leaves who closes and who asks, unless it is that thread.
LEMMA RolesKept ==
    ASSUME NEW t \in Threads, \A u \in Threads \ {t} : act'[u] = act[u],
           act[t] = "handler" <=> act'[t] = "handler"
    PROVE  /\ (act[t] = "asking" <=> act'[t] = "asking") => UNCHANGED Asked
           /\ t = Loop \/ (act[t] = "closing" <=> act'[t] = "closing") => UNCHANGED Other
           /\ UNCHANGED pc => UNCHANGED Place
<1>1. (act[t] = "asking" <=> act'[t] = "asking") => UNCHANGED Asked
    BY DEF Asked
<1>2. ASSUME t = Loop \/ (act[t] = "closing" <=> act'[t] = "closing")
      PROVE  UNCHANGED Other
    <2>1. \A u \in Threads \ {Loop} : /\ act'[u] = "handler" <=> act[u] = "handler"
                                      /\ act'[u] = "closing" <=> act[u] = "closing"
        BY <1>2
    <2> QED
        BY <2>1 DEF Other
<1>3. UNCHANGED pc => UNCHANGED Place
    BY ThreadFacts DEF Place
<1> QED
    BY <1>1, <1>2, <1>3

\* The loop's Close, and that of the only other thread that may be closing.
LEMMA CloserSteps ==
    ASSUME TypeOK, ThreadsInv, NEW t \in Threads,
           DropSocket(t) \/ BeginClosed(t) \/ EndClosed(t)
    PROVE  Link!Next \/ UNCHANGED Link!vars
<1> USE ThreadFacts
<1>0. /\ act \in [Threads -> Acts]
      /\ \A u \in Threads : act[u] = "failed" => txLock = u
    BY DEF TypeOK
<1>1. \A u, v \in Threads \ {Loop} :
          act[u] \in {"failed", "closing", "handler"}
          /\ act[v] \in {"failed", "closing", "handler"} => u = v
    BY <1>0 DEF ThreadsInv, OthersInv
<1>2. /\ UNCHANGED <<pc, rxbuf>> /\ UNCHANGED Left(rxbuf)
      /\ \A u \in Threads \ {t} : act'[u] = act[u]
      /\ act[t] /= "asking" /\ act'[t] /= "asking"
    BY <1>0 DEF DropSocket, BeginClosed, EndClosed, Returns, Does, loopVars, Left
<1>3. UNCHANGED Asked
    BY <1>2 DEF Asked
<1>4. CASE t /= Loop
    <2>1. UNCHANGED Place
        BY <1>2, <1>4 DEF Place
    <2>2. \A u \in Threads \ {Loop, t} : /\ act[u] \notin {"closing", "handler"}
                                         /\ act'[u] \notin {"closing", "handler"}
        BY <1>1, <1>2, <1>4 DEF DropSocket, BeginClosed, EndClosed
    <2>3. /\ Other = IF act[t] = "handler" THEN "closing"
                     ELSE IF act[t] = "closing" THEN "failed" ELSE "idle"
          /\ Other' = IF act'[t] = "handler" THEN "closing"
                      ELSE IF act'[t] = "closing" THEN "failed" ELSE "idle"
        BY <1>4, <2>2 DEF Other
    <2>4. CASE DropSocket(t)
        <3>1. act[t] = "failed" /\ act'[t] = "closing" /\ socket' = "none"
              /\ UNCHANGED readyState
            BY <1>0, <2>4 DEF DropSocket, Does
        <3>2. Link!Fail
            BY <1>2, <1>3, <2>1, <2>3, <3>1 DEF Link!Fail, Place, Left, Asked, Other
        <3> QED
            BY <3>2 DEF Link!Next
    <2>5. CASE BeginClosed(t)
        <3>1. /\ act[t] = "closing"
              /\ IF readyState = "closed" THEN act'[t] \in {"none", "waking"}
                 ELSE act'[t] = "handler"
              /\ UNCHANGED <<readyState, socket>>
            BY <1>0, <2>5 DEF BeginClosed, Returns, Does
        <3>2. Link!BeginOther
            BY <1>2, <1>3, <2>1, <2>3, <3>1 DEF Link!BeginOther, Place, Left, Asked, Other
        <3> QED
            BY <3>2 DEF Link!Next
    <2>6. CASE EndClosed(t)
        <3>1. /\ act[t] = "handler" /\ act'[t] \in {"none", "waking"}
              /\ readyState' = "closed" /\ UNCHANGED socket
            BY <1>0, <2>6 DEF EndClosed, Returns, Does
        <3>2. Link!EndOther
            BY <1>2, <1>3, <2>1, <2>3, <3>1 DEF Link!EndOther, Place, Left, Asked, Other
        <3> QED
            BY <3>2 DEF Link!Next
    <2> QED
        BY <2>4, <2>5, <2>6
<1>5. CASE t = Loop
    <2>1. UNCHANGED Other
        BY <1>2, <1>5 DEF Other
    <2>2. CASE DropSocket(t)
        <3>1. act[t] = "failed" /\ act'[t] = "closing" /\ socket' = "none"
              /\ UNCHANGED readyState
            BY <1>0, <2>2 DEF DropSocket, Does
        <3>2. UNCHANGED Place
            BY <1>2, <1>5, <3>1 DEF Place
        <3>3. Link!Drop \/ UNCHANGED Link!vars
            BY <1>2, <1>3, <2>1, <3>1, <3>2
               DEF Link!Drop, Link!vars, Place, Left, Asked, Other
        <3> QED
            BY <3>3 DEF Link!Next
    <2>3. CASE BeginClosed(t)
        <3>1. /\ act[t] = "closing"
              /\ IF readyState = "closed" THEN act'[t] \in {"none", "waking"}
                 ELSE act'[t] = "handler"
              /\ UNCHANGED <<readyState, socket>>
            BY <1>0, <2>3 DEF BeginClosed, Returns, Does
        <3>2. socket /= "up" /\ Place = "run"
            BY <1>5, <3>1 DEF ThreadsInv, LoopInv, Place
        <3>3. Place' = IF readyState = "closed" THEN "run" ELSE "closing"
            BY <1>2, <1>5, <3>1, <3>2 DEF Place
        <3>4. Link!BeginClose \/ UNCHANGED Link!vars
            BY <1>2, <1>3, <2>1, <3>1, <3>2, <3>3
               DEF Link!BeginClose, Link!vars, Place, Left, Asked, Other
        <3> QED
            BY <3>4 DEF Link!Next
    <2>4. CASE EndClosed(t)
        <3>1. /\ act[t] = "handler" /\ act'[t] \in {"none", "waking"}
              /\ readyState' = "closed" /\ UNCHANGED socket
            BY <1>0, <2>4 DEF EndClosed, Returns, Does
        <3>2. Place = "closing" /\ Place' = "run"
            BY <1>2, <1>5, <3>1 DEF ThreadsInv, LoopInv, Place
        <3>3. Link!EndClose
            BY <1>2, <1>3, <2>1, <3>1, <3>2 DEF Link!EndClose, Place, Left, Asked, Other
        <3> QED
            BY <3>3 DEF Link!Next
    <2> QED
        BY <2>2, <2>3, <2>4
<1> QED
    BY <1>4, <1>5

\* Nobody begins or ends a Close, or asks for one.
Beside == UNCHANGED <<Asked, Other>>

\* Every step of a thread inside the transport is one of the link, or none.
LEMMA TransportSteps ==
    ASSUME TypeOK, ThreadsInv, NEW t \in Threads, InTransport(t)
    PROVE  Link!Next \/ UNCHANGED Link!vars
<1> USE ThreadFacts
<1>0. act \in [Threads -> Acts]
    BY DEF TypeOK
<1>1. CASE TakeWrite(t) \/ SkipSend(t) \/ TakeTxbuf(t) \/ WriteOut(t) \/ WakeUp(t)
    <2>1. /\ UNCHANGED <<readyState, socket, pc, rxbuf>>
          /\ \A u \in Threads \ {t} : act'[u] = act[u]
          /\ act[t] \notin {"handler", "closing", "asking"}
          /\ act'[t] \notin {"handler", "closing", "asking"}
        BY <1>0, <1>1
           DEF TakeWrite, SkipSend, TakeTxbuf, WriteOut, WakeUp, Returns, Does, loopVars
    <2>2. UNCHANGED <<Asked, Other, Place>>
        BY <2>1, RolesKept
    <2>3. UNCHANGED Link!vars
        BY <2>1, <2>2 DEF Link!vars, Place, Asked, Other
    <2> QED
        BY <2>3
<1>2. CASE StoreClosing(t)
    <2>1. /\ act[t] = "asking" /\ act' = [act EXCEPT ![t] = "send"] /\ readyState' = "closing"
          /\ UNCHANGED <<socket, pc, rxbuf>>
        BY <1>2 DEF StoreClosing, Does, loopVars
    <2>2. Asked /\ Asked' \in BOOLEAN
        BY <2>1 DEF Asked
    <2>3. UNCHANGED <<Other, Place>>
        BY <1>0, <2>1, RolesKept
    <2>4. Link!StoreClosing
        BY <2>1, <2>2, <2>3 DEF Link!StoreClosing, Place, Asked, Other
    <2> QED
        BY <2>4 DEF Link!Next
<1> QED
    BY <1>1, <1>2, CloserSteps DEF InTransport

\* Every step of the loop is one of the link, or none.
LEMMA LoopSteps ==
    ASSUME TypeOK, ThreadsInv, RunLoop
    PROVE  Link!Next \/ UNCHANGED Link!vars
<1> USE ThreadFacts
<1>0. act \in [Threads -> Acts] /\ rxbuf \in Seq(Frames) /\ LoopInv
    BY DEF TypeOK, Frames, ThreadsInv
<1>1. Beside /\ act[Loop] /= "handler" /\ act'[Loop] /= "handler"
    <2>1. /\ act[Loop] = "none" /\ \A u \in Threads \ {Loop} : act'[u] = act[u]
          /\ act'[Loop] \in {"none", "write", "send", "closing"}
        BY <1>0 DEF RunLoop, Check, Connect, Handshake, ReportOpen, Test, PollRead, PollEnd,
                    PollError, PollExpired, DispatchMessage, DispatchPing, DispatchClose,
                    DispatchAnswered, DispatchEnd, At, Does
    <2>2. Beside
        BY <2>1, RolesKept DEF Beside
    <2> QED
        BY <2>1, <2>2
<1>2. ASSUME UNCHANGED <<readyState, Place>>, UNCHANGED socket \/ socket' = "none",
             Left(rxbuf') <=> Left(rxbuf)
      PROVE  Link!Next \/ UNCHANGED Link!vars
    <2>1. Link!Drop \/ UNCHANGED Link!vars
        BY <1>1, <1>2 DEF Link!Drop, Link!vars, Beside, Place, Left, Asked, Other
    <2> QED
        BY <2>1 DEF Link!Next
<1>3. CASE Check
    <2>1. CASE pc' = "connect"
        <3>1. /\ pc = "check" /\ rxbuf = <<>> /\ readyState = "closed"
              /\ UNCHANGED <<readyState, socket, rxbuf>>
            BY <1>0, <1>3, <2>1 DEF Check, At, LoopInv
        <3>2. Link!Try
            BY <1>1, <2>1, <3>1 DEF Link!Try, Beside, Asked, Other, Place
        <3> QED
            BY <3>2 DEF Link!Next
    <2>2. CASE pc' /= "connect"
        BY <1>2, <1>3, <2>2 DEF Check, At, Place, Left
    <2> QED
        BY <2>1, <2>2
<1>4. CASE Connect \/ (Handshake /\ pc' = "check")
    <2>1. CASE pc' \in {"test", "check"}
        <3>1. pc \in {"connect", "handshake"} /\ UNCHANGED <<readyState, socket, rxbuf>>
            BY <1>4, <2>1 DEF Connect, Handshake, At
        <3>2. Link!GiveUp
            BY <1>1, <2>1, <3>1 DEF Link!GiveUp, Beside, Asked, Other, Place
        <3> QED
            BY <3>2 DEF Link!Next
    <2>2. CASE pc' = "handshake"
        BY <1>2, <1>4, <2>2 DEF Connect, Handshake, At, Place, Left
    <2> QED
        BY <1>4, <2>1, <2>2 DEF Connect
<1>5. CASE Handshake /\ pc' = "opened"
    <2>1. /\ pc = "handshake" /\ socket = "none" /\ socket' = "up" /\ readyState' = "open"
          /\ UNCHANGED rxbuf
        BY <1>0, <1>5 DEF Handshake, At, LoopInv
    <2>2. Link!Connect
        BY <1>1, <1>5, <2>1 DEF Link!Connect, Beside, Asked, Other, Place
    <2> QED
        BY <2>2 DEF Link!Next
<1>6. CASE ReportOpen
    <2>1. Link!Open
        BY <1>1, <1>6 DEF ReportOpen, At, Link!Open, Beside, Asked, Other, Place
    <2> QED
        BY <2>1 DEF Link!Next
<1>7. CASE PollRead \/ PollEnd
    <2>1. /\ pc = "poll" /\ pc' = "dispatch" /\ rxbuf = <<>> /\ UNCHANGED readyState
          /\ (socket' = "up" <=> socket = "up")
        BY <1>0, <1>7 DEF PollRead, PollEnd, At, Polled, LoopInv
    <2>2. Link!Arrive \/ UNCHANGED Link!vars
        BY <1>1, <2>1
           DEF Link!Arrive, Link!vars, Beside, Left, Asked, Other, Place
    <2> QED
        BY <2>2 DEF Link!Next
<1>8. CASE DispatchMessage /\ Head(rxbuf) = "message"
    <2>1. /\ pc = "dispatch" /\ UNCHANGED <<pc, readyState, socket>> /\ rxbuf /= <<>>
        BY <1>8 DEF DispatchMessage, At
    <2>2. 1 \in DOMAIN rxbuf /\ rxbuf[1] = "message"
        BY <1>0, <1>8, <2>1
    <2>3. Link!Handle
        BY <1>1, <2>1, <2>2
           DEF Link!Handle, Beside, Left, Asked, Other, Place
    <2> QED
        BY <2>3 DEF Link!Next
<1>9. CASE \/ DispatchMessage /\ Head(rxbuf) /= "message"
           \/ DispatchPing \/ DispatchClose \/ DispatchAnswered
    <2>1. /\ UNCHANGED <<readyState, pc>> /\ (UNCHANGED socket \/ socket' = "none")
          /\ rxbuf /= <<>> /\ Head(rxbuf) /= "message"
          /\ \E f \in {<<>>, <<"ponged">>, <<"answered">>} : rxbuf' = f \o Tail(rxbuf)
        BY <1>9 DEF DispatchMessage, DispatchPing, DispatchClose, DispatchAnswered, Replace
    <2>2. PICK f \in {<<>>, <<"ponged">>, <<"answered">>} : rxbuf' = f \o Tail(rxbuf)
        BY <2>1
    <2>3. Left(f \o Tail(rxbuf)) <=> Left(rxbuf)
        BY <1>0, <2>1, ReplaceLeaves
    <2>4. Left(rxbuf') <=> Left(rxbuf)
        BY <2>2, <2>3, Zenon
    <2> QED
        BY <1>1, <1>2, <2>1, <2>4 DEF Place
<1>10. CASE PollError \/ PollExpired \/ DispatchEnd \/ Test
    <2>1. /\ UNCHANGED <<readyState, Place>> /\ (UNCHANGED socket \/ socket' = "none")
          /\ rxbuf' = rxbuf
        BY <1>0, <1>1, <1>10
           DEF PollError, PollExpired, DispatchEnd, Test, At, Polled, LoopInv, Place
    <2> QED
        BY <1>2, <2>1
<1> QED
    BY <1>3, <1>4, <1>5, <1>6, <1>7, <1>8, <1>9, <1>10 DEF RunLoop, Handshake

\* The websocket with all its threads implements the link that SignalService and
\* module Session rely on, whichever thread closes it.
THEOREM Refines == Spec => ImplementsLink
<1>1. ASSUME Init
      PROVE  Link!Init
    <2>1. \A t \in Threads : act[t] = "none"
        BY <1>1 DEF Init
    <2>2. Place = "run" /\ ~Asked /\ Other = "idle" /\ ~Left(rxbuf)
        BY <1>1, <2>1, ThreadFacts DEF Init, Place, Asked, Other, Left
    <2> QED
        BY <1>1, <2>2 DEF Init, Link!Init, Place, Asked, Other, Left
<1>2. ASSUME TypeOK, ThreadsInv, [Next]_vars
      PROVE  [Link!Next]_Link!vars
    <2> USE <1>2, ThreadFacts
    <2>0. act \in [Threads -> Acts]
        BY DEF TypeOK
    <2>1. ASSUME NEW t \in Threads, InTransport(t)
          PROVE  [Link!Next]_Link!vars
        BY <2>1, TransportSteps
    <2>2. CASE RunLoop
        BY <2>2, LoopSteps
    <2>3. ASSUME NEW t \in Threads, Send(t) \/ CallClose(t), UNCHANGED <<pc, rxbuf>>
          PROVE  [Link!Next]_Link!vars
        <3>1. /\ act' \in {act, [act EXCEPT ![t] = "write"], [act EXCEPT ![t] = "asking"]}
              /\ (act[t] = "none" /\ readyState = "open") \/ UNCHANGED act
              /\ UNCHANGED <<readyState, socket>>
            BY <2>3 DEF Send, CallClose, Does
        <3>2. UNCHANGED <<Other, Place>>
            <4>1. /\ \A u \in Threads \ {t} : act'[u] = act[u]
                  /\ act[t] = "handler" <=> act'[t] = "handler"
                  /\ act[t] = "closing" <=> act'[t] = "closing"
                BY <2>0, <3>1
            <4> QED
                BY <2>3, <4>1, RolesKept
        <3>3. UNCHANGED Asked \/ (Asked' /\ readyState = "open")
            BY <2>0, <3>1 DEF Asked
        <3>4. Link!Ask \/ UNCHANGED Link!vars
            BY <2>3, <3>1, <3>2, <3>3
               DEF Link!Ask, Link!vars, Left, Asked, Other, Place
        <3> QED
            BY <3>4 DEF Link!Next
    <2>4. CASE StopFlags \/ PeerBreaks \/ UNCHANGED vars
        <3>1. UNCHANGED <<readyState, pc, rxbuf, act>> /\ (UNCHANGED socket \/ socket' /= "up")
            BY <2>4 DEF StopFlags, PeerBreaks, loopVars, vars
        <3>2. Link!Drop \/ UNCHANGED Link!vars
            BY <3>1 DEF Link!Drop, Link!vars
        <3> QED
            BY <3>2 DEF Link!Next
    <2> QED
        BY <2>1, <2>2, <2>3, <2>4
           DEF Next, Send, TimerCloses, StopCloses, CallClose, loopVars
<1> QED
    BY <1>1, <1>2, TypeCorrect, ThreadsInductive, PTL DEF Spec, ImplementsLink, Link!Spec
=============================================================================
