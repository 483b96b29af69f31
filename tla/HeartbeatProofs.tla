--------------------------- MODULE HeartbeatProofs ---------------------------
(***************************************************************************)
(* Theorems about Heartbeat, for any delay and any executors: at most the  *)
(* latest ping's executor can still close the link, and only after Delay.  *)
(***************************************************************************)
EXTENDS Heartbeat, TLAPS

\* A thread that will decide to close when its sleep is over.
Armed(e) == thread[e] \in {"started", "sleeping"} /\ ~interrupted[e]

\* Between the interrupt and the start of the next executor no thread is armed.
NoneArmedInPing ==
    (Sound /\ pings = "start") => \A e \in Executors : ~Armed(e)

\* What an armed thread has to sleep is at least what Delay has left.
SleepsLongEnough ==
    \A e \in Executors : (Sound /\ Armed(e)) => left[e] + quiet >= Delay

IInv ==
    /\ TypeOK
    /\ OnlyLatestArmed
    /\ NoneArmedInPing
    /\ SleepsLongEnough

\* A new service has no executor, so none is armed.
LEMMA InitIInv == Init => IInv
<1> SUFFICES ASSUME Init PROVE IInv
    OBVIOUS
<1>1. TypeOK
    <2>1. orphan \in BOOLEAN /\ undefined \in BOOLEAN
        BY Zenon DEF Init
    <2> QED
        BY <2>1, HeartbeatAssumption DEF Init, TypeOK
<1>2. \A e \in Executors : thread[e] = "free"
    BY DEF Init
<1> QED
    BY <1>1, <1>2 DEF IInv, OnlyLatestArmed, NoneArmedInPing, SleepsLongEnough, Armed

\* The types of one action at a time.
LEMMA TypePreserved == TypeOK /\ [Next]_vars => TypeOK'
<1> SUFFICES ASSUME TypeOK, [Next]_vars PROVE TypeOK'
    OBVIOUS
<1> USE HeartbeatAssumption DEF TypeOK
<1>1. CASE OnPing
    <2>1. undefined' \in BOOLEAN
        BY <1>1 DEF OnPing, MembersGone
    <2>2. interrupted' \in [Executors -> BOOLEAN]
        BY <1>1 DEF OnPing, Interrupt
    <2> QED
        BY <1>1, <2>1, <2>2 DEF OnPing, linkVars, serviceVars
<1>2. ASSUME NEW e \in Executors, StartExecutor(e) PROVE TypeOK'
    BY <1>2 DEF StartExecutor, Started
<1>3. ASSUME NEW e \in Executors, CopyFlags(e) PROVE TypeOK'
    BY <1>3 DEF CopyFlags, Goto, linkVars, serviceVars
<1>4. ASSUME NEW e \in Executors, TestInterrupt(e) PROVE TypeOK'
    BY <1>4 DEF TestInterrupt, Goto, linkVars, serviceVars
<1>5. ASSUME NEW e \in Executors, Fire(e) PROVE TypeOK'
    BY <1>5 DEF Fire, Goto, CloseLink, serviceVars
<1>6. CASE LinkCloses
    BY <1>6 DEF LinkCloses, serviceVars
<1>7. CASE Reconnect
    BY <1>7 DEF Reconnect, serviceVars
<1>8. CASE Tick
    BY <1>8 DEF Tick, linkVars, serviceVars
<1>9. CASE DestroyInterrupts
    BY <1>9 DEF DestroyInterrupts, Interrupt, linkVars
<1>10. CASE DestroyCloses
    BY <1>10 DEF DestroyCloses, CloseLink
<1>11. CASE DestroyMembers
    BY <1>11 DEF DestroyMembers, linkVars
<1>12. CASE DestroyWebSocket
    BY <1>12 DEF DestroyWebSocket
<1>13. CASE UNCHANGED vars
    BY <1>13 DEF vars, linkVars, serviceVars
<1> QED
    BY <1>1, <1>2, <1>3, <1>4, <1>5, <1>6, <1>7, <1>8, <1>9, <1>10, <1>11, <1>12, <1>13
       DEF Next, ExecutorThread, Destroy

\* A step that leaves the flags, the executor in use, the service and the time
\* as they are, and arms no thread, keeps the three invariants.
LEMMA DisarmingStep ==
    ASSUME IInv, UNCHANGED <<current, interrupted, left, quiet, pings, service, orphan>>,
           undefined \in BOOLEAN, undefined => undefined',
           \A e \in Executors : thread'[e] \in {"started", "sleeping"}
                                    => thread[e] \in {"started", "sleeping"}
    PROVE  OnlyLatestArmed' /\ NoneArmedInPing' /\ SleepsLongEnough'
<1>1. Sound' => Sound
    BY DEF Sound
<1>2. \A e \in Executors : Armed(e)' => Armed(e)
    BY DEF Armed
<1>3. OnlyLatestArmed'
    BY <1>1 DEF IInv, OnlyLatestArmed
<1>4. NoneArmedInPing'
    BY <1>1, <1>2 DEF IInv, NoneArmedInPing
<1>5. SleepsLongEnough'
    BY <1>1, <1>2 DEF IInv, SleepsLongEnough
<1> QED
    BY <1>3, <1>4, <1>5

\* After an interrupt of the executor in use no thread is armed.
LEMMA InterruptDisarms ==
    ASSUME IInv, Sound, UNCHANGED thread,
           IF current = None THEN UNCHANGED interrupted ELSE Interrupt(current)
    PROVE  \A e \in Executors : ~Armed(e)'
<1> SUFFICES ASSUME NEW e \in Executors, Armed(e)' PROVE FALSE
    OBVIOUS
<1>1. Armed(e)
    BY DEF Armed, Interrupt, IInv, TypeOK
<1>2. e = current
    BY <1>1 DEF IInv, OnlyLatestArmed, Armed
<1>3. interrupted'[e]
    BY <1>2, HeartbeatAssumption DEF Interrupt, IInv, TypeOK
<1> QED
    BY <1>3 DEF Armed

\* A state in which no thread is armed satisfies the three.
LEMMA NoneArmed ==
    ASSUME Sound' => \A e \in Executors : ~Armed(e)'
    PROVE  OnlyLatestArmed' /\ NoneArmedInPing' /\ SleepsLongEnough'
BY DEF OnlyLatestArmed, NoneArmedInPing, SleepsLongEnough, Armed

\* No step of a ping, a timer or the destructor arms a second thread.
LEMMA StepIInv == IInv /\ [Next]_vars => IInv'
<1> SUFFICES ASSUME IInv, [Next]_vars
             PROVE  OnlyLatestArmed' /\ NoneArmedInPing' /\ SleepsLongEnough'
    BY TypePreserved DEF IInv
<1>0. TypeOK /\ TypeOK'
    BY TypePreserved DEF IInv
<1>1. CASE OnPing
    <2>1. Sound' => Sound
        BY <1>1 DEF OnPing, Sound, serviceVars
    <2> QED
        BY <1>1, <2>1, InterruptDisarms, NoneArmed DEF OnPing
<1>2. ASSUME NEW e \in Executors, StartExecutor(e)
      PROVE  OnlyLatestArmed' /\ NoneArmedInPing' /\ SleepsLongEnough'
    <2>1. Sound' => Sound /\ service' = "alive"
        BY <1>2 DEF StartExecutor, Started, Sound
    <2>2. Sound => \A f \in Executors : ~Armed(f)
        BY <1>2 DEF StartExecutor, Started, IInv, NoneArmedInPing
    <2>3. /\ current' = e /\ left'[e] = Delay /\ quiet' = quiet /\ pings' = "idle"
          /\ \A f \in Executors : f /= e => (Armed(f)' <=> Armed(f))
        BY <1>0, <1>2 DEF StartExecutor, Started, Armed, TypeOK
    <2>4. \A f \in Executors : Sound' /\ Armed(f)' => f = e
        BY <2>1, <2>2, <2>3
    <2>5. OnlyLatestArmed'
        BY <2>1, <2>3, <2>4 DEF OnlyLatestArmed, Armed
    <2>6. NoneArmedInPing'
        BY <2>3 DEF NoneArmedInPing
    <2>7. SleepsLongEnough'
        BY <1>0, <2>3, <2>4, HeartbeatAssumption DEF SleepsLongEnough, TypeOK
    <2> QED
        BY <2>5, <2>6, <2>7
<1>3. ASSUME NEW e \in Executors, ExecutorThread(e)
      PROVE  OnlyLatestArmed' /\ NoneArmedInPing' /\ SleepsLongEnough'
    <2>1. CASE CopyFlags(e)
        BY <1>0, <2>1, DisarmingStep DEF CopyFlags, Goto, TypeOK, linkVars, serviceVars
    <2>2. CASE TestInterrupt(e)
        BY <1>0, <2>2, DisarmingStep DEF TestInterrupt, Goto, TypeOK, linkVars, serviceVars
    <2>3. CASE Fire(e)
        BY <1>0, <2>3, DisarmingStep DEF Fire, Goto, TypeOK, linkVars, serviceVars
    <2> QED
        BY <1>3, <2>1, <2>2, <2>3 DEF ExecutorThread
<1>4. CASE LinkCloses
    BY <1>0, <1>4, DisarmingStep DEF LinkCloses, TypeOK, serviceVars
<1>5. CASE Reconnect
    BY <1>0, <1>5, DisarmingStep DEF Reconnect, TypeOK, serviceVars
<1>6. CASE Tick
    <2>1. UNCHANGED <<current, thread, interrupted, pings, service, orphan, undefined>>
        BY <1>6 DEF Tick, serviceVars
    <2>2. (Sound' <=> Sound) /\ \A e \in Executors : Armed(e)' <=> Armed(e)
        BY <2>1 DEF Sound, Armed
    <2>3. \A e \in Executors : left'[e] + quiet' >= Delay \/ left[e] + quiet < Delay
        <3> SUFFICES ASSUME NEW e \in Executors, left[e] + quiet >= Delay
                     PROVE  left'[e] + quiet' >= Delay
            BY <1>0, HeartbeatAssumption DEF TypeOK
        <3>1. left[e] \in 0 .. Delay /\ quiet \in 0 .. Delay /\ Delay \in Nat
            BY <1>0, HeartbeatAssumption DEF TypeOK
        <3>2. left'[e] = left[e] \/ (left[e] > 0 /\ left'[e] = left[e] - 1)
            BY <1>6 DEF Tick
        <3>3. quiet' = IF quiet < Delay THEN quiet + 1 ELSE quiet
            BY <1>6 DEF Tick
        <3> QED
            BY <3>1, <3>2, <3>3
    <2>4. OnlyLatestArmed' /\ NoneArmedInPing'
        BY <2>1, <2>2 DEF IInv, OnlyLatestArmed, NoneArmedInPing
    <2>5. SleepsLongEnough'
        BY <1>0, <2>2, <2>3, HeartbeatAssumption DEF IInv, SleepsLongEnough, TypeOK
    <2> QED
        BY <2>4, <2>5
<1>7. CASE DestroyInterrupts
    <2>1. Sound' => Sound
        BY <1>0, <1>7 DEF DestroyInterrupts, Sound, TypeOK
    <2> QED
        BY <1>7, <2>1, InterruptDisarms, NoneArmed DEF DestroyInterrupts
<1>8. ASSUME service /= "alive", UNCHANGED <<thread, interrupted, undefined, orphan>>
      PROVE  OnlyLatestArmed' /\ NoneArmedInPing' /\ SleepsLongEnough'
    <2>1. Sound' => Sound
        BY <1>8 DEF Sound
    <2>2. Sound => \A e \in Executors : ~Armed(e)
        BY <1>8 DEF IInv, OnlyLatestArmed, Armed
    <2>3. \A e \in Executors : Armed(e)' <=> Armed(e)
        BY <1>8 DEF Armed
    <2> QED
        BY <2>1, <2>2, <2>3, NoneArmed
<1>9. CASE DestroyCloses \/ DestroyMembers \/ DestroyWebSocket
    BY <1>8, <1>9 DEF DestroyCloses, DestroyMembers, DestroyWebSocket, linkVars
<1>10. CASE UNCHANGED vars
    BY <1>0, <1>10, DisarmingStep DEF vars, linkVars, serviceVars, TypeOK
<1> QED
    BY <1>1, <1>2, <1>3, <1>4, <1>5, <1>6, <1>7, <1>9, <1>10 DEF Next, Destroy

\* The invariant is inductive.
THEOREM Inductive == Spec => []IInv
BY InitIInv, StepIInv, PTL DEF Spec

\* Types, for any executors and delay.
THEOREM TypeCorrect == Spec => []TypeOK
<1>1. IInv => TypeOK
    BY DEF IInv
<1> QED
    BY <1>1, Inductive, PTL

\* Only the latest ping's thread can still close the link, and none once the
\* destructor has interrupted it.
THEOREM LatestArmed == Spec => []OnlyLatestArmed
<1>1. IInv => OnlyLatestArmed
    BY DEF IInv
<1> QED
    BY <1>1, Inductive, PTL

\* No thread decides to close before Delay has passed without a ping.
THEOREM Silence == Spec => DecidesAfterSilence
<1> DEFINE Decides ==
        \A e \in Executors :
            (thread[e] = "sleeping" /\ thread'[e] = "firing" /\ Sound)
                => quiet = Delay /\ service = "alive"
<1>1. IInv /\ [Next]_vars => [Decides]_vars
    <2> SUFFICES ASSUME IInv, Next, NEW e \in Executors,
                        thread[e] = "sleeping", thread'[e] = "firing", Sound
                 PROVE  quiet = Delay /\ service = "alive"
        OBVIOUS
    <2>1. TestInterrupt(e)
        <3> USE DEF IInv, TypeOK
        <3>1. CASE OnPing
            BY <3>1 DEF OnPing
        <3>2. ASSUME NEW f \in Executors, StartExecutor(f) PROVE FALSE
            BY <3>2 DEF StartExecutor, Started
        <3>3. ASSUME NEW f \in Executors, CopyFlags(f) PROVE FALSE
            BY <3>3 DEF CopyFlags, Goto
        <3>4. ASSUME NEW f \in Executors, TestInterrupt(f) PROVE f = e
            BY <3>4 DEF TestInterrupt, Goto
        <3>5. ASSUME NEW f \in Executors, Fire(f) PROVE FALSE
            BY <3>5 DEF Fire, Goto
        <3>6. CASE LinkCloses \/ Reconnect \/ Tick \/ Destroy
            BY <3>6 DEF LinkCloses, Reconnect, Tick, Destroy, DestroyInterrupts,
                        DestroyCloses, DestroyMembers, DestroyWebSocket
        <3> QED
            BY <3>1, <3>2, <3>3, <3>4, <3>5, <3>6 DEF Next, ExecutorThread
    <2>2. left[e] = 0 /\ ~interrupted[e]
        BY <2>1 DEF TestInterrupt, Goto, IInv, TypeOK
    <2>3. Armed(e)
        BY <2>2 DEF Armed
    <2>4. service = "alive"
        BY <2>3 DEF IInv, OnlyLatestArmed, Armed
    <2>5. left[e] + quiet >= Delay
        BY <2>3 DEF IInv, SleepsLongEnough
    <2>6. quiet = Delay
        BY <2>2, <2>5, HeartbeatAssumption DEF IInv, TypeOK
    <2> QED
        BY <2>4, <2>6
<1> QED
    BY <1>1, Inductive, PTL DEF Spec, DecidesAfterSilence

-----------------------------------------------------------------------------
(* A pinged link is watched. *)

\* An open link that was pinged has the executor of its latest ping in force,
\* with a thread that will decide over the link: from the start of the executor
\* to its close(), or to the next ping, no other step can leave it unwatched.
LinkGuarded ==
    (link = "open" /\ owner /= None /\ service = "alive" /\ pings = "idle") =>
        owner = current /\ ~interrupted[owner] /\ thread[owner] /= "free"

\* Its thread ends only after an interrupt, which only a ping makes.
GuardInv ==
    /\ link = "closed" => owner = None
    /\ (link = "open" /\ owner /= None /\ service = "alive") =>
           /\ owner = current
           /\ interrupted[owner] \/ thread[owner] /= "free"
           /\ pings = "idle" => ~interrupted[owner]

\* No step leaves the latest executor without its thread, save a ping that
\* is about to replace it.
LEMMA GuardStep == TypeOK /\ GuardInv /\ [Next]_vars => GuardInv'
<1> SUFFICES ASSUME TypeOK, GuardInv, [Next]_vars PROVE GuardInv'
    OBVIOUS
<1> USE HeartbeatAssumption DEF TypeOK, GuardInv
<1>1. CASE OnPing
    BY <1>1 DEF OnPing, Interrupt, linkVars, serviceVars
<1>2. ASSUME NEW e \in Executors, StartExecutor(e) PROVE GuardInv'
    <2>1. /\ current' = e /\ thread'[e] = "started" /\ ~interrupted'[e]
          /\ UNCHANGED <<link, service>> /\ owner' = IF link = "open" THEN e ELSE owner
        BY <1>2 DEF StartExecutor, Started
    <2> QED
        BY <2>1
<1>3. ASSUME NEW e \in Executors, CopyFlags(e) PROVE GuardInv'
    BY <1>3 DEF CopyFlags, Goto, linkVars, serviceVars
<1>4. ASSUME NEW e \in Executors, TestInterrupt(e) PROVE GuardInv'
    BY <1>4 DEF TestInterrupt, Goto, linkVars, serviceVars
<1>5. ASSUME NEW e \in Executors, Fire(e) PROVE GuardInv'
    BY <1>5 DEF Fire, CloseLink
<1>6. CASE LinkCloses \/ Reconnect
    BY <1>6 DEF LinkCloses, Reconnect
<1>7. CASE Destroy
    BY <1>7 DEF Destroy, DestroyInterrupts, DestroyCloses, DestroyMembers,
                DestroyWebSocket, CloseLink, linkVars
<1>8. CASE Tick \/ UNCHANGED vars
    BY <1>8 DEF Tick, vars, linkVars, serviceVars
<1> QED
    BY <1>1, <1>2, <1>3, <1>4, <1>5, <1>6, <1>7, <1>8 DEF Next, ExecutorThread

\* An open link that was pinged is watched by the latest ping's executor: the
\* safety half of SilentLinkCloses.
THEOREM Guarded == Spec => []LinkGuarded
<1>1. Init => GuardInv
    BY DEF Init, GuardInv
<1>2. GuardInv => LinkGuarded
    BY DEF GuardInv, LinkGuarded
<1> QED
    BY <1>1, <1>2, GuardStep, TypeCorrect, PTL DEF Spec
=============================================================================
