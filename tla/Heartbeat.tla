------------------------------ MODULE Heartbeat ------------------------------
(***************************************************************************)
(* The heartbeat of SignalService: every ping of the server interrupts the *)
(* running TimeoutExecutor and starts a new one; one left alone for Delay  *)
(* closes the websocket.  Each executor's detached thread outlives it and  *)
(* shares two flags with it.                                               *)
(*                                                                         *)
(* Time passes in ticks.  A sleeping thread whose ticks have run out may   *)
(* go on at once or after any number of further ticks, as sleep_for may.   *)
(***************************************************************************)
EXTENDS Naturals

CONSTANTS
    Executors,  \* executors alive or with a thread alive at the same time
    None,       \* _heartbeatExecutor = nullptr
    Delay       \* 12000 ms, in ticks

ASSUME HeartbeatAssumption == None \notin Executors /\ Delay \in Nat \ {0}

VARIABLES
    current,     \* what _heartbeatExecutor points to
    thread,      \* state of each executor's thread
    interrupted, \* *_interrupt of each executor
    left,        \* ticks its thread still has to sleep
    link,        \* "open", "closing" after webSocket.close(), or "closed"
    owner,       \* history: the executor the last ping on this link started
    quiet,       \* history: ticks since the last ping, up to Delay
    pings,       \* websocket thread: where it is in _onPing
    service,     \* how far ~SignalService is: "alive", "interrupted", "closed",
                 \* "members" once they are destroyed, "gone"
    orphan,      \* history: an executor was started after the destructor's interrupt
    undefined    \* a thread has read an executor or a service that was gone

linkVars == <<link, owner>>
serviceVars == <<service, orphan>>
vars == <<current, thread, interrupted, left, linkVars, quiet, pings,
          serviceVars, undefined>>

Init ==
    /\ current = None
    /\ thread = [e \in Executors |-> "free"]
    /\ interrupted = [e \in Executors |-> FALSE]
    /\ left = [e \in Executors |-> 0]
    /\ link = "open" /\ owner = None
    /\ quiet = 0
    /\ pings = "idle"
    /\ service = "alive" /\ orphan = FALSE /\ undefined = FALSE

-----------------------------------------------------------------------------
(* The websocket thread: _onPing. *)

Interrupt(e) == interrupted' = [interrupted EXCEPT ![e] = TRUE]

\* The websocket is the first member, so its thread outlives all the others.
MembersGone == service \in {"members", "gone"}

\* Mutant of OnPing: the running executor is not interrupted.
OnPingWithoutInterrupt ==
    /\ pings = "idle" /\ service /= "gone"
    /\ quiet' = 0
    /\ pings' = "start"
    /\ undefined' = (undefined \/ MembersGone)
    /\ UNCHANGED <<current, thread, interrupted, left, linkVars, serviceVars>>

\* interrupt() on the executor there is.  A ping is handled on a link that is
\* closing too, and on one just closed when it was received with other frames.
OnPing ==
    /\ pings = "idle" /\ service /= "gone"
    /\ IF current = None THEN UNCHANGED interrupted ELSE Interrupt(current)
    /\ quiet' = 0
    /\ pings' = "start"
    /\ undefined' = (undefined \/ MembersGone)
    /\ UNCHANGED <<current, thread, left, linkVars, serviceVars>>

\* What the two statements that start an executor share with their mutants.
Started(e, ticks) ==
    /\ pings = "start" /\ thread[e] = "free" /\ e /= current
    /\ current' = e
    /\ thread' = [thread EXCEPT ![e] = "started"]
    /\ left' = [left EXCEPT ![e] = ticks]
    /\ owner' = IF link = "open" THEN e ELSE owner
    /\ pings' = "idle"
    /\ orphan' = (orphan \/ service /= "alive")
    /\ undefined' = (undefined \/ MembersGone)
    /\ UNCHANGED <<link, quiet, service>>

\* Mutants of StartExecutor: a tick too many, and a flag left over.
StartExecutorLate(e) ==
    Started(e, Delay + 1) /\ interrupted' = [interrupted EXCEPT ![e] = FALSE]
StartExecutorStale(e) ==
    Started(e, Delay) /\ UNCHANGED interrupted

\* reset(new TimeoutExecutor), then start(): *_running is false in a new one.
\* The old executor is deleted, its thread keeps the flags it has copied.
StartExecutor(e) ==
    Started(e, Delay) /\ interrupted' = [interrupted EXCEPT ![e] = FALSE]

-----------------------------------------------------------------------------
(* The executor's thread. *)

Goto(e, state) == thread' = [thread EXCEPT ![e] = state]

\* It copies the flags and the function out of the executor it captured by
\* reference; by then the executor may be gone.
CopyFlags(e) ==
    /\ thread[e] = "started"
    /\ Goto(e, "sleeping")
    /\ IF e = current THEN UNCHANGED undefined ELSE undefined' \in {undefined, TRUE}
    /\ UNCHANGED <<current, interrupted, left, linkVars, quiet, pings, serviceVars>>

\* Mutant of TestInterrupt: the flag is not looked at.
TestNothing(e) ==
    /\ thread[e] = "sleeping" /\ left[e] = 0
    /\ Goto(e, "firing")
    /\ UNCHANGED <<current, interrupted, left, linkVars, quiet, pings, serviceVars, undefined>>

\* if (*_int == true): otherwise it is on its way to close().
TestInterrupt(e) ==
    /\ thread[e] = "sleeping" /\ left[e] = 0
    /\ Goto(e, IF interrupted[e] THEN "free" ELSE "firing")
    /\ UNCHANGED <<current, interrupted, left, linkVars, quiet, pings, serviceVars, undefined>>

\* webSocket.close() returns early on a link that is closed or closing.
CloseLink == link' = IF link = "open" THEN "closing" ELSE link

\* SignalService::close: whatever link there is by now, if there is a service.
Fire(e) ==
    /\ thread[e] = "firing"
    /\ Goto(e, "free")
    /\ CloseLink
    /\ undefined' = (undefined \/ service = "gone")
    /\ UNCHANGED <<current, interrupted, left, owner, quiet, pings, serviceVars>>

-----------------------------------------------------------------------------
(* The link and time. *)

\* The link ends, at our request or on its own.  _onClose leaves the executor
\* running.
LinkCloses ==
    /\ link \in {"open", "closing"} /\ pings = "idle"
    /\ link' = "closed" /\ owner' = None
    /\ UNCHANGED <<current, thread, interrupted, left, quiet, pings, serviceVars, undefined>>

\* The run loop reconnects until the websocket itself is destroyed.
Reconnect ==
    /\ link = "closed" /\ service /= "gone" /\ pings = "idle"
    /\ link' = "open"
    /\ UNCHANGED <<current, thread, interrupted, left, owner, quiet, pings, serviceVars,
                   undefined>>

Tick ==
    /\ left' = [e \in Executors |->
                  IF thread[e] = "sleeping" /\ left[e] > 0 THEN left[e] - 1 ELSE left[e]]
    /\ quiet' = IF quiet < Delay THEN quiet + 1 ELSE quiet
    /\ UNCHANGED <<current, thread, interrupted, linkVars, pings, serviceVars, undefined>>

-----------------------------------------------------------------------------
(* ~SignalService, while the websocket thread goes on. *)

\* It reads _heartbeatExecutor without a lock, perhaps as _onPing resets it.
DestroyInterrupts ==
    /\ service = "alive" /\ service' = "interrupted"
    /\ IF current = None THEN UNCHANGED interrupted ELSE Interrupt(current)
    /\ IF pings = "idle" THEN UNCHANGED undefined ELSE undefined' \in {undefined, TRUE}
    /\ UNCHANGED <<current, thread, left, linkVars, quiet, pings, orphan>>

DestroyCloses ==
    /\ service = "interrupted" /\ service' = "closed"
    /\ CloseLink
    /\ UNCHANGED <<current, thread, interrupted, left, owner, quiet, pings, orphan, undefined>>

\* The callbacks, the room and the executor, in the reverse of their order.
DestroyMembers ==
    /\ service = "closed" /\ service' = "members"
    /\ current' = None
    /\ UNCHANGED <<thread, interrupted, left, linkVars, quiet, pings, orphan, undefined>>

\* The websocket last: its destructor stops and joins the thread.
DestroyWebSocket ==
    /\ service = "members" /\ service' = "gone"
    /\ pings = "idle"
    /\ link' = "closed" /\ owner' = None
    /\ UNCHANGED <<current, thread, interrupted, left, quiet, pings, orphan, undefined>>

Destroy ==
    DestroyInterrupts \/ DestroyCloses \/ DestroyMembers \/ DestroyWebSocket

ExecutorThread(e) == CopyFlags(e) \/ TestInterrupt(e) \/ Fire(e)

Next ==
    \/ OnPing \/ \E e \in Executors : StartExecutor(e)
    \/ \E e \in Executors : ExecutorThread(e)
    \/ LinkCloses \/ Reconnect \/ Destroy
    \/ Tick

Spec == Init /\ [][Next]_vars

\* Time passes, threads run, a ping begun is handled, a destructor begun goes on,
\* and a link asked to close does.
FairSpec ==
    /\ Spec
    /\ WF_vars(Tick)
    /\ WF_vars(\E e \in Executors : StartExecutor(e))
    /\ \A e \in Executors : WF_vars(ExecutorThread(e))
    /\ WF_vars(DestroyCloses)
    /\ WF_vars(link = "closing" /\ LinkCloses)

-----------------------------------------------------------------------------
(* Properties. *)

\* Types of the executors' flags, of the link and of the service.
TypeOK ==
    /\ current \in Executors \cup {None} /\ owner \in Executors \cup {None}
    /\ thread \in [Executors -> {"free", "started", "sleeping", "firing"}]
    /\ interrupted \in [Executors -> BOOLEAN]
    /\ left \in [Executors -> 0 .. Delay]
    /\ link \in {"open", "closing", "closed"} /\ quiet \in 0 .. Delay
    /\ pings \in {"idle", "start"}
    /\ service \in {"alive", "interrupted", "closed", "members", "gone"}
    /\ orphan \in BOOLEAN /\ undefined \in BOOLEAN

\* The properties speak of runs in which no thread has read what was deleted, and
\* no ping was handled between the destructor's interrupt and its end.

Sound == ~undefined /\ ~orphan

\* However many pings came before, at most one thread that is still waiting
\* can close the websocket, and it is the one of the latest ping; the destructor
\* leaves none.
OnlyLatestArmed ==
    \A e \in Executors :
        (Sound /\ thread[e] \in {"started", "sleeping"} /\ ~interrupted[e])
            => e = current /\ service = "alive"

\* A thread decides to close only after Delay without a ping on any link, and
\* never once the destructor has begun, however late its sleep ends.
DecidesAfterSilence ==
    [][\A e \in Executors :
          (thread[e] = "sleeping" /\ thread'[e] = "firing" /\ Sound)
              => quiet = Delay /\ service = "alive"]_vars

\* A link that was pinged and falls silent is closed: pinged again, it has a
\* newer executor.
SilentLinkCloses ==
    \A e \in Executors :
        (owner = e /\ link = "open") ~> (owner /= e \/ link /= "open" \/ undefined)
=============================================================================
