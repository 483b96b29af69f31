------------------------------ MODULE SignalLink ------------------------------
(***************************************************************************)
(* What SignalService relies on in its websocket.  The loop's thread       *)
(* connects, reports the Open, takes texts in and handles them one at a    *)
(* time.  A Close runs on the thread that found the connection gone: the   *)
(* loop, between two handlers, or one other thread whose send failed, at   *)
(* any later moment.  The state is stored when the Close is over.          *)
(***************************************************************************)

VARIABLES
    up,         \* the connection exists at the transport
    readyState, \* "closed", "open" or "closing"
    place,      \* the loop: "connecting", "opening" until its Open, "closing" in
                \* its Close, "run" otherwise
    left,       \* a text was received and is not handled
    asked,      \* a thread has found the link open and will ask to close it
    other       \* a thread whose send "failed", or "closing" in its Close

vars == <<up, readyState, place, left, asked, other>>

Init ==
    /\ up = FALSE /\ readyState = "closed" /\ place = "run" /\ left = FALSE
    /\ asked = FALSE /\ other = "idle"

Try ==
    /\ place = "run" /\ readyState = "closed" /\ ~left
    /\ place' = "connecting"
    /\ UNCHANGED <<up, readyState, left, asked, other>>

GiveUp ==
    /\ place = "connecting" /\ place' = "run"
    /\ UNCHANGED <<up, readyState, left, asked, other>>

Connect ==
    /\ place = "connecting" /\ ~up
    /\ up' = TRUE /\ readyState' = "open" /\ place' = "opening"
    /\ UNCHANGED <<left, asked, other>>

Open ==
    /\ place = "opening" /\ place' = "run"
    /\ UNCHANGED <<up, readyState, left, asked, other>>

Drop ==
    /\ up /\ up' = FALSE
    /\ UNCHANGED <<readyState, place, left, asked, other>>

BeginClose ==
    /\ place = "run" /\ ~up /\ readyState /= "closed"
    /\ place' = "closing"
    /\ UNCHANGED <<up, readyState, left, asked, other>>

EndClose ==
    /\ place = "closing" /\ place' = "run"
    /\ readyState' = "closed"
    /\ UNCHANGED <<up, left, asked, other>>

\* The socket is closed at once, whichever it is by now ...
Fail ==
    /\ other = "idle" /\ other' = "failed"
    /\ up' = FALSE
    /\ UNCHANGED <<readyState, place, left, asked>>

\* ... and the Close is that of the link that is open then, if there is one.
BeginOther ==
    /\ other = "failed"
    /\ other' = IF readyState = "closed" THEN "idle" ELSE "closing"
    /\ UNCHANGED <<up, readyState, place, left, asked>>

EndOther ==
    /\ other = "closing" /\ other' = "idle"
    /\ readyState' = "closed"
    /\ UNCHANGED <<up, place, left, asked>>

Ask ==
    /\ readyState = "open" /\ asked' = TRUE
    /\ UNCHANGED <<up, readyState, place, left, other>>

\* Whatever the state is by now.
StoreClosing ==
    /\ asked /\ readyState' = "closing" /\ asked' \in BOOLEAN
    /\ UNCHANGED <<up, place, left, other>>

Arrive ==
    /\ place = "run" /\ left' = TRUE
    /\ UNCHANGED <<up, readyState, place, asked, other>>

Handle ==
    /\ place = "run" /\ left /\ left' \in BOOLEAN
    /\ UNCHANGED <<up, readyState, place, asked, other>>

Next ==
    \/ Try \/ GiveUp \/ Connect \/ Open \/ Drop
    \/ BeginClose \/ EndClose \/ Fail \/ BeginOther \/ EndOther
    \/ Ask \/ StoreClosing \/ Arrive \/ Handle

Spec == Init /\ [][Next]_vars
===============================================================================
