----------------------------- MODULE MCWebSocket -----------------------------
(* One or two threads that send, one timer, and the thread that stops.  A    *)
(* poll reads at most two frames, two only about a close frame.              *)
EXTENDS WebSocket

CONSTANTS sender, other, timer

MCSenders == {sender}
MCTwoSenders == {sender, other}
MCTimers == {timer}
MCFrames == {<<>>, <<"message">>, <<"ping">>, <<"close">>}
MCBatches == MCFrames \cup {<<"close", "message">>, <<"message", "close">>}
=============================================================================
