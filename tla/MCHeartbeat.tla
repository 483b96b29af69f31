----------------------------- MODULE MCHeartbeat -----------------------------
(* Heartbeat with three executors whose threads overlap, and a delay of two *)
(* ticks: pings come before, between and after them.                        *)
EXTENDS Heartbeat

CONSTANTS e1, e2, e3, none

MCExecutors == {e1, e2, e3}
MCDelay     == 2
==============================================================================
