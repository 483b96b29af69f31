------------------------------ MODULE RateReports ------------------------------
(***************************************************************************)
(* What the rest of the plugin expects of an upload buffer's reports: a    *)
(* change of the output rate makes one due, others may ask for one too,    *)
(* and one is no longer due only when the rate in force has been reported. *)
(***************************************************************************)

CONSTANTS
    Values,   \* rates
    NoValue   \* no rate was reported yet

VARIABLES
    rate,     \* the output rate in force
    due,      \* the upload thread has a report to make
    reported  \* the rate last given to _onReadyCb

vars == <<rate, due, reported>>

Init == rate \in Values /\ due = TRUE /\ reported = NoValue

Change(r) == rate' = r /\ due' = TRUE /\ UNCHANGED reported

AskForUpdate == due' = TRUE /\ UNCHANGED <<rate, reported>>

\* A change whose store has been seen and whose flag has not keeps it due.
Report ==
    /\ due /\ due' \in BOOLEAN
    /\ reported' = rate
    /\ UNCHANGED rate

Next == (\E r \in Values : Change(r)) \/ AskForUpdate \/ Report

Spec == Init /\ [][Next]_vars
===============================================================================
