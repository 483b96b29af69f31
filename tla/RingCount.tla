------------------------------- MODULE RingCount -------------------------------
(***************************************************************************)
(* What an upload buffer relies on in its ring: how far apart the two      *)
(* positions are, modulo the length.  A block moves them apart by its      *)
(* size, and a read brings them together by what it was sized at; a size   *)
(* torn between its loads may come out a lap short, and nothing is read,   *)
(* or a lap long, which takes the same samples and a whole lap.            *)
(***************************************************************************)
EXTENDS Integers

CONSTANTS
    Length,  \* of the ring, in the unit of the counts
    Blocks   \* sizes of a block

VARIABLES
    unread,  \* from the read position to the write position
    sized    \* what the read under way has to take

vars == <<unread, sized>>

Init == unread = 0 /\ sized = 0

Put(n) == unread' = (unread + n) % Length /\ UNCHANGED sized

Size == sized = 0 /\ sized' \in {unread, 0} /\ UNCHANGED unread

Take == unread' = (unread - sized) % Length /\ sized' = 0

Discard == sized = 0 /\ unread' = 0 /\ UNCHANGED sized

Next == (\E n \in Blocks : Put(n)) \/ Size \/ Take \/ Discard

Spec == Init /\ [][Next]_vars
===============================================================================
