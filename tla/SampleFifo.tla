------------------------------ MODULE SampleFifo ------------------------------
(***************************************************************************)
(* What the upload thread expects of the ring buffer: a queue of samples   *)
(* into which the host puts blocks and from which a read delivers some     *)
(* samples in order and then takes them out.  A sample is its place in the *)
(* stream.  The queue promises nothing once a block has been put into it   *)
(* that did not fit.                                                       *)
(***************************************************************************)
EXTENDS Integers, Sequences

CONSTANTS
    Capacity,   \* the queue holds fewer samples than this
    FrameSize   \* samples of a frame, one for each channel

VARIABLES
    next,       \* the place in the stream of the next sample put
    queue,      \* samples put and not taken out
    delivered,  \* samples the read under way has got so far
    overflowed  \* a block did not fit

vars == <<next, queue, delivered, overflowed>>

Init ==
    /\ next = 0 /\ queue = <<>> /\ delivered = <<>>
    /\ overflowed = FALSE

\* The n samples of a block appear in the queue at once.
Put(n) ==
    /\ Len(queue) + n < Capacity
    /\ queue' = queue \o [i \in 1 .. n |-> next + i - 1]
    /\ next' = next + n
    /\ UNCHANGED <<delivered, overflowed>>

Deliver ==
    /\ Len(delivered) < Len(queue)
    /\ delivered' = Append(delivered, queue[Len(delivered) + 1])
    /\ UNCHANGED <<next, queue, overflowed>>

\* The read ends: what was delivered leaves the queue, and nothing else.
Take ==
    /\ queue' = SubSeq(queue, Len(delivered) + 1, Len(queue))
    /\ delivered' = <<>>
    /\ UNCHANGED <<next, overflowed>>

Discard ==
    /\ queue' = <<>>
    /\ UNCHANGED <<next, delivered, overflowed>>

Next ==
    \/ /\ ~overflowed
       /\ \/ \E frames \in 0 .. Capacity : Put(FrameSize * frames)
          \/ Deliver \/ Take \/ Discard
    \/ overflowed'

Spec == Init /\ [][Next]_vars
=============================================================================
