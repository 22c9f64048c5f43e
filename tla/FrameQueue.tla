----------------------------- MODULE FrameQueue -----------------------------
(***************************************************************************)
(* What each of the two frame rings of struct radif promises: a FIFO queue *)
(* of at most Capacity frames between one producer and one consumer, one   *)
(* of which is an interrupt handler that preempts the other.               *)
(***************************************************************************)
EXTENDS Naturals, Sequences

CONSTANTS Frame, Capacity

VARIABLES
    in,      \* the frame the producer has at hand
    queue    \* the frames published and not yet given up by the consumer

Init == in \in Frame /\ queue = <<>>

\* The producer prepares a frame.
Offer == in' \in Frame /\ UNCHANGED queue

\* It publishes the frame at hand.
Put ==
    /\ Len(queue) < Capacity
    /\ in' \in Frame
    /\ queue' = Append(queue, in')

\* The consumer gives up the oldest frame.
Take == queue # <<>> /\ queue' = Tail(queue) /\ UNCHANGED in

Next == Offer \/ Put \/ Take

Spec == Init /\ [][Next]_<<in, queue>>
=============================================================================
