---------------------------- MODULE BoundedQueue ----------------------------
(***************************************************************************)
(* What a driver's FIFO promises: a queue of bounded length.  A byte is    *)
(* put at its end, if there is room for it, or the first one leaves.       *)
(***************************************************************************)
EXTENDS Integers, Sequences

CONSTANTS Capacity, Byte

VARIABLE queue

Init == queue = <<>>

Put == \E x \in Byte : Len(queue) < Capacity /\ queue' = Append(queue, x)

Get == queue # <<>> /\ queue' = Tail(queue)

Spec == Init /\ [][Put \/ Get]_queue
=============================================================================
