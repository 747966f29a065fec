----------------------------- MODULE BoundedFifo -----------------------------
(***************************************************************************)
(* What the ring buffer of a pipe promises byte by byte: a queue of at     *)
(* most Capacity bytes that come out in the order in which they went in.   *)
(***************************************************************************)
EXTENDS Integers, Sequences

CONSTANTS Bytes, Capacity

VARIABLES
    queue,  \* the bytes put in and not taken out yet
    out     \* the byte taken out last, as a sequence of length at most 1

Init == queue = <<>> /\ out = <<>>

Put(b) ==
    /\ Len(queue) < Capacity
    /\ queue' = Append(queue, b)
    /\ UNCHANGED out

Get ==
    /\ queue # <<>>
    /\ out' = <<Head(queue)>>
    /\ queue' = Tail(queue)

Next == Get \/ \E b \in Bytes : Put(b)

Spec == Init /\ [][Next]_<<queue, out>>

=============================================================================
