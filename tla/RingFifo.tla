------------------------------ MODULE RingFifo -------------------------------
(***************************************************************************)
(* A pipe's ring buffer used byte by byte, as the inner loops of           *)
(* Pipe::read and Pipe::write in os/src/fs/pipe.rs use it, implements a    *)
(* bounded FIFO queue.                                                     *)
(***************************************************************************)
EXTENDS PipeRingBuffer

VARIABLES
    ring,   \* the PipeRingBuffer
    out     \* the byte read_byte returned last

ringVars == <<ring, out>>

\* The array, the indices and the status have their types.
TypeOK == ring \in RingBuffers /\ out \in Seq(Bytes)

Init == ring = new_ring_buffer /\ out = <<>>

\* One round of the for loop of Pipe::write, which runs available_write times.
Write(b) ==
    /\ available_write(ring) > 0
    /\ ring' = write_byte(ring, b)
    /\ UNCHANGED out

\* One round of the for loop of Pipe::read, which runs available_read times.
Read ==
    /\ available_read(ring) > 0
    /\ out' = <<ring.arr[ring.head]>>
    /\ ring' = read_byte(ring)

Next == Read \/ \E b \in Bytes : Write(b)

Spec == Init /\ [][Next]_ringVars

Fifo == INSTANCE BoundedFifo WITH Capacity <- RING_BUFFER_SIZE, queue <- Contents(ring)

\* The ring buffer implements the bounded FIFO: wrapping indices and the
\* full/empty status never lose, repeat or reorder a byte, and never let in
\* more than RING_BUFFER_SIZE of them.
ImplementsFifo == Fifo!Spec

\* Every byte of room is usable: what is in the buffer and what may still be
\* written add up to the size of the array, also when the indices are equal.
RoomExact ==
    /\ StatusOK(ring)
    /\ available_read(ring) + available_write(ring) = RING_BUFFER_SIZE

=============================================================================
