--------------------------- MODULE RingFifoProofs ----------------------------
(***************************************************************************)
(* For every size of the array, the ring buffer of a pipe implements the   *)
(* bounded FIFO.                                                           *)
(***************************************************************************)
EXTENDS RingFifo, RingBufferProofs

RingInv == TypeOK /\ StatusOK(ring)

\* The new buffer is empty.
LEMMA InitRing == Init => RingInv /\ Contents(ring) = <<>>
<1> SUFFICES ASSUME Init PROVE RingInv /\ Contents(ring) = <<>>
  OBVIOUS
<1>1. RING_BUFFER_SIZE \in Nat \ {0} /\ Zero \in Bytes
  BY RingAssumption
<1>2. 0 \in Index /\ [i \in Index |-> Zero] \in [Index -> Bytes]
  BY <1>1 DEF Index
<1>3. ring \in RingBuffers /\ StatusOK(ring) /\ ring.status = "Empty"
  BY <1>2 DEF Init, new_ring_buffer, RingBuffers, StatusOK
<1>4. Contents(ring) \in Seq(Bytes) /\ Len(Contents(ring)) = 0
  BY <1>3, RingFacts, ContentsType
<1>5. Contents(ring) = <<>>
  BY <1>4, EmptySeq
<1>6. out \in Seq(Bytes)
  BY EmptySeq DEF Init
<1>7. QED
  BY <1>3, <1>5, <1>6 DEF RingInv, TypeOK

\* A step on the ring buffer keeps its invariant and is a step of the FIFO.
LEMMA NextRing ==
    RingInv /\ [Next]_ringVars => RingInv' /\ [Fifo!Next]_<<Contents(ring), out>>
<1> SUFFICES ASSUME RingInv, [Next]_ringVars
             PROVE  RingInv' /\ [Fifo!Next]_<<Contents(ring), out>>
  OBVIOUS
<1>1. ring \in RingBuffers /\ StatusOK(ring) /\ out \in Seq(Bytes)
  BY DEF RingInv, TypeOK
<1>2. CASE UNCHANGED ringVars
  BY <1>1, <1>2 DEF RingInv, TypeOK, ringVars
<1>3. ASSUME NEW b \in Bytes, Write(b)
      PROVE  RingInv' /\ [Fifo!Next]_<<Contents(ring), out>>
  <2>1. available_write(ring) > 0 /\ ring' = write_byte(ring, b) /\ out' = out
    BY <1>3 DEF Write
  <2>2. /\ ring' \in RingBuffers /\ StatusOK(ring')
        /\ Contents(ring') = Append(Contents(ring), b)
    BY <1>1, <2>1, WriteAppends
  <2>3. Len(Contents(ring)) < RING_BUFFER_SIZE
    <3>1. /\ Len(Contents(ring)) = available_read(ring)
          /\ available_write(ring) = RING_BUFFER_SIZE - available_read(ring)
          /\ available_read(ring) \in 0 .. RING_BUFFER_SIZE
      BY <1>1, RingFacts, ContentsType
    <3>2. QED
      BY <2>1, <3>1, RingAssumption
  <2>4. Fifo!Put(b)
    BY <2>1, <2>2, <2>3 DEF Fifo!Put
  <2>5. QED
    BY <1>1, <2>1, <2>2, <2>4 DEF RingInv, TypeOK, Fifo!Next
<1>4. CASE Read
  <2>1. available_read(ring) > 0 /\ out' = <<ring.arr[ring.head]>> /\ ring' = read_byte(ring)
    BY <1>4 DEF Read
  <2>2. /\ ring' \in RingBuffers /\ StatusOK(ring')
        /\ Contents(ring) # <<>>
        /\ ring.arr[ring.head] = Head(Contents(ring))
        /\ ring.arr[ring.head] \in Bytes
        /\ Contents(ring') = Tail(Contents(ring))
    BY <1>1, <2>1, ReadTakesHead
  <2>3. Fifo!Get
    BY <2>1, <2>2 DEF Fifo!Get
  <2>4. out' \in Seq(Bytes)
    BY <2>1, <2>2
  <2>5. QED
    BY <2>2, <2>3, <2>4 DEF RingInv, TypeOK, Fifo!Next
<1>5. QED
  BY <1>2, <1>3, <1>4 DEF Next

\* The invariant holds after any sequence of writes and reads.
LEMMA RingInvariant == Spec => []RingInv
<1>1. Init => RingInv
  BY InitRing
<1>2. RingInv /\ [Next]_ringVars => RingInv'
  BY NextRing
<1>3. QED
  BY <1>1, <1>2, PTL DEF Spec

\* The ring buffer of a pipe implements a FIFO queue of RING_BUFFER_SIZE bytes,
\* whatever the size.
THEOREM RingIsFifo == Spec => ImplementsFifo
<1>1. Init => Fifo!Init
  BY InitRing DEF Init, Fifo!Init
<1>2. RingInv /\ [Next]_ringVars => [Fifo!Next]_<<Contents(ring), out>>
  BY NextRing
<1>3. QED
  BY <1>1, <1>2, RingInvariant, PTL DEF Spec, ImplementsFifo, Fifo!Spec

\* All of the array is usable: the bytes in it and the room left add up.
THEOREM NoSlotWasted == Spec => []RoomExact
<1>1. RingInv => RoomExact
  <2> SUFFICES ASSUME RingInv PROVE RoomExact
    OBVIOUS
  <2>1. /\ available_write(ring) = RING_BUFFER_SIZE - available_read(ring)
        /\ available_read(ring) \in 0 .. RING_BUFFER_SIZE
    BY RingFacts DEF RingInv, TypeOK
  <2>2. QED
    BY <2>1, RingAssumption DEF RingInv, RoomExact
<1>2. QED
  BY <1>1, RingInvariant, PTL

=============================================================================
