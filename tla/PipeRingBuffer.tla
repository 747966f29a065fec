--------------------------- MODULE PipeRingBuffer ----------------------------
(***************************************************************************)
(* PipeRingBuffer of os/src/fs/pipe.rs as operators on its value: the      *)
(* array, the two indices and the status that tells a full buffer from an  *)
(* empty one.                                                              *)
(***************************************************************************)
EXTENDS Integers, Sequences

CONSTANTS
    RING_BUFFER_SIZE,   \* 32 in the build
    Bytes,
    Zero                \* the byte the array is filled with

ASSUME RingAssumption ==
    /\ RING_BUFFER_SIZE \in Nat \ {0}
    /\ Zero \in Bytes

Index == 0 .. (RING_BUFFER_SIZE - 1)

RingBuffers ==
    [arr : [Index -> Bytes], head : Index, tail : Index, status : {"Full", "Empty", "Normal"}]

\* PipeRingBuffer::new
new_ring_buffer ==
    [arr |-> [i \in Index |-> Zero], head |-> 0, tail |-> 0, status |-> "Empty"]

write_byte(r, byte) ==
    LET tail == (r.tail + 1) % RING_BUFFER_SIZE
    IN  [arr    |-> [r.arr EXCEPT ![r.tail] = byte],
         head   |-> r.head,
         tail   |-> tail,
         status |-> IF tail = r.head THEN "Full" ELSE "Normal"]

\* A plausible bug: Empty is never recorded.
read_byte_no_empty(r) ==
    [arr    |-> r.arr,
     head   |-> (r.head + 1) % RING_BUFFER_SIZE,
     tail   |-> r.tail,
     status |-> "Normal"]

\* The buffer after read_byte; the byte it returns is arr[head].
read_byte(r) ==
    LET head == (r.head + 1) % RING_BUFFER_SIZE
    IN  [arr    |-> r.arr,
         head   |-> head,
         tail   |-> r.tail,
         status |-> IF head = r.tail THEN "Empty" ELSE "Normal"]

available_read(r) ==
    IF r.status = "Empty" THEN 0
    ELSE IF r.tail > r.head THEN r.tail - r.head
    ELSE r.tail + RING_BUFFER_SIZE - r.head

available_write(r) ==
    IF r.status = "Full" THEN 0 ELSE RING_BUFFER_SIZE - available_read(r)

----------------------------------------------------------------------------
(* Runs of the inner loops of Pipe::read and Pipe::write *)

\* The buffer after k calls of read_byte.
read_bytes(r, k) ==
    LET after[i \in 0 .. k] == IF i = 0 THEN r ELSE read_byte(after[i - 1]) IN after[k]

\* The bytes k calls of read_byte return.
bytes_read(r, k) ==
    LET after[i \in 0 .. k] == IF i = 0 THEN r ELSE read_byte(after[i - 1])
    IN  [i \in 1 .. k |-> after[i - 1].arr[after[i - 1].head]]

\* The buffer after write_byte for the first k bytes of s.
write_bytes(r, s, k) ==
    LET after[i \in 0 .. k] == IF i = 0 THEN r ELSE write_byte(after[i - 1], s[i]) IN after[k]

----------------------------------------------------------------------------

\* The bytes in the buffer, the oldest first.
Contents(r) ==
    [i \in 1 .. available_read(r) |-> r.arr[(r.head + (i - 1)) % RING_BUFFER_SIZE]]

\* The indices and the status agree: equal indices mean full or empty, and
\* different ones mean neither.
StatusOK(r) == r.status = "Normal" <=> r.head # r.tail

=============================================================================
