------------------------------ MODULE PipeProofs -----------------------------
(***************************************************************************)
(* For every size of the ring buffer, every number of processes and every  *)
(* length of the calls, the pipe implements the byte stream.               *)
(***************************************************************************)
EXTENDS Pipe, RingBufferProofs

Calls == {NoCall} \cup {ReadCall(n) : n \in 0 .. MaxLen} \cup {WriteCall(s) : s \in Seqs}

\* RingHoldsRest is not inductive alone: the loops need the status of the ring
\* buffer to tell full from empty, and that nothing is sent after the end of the
\* stream needs that no writer, suspended or to come, is left once a read has
\* reported the end.
PipeInv ==
    /\ TypeOK
    /\ call \in [Procs -> Calls]
    /\ StatusOK(ring)
    /\ RingHoldsRest
    /\ eof => all_write_ends_closed /\ received = sent

\* A user buffer is a sequence of at most MaxLen bytes, and so are its parts.
LEMMA UserBuffers ==
    ASSUME NEW s \in Seqs
    PROVE  /\ s \in Seq(Bytes)
           /\ \A n \in 0 .. Len(s) : SubSeq(s, n + 1, Len(s)) \in Seqs
<1>1. PICK m \in 0 .. MaxLen : s \in [1 .. m -> Bytes]
  BY DEF Seqs
<1>2. MaxLen \in Nat /\ m \in Nat
  BY PipeAssumption
<1>3. s \in Seq(Bytes) /\ Len(s) = m
  BY <1>1, <1>2
<1>4. ASSUME NEW n \in 0 .. Len(s) PROVE SubSeq(s, n + 1, Len(s)) \in Seqs
  <2> DEFINE u == SubSeq(s, n + 1, Len(s))
  <2>1. u \in Seq(Bytes) /\ Len(u) = m - n
    <3>1. n + 1 \in 1 .. Len(s) + 1
      BY <1>2, <1>3
    <3>2. QED
      BY <1>2, <1>3, <3>1, SuffixFacts
  <2> HIDE DEF u
  <2>2. u \in [1 .. (m - n) -> Bytes] /\ m - n \in 0 .. MaxLen
    BY <1>2, <1>3, <2>1
  <2>3. QED
    BY <2>2 DEF Seqs, u
<1>5. QED
  BY <1>3, <1>4

\* A concatenation begins with its first part.
LEMMA PrefixOfConcat ==
    ASSUME NEW x \in Seq(Bytes), NEW y \in Seq(Bytes)
    PROVE  Stream!Begins(x, x \o y)
<1>1. x \o y \in Seq(Bytes) /\ Len(x \o y) = Len(x) + Len(y)
  OBVIOUS
<1>2. SubSeq(x \o y, 1, Len(x)) = x
  OBVIOUS
<1>3. QED
  BY <1>1, <1>2 DEF Stream!Begins

\* A new pipe is an empty stream.
LEMMA InitPipe == Init => PipeInv /\ Stream!Init
<1> SUFFICES ASSUME Init PROVE PipeInv /\ Stream!Init
  OBVIOUS
<1>1. 0 \in Index
  BY RingAssumption DEF Index
<1>2. ring \in RingBuffers /\ StatusOK(ring)
  BY <1>1, RingAssumption DEF Init, new_ring_buffer, RingBuffers, StatusOK
<1>3. Contents(ring) = <<>>
  <2>1. available_read(ring) = 0
    BY DEF Init, new_ring_buffer, available_read
  <2>2. QED
    BY <2>1 DEF Contents
<1>4. TypeOK /\ call \in [Procs -> Calls]
  <2>1. <<>> \in Seq(Bytes)
    OBVIOUS
  <2>2. call \in [Procs -> Calls]
    BY DEF Init, Calls
  <2>3. QED
    BY <1>2, <2>1, <2>2 DEF Init, TypeOK, Calls
<1>5. RingHoldsRest
  BY <1>3 DEF Init, RingHoldsRest
<1>6. QED
  BY <1>2, <1>4, <1>5 DEF Init, PipeInv, Stream!Init

\* A process that is not in a write stays out of it in a read, so the write ends
\* that are closed stay closed and the others stay open.
LEMMA SameWriters ==
    ASSUME call \in [Procs -> Calls], NEW p \in Procs, ~Writing(p),
           NEW c \in Calls, c.op # "write", call' = [call EXCEPT ![p] = c], UNCHANGED write_fd
    PROVE  all_write_ends_closed' <=> all_write_ends_closed
<1>1. \A q \in Procs : Writing(q)' <=> Writing(q)
  BY DEF Writing
<1>2. QED
  BY <1>1 DEF all_write_ends_closed

\* Pipe::read from one suspension to the next receives the next bytes.
LEMMA ReadKeeps ==
    ASSUME PipeInv, NEW p \in Procs, ~Writing(p), NEW want \in 0 .. MaxLen, read_loop(p, want)
    PROVE  PipeInv' /\ Stream!Receive
<1> DEFINE n == available_read(ring)
           c == Contents(ring)
<1>1. /\ ring \in RingBuffers /\ StatusOK(ring) /\ call \in [Procs -> Calls]
      /\ sent \in Seq(Bytes) /\ received \in Seq(Bytes) /\ eof \in BOOLEAN
      /\ read_fd \subseteq Procs /\ write_fd \subseteq Procs
      /\ received \o c = sent
      /\ eof => all_write_ends_closed /\ received = sent
  BY DEF PipeInv, TypeOK, RingHoldsRest
<1>2. /\ c \in Seq(Bytes) /\ Len(c) = n /\ n \in Nat /\ want \in Nat
      /\ want < n \/ want >= n
  <2>1. c \in Seq(Bytes) /\ Len(c) = n /\ n \in 0 .. RING_BUFFER_SIZE
    BY <1>1, ContentsFacts
  <2>2. RING_BUFFER_SIZE \in Nat
    BY RingAssumption
  <2>3. want \in Nat /\ n \in Nat
    BY <2>1, <2>2, PipeAssumption
  <2> HIDE DEF n, c
  <2>4. QED
    BY <2>1, <2>3
<1>3. PICK k \in 0 .. n :
         /\ ring' = read_bytes(ring, k)
         /\ received' = received \o bytes_read(ring, k)
         /\ \/ k < n /\ eof' = eof
            \/ k = n /\ eof' = (eof \/ (n < want /\ all_write_ends_closed))
  <2>1. CASE want < n
    <3>1. want \in 0 .. n
      BY <1>2, <2>1
    <3>2. ~(want >= n)
      BY <1>2, <2>1
    <3>3. /\ ring' = read_bytes(ring, want)
          /\ received' = received \o bytes_read(ring, want)
          /\ eof' = eof
      BY <3>2, Zenon DEF read_loop
    <3> HIDE DEF n
    <3>4. want < n /\ eof' = eof
      BY <2>1, <3>3 DEF n
    <3>5. QED
      BY <3>1, <3>3, <3>4, Zenon
  <2>2. CASE want >= n
    <3>1. n \in 0 .. n
      BY <1>2
    <3>2. ~(want < n)
      BY <1>2, <2>2
    <3>3. /\ ring' = read_bytes(ring, n)
          /\ received' = received \o bytes_read(ring, n)
          /\ eof' = (eof \/ (n < want /\ all_write_ends_closed))
      BY <3>2, Zenon DEF read_loop
    <3> HIDE DEF n
    <3>4. QED
      BY <3>1, <3>3, Zenon
  <2>3. QED
    BY <1>2, <2>1, <2>2
<1>4. PICK d \in Calls : d.op # "write" /\ call' = [call EXCEPT ![p] = d]
  <2>1. NoCall \in Calls /\ NoCall.op # "write"
    BY DEF Calls, NoCall
  <2>2. ASSUME want >= n PROVE ReadCall(want - n) \in Calls /\ ReadCall(want - n).op # "write"
    <3>1. want - n \in 0 .. MaxLen
      BY <1>2, <2>2, PipeAssumption
    <3>2. QED
      BY <3>1 DEF Calls, ReadCall
  <2> HIDE DEF n
  <2>3. QED
    BY <1>2, <2>1, <2>2 DEF read_loop, n
<1>5. UNCHANGED <<read_fd, write_fd, sent>>
  BY DEF read_loop
<1> DEFINE x == bytes_read(ring, k)
           y == Contents(ring')
<1>6. /\ ring' \in RingBuffers /\ StatusOK(ring')
      /\ x \in Seq(Bytes) /\ Len(x) = k /\ x \o y = c
  BY <1>1, <1>3, ReadBytes
<1>7. y \in Seq(Bytes)
  BY <1>6, ContentsFacts
<1>8. received' = received \o x
  BY <1>3
<1> HIDE DEF n, c, x, y
<1>9. received' \in Seq(Bytes) /\ received' \o y = sent
  <2>1. received \in Seq(Bytes) /\ x \in Seq(Bytes) /\ y \in Seq(Bytes)
    BY <1>1, <1>6, <1>7
  <2>2. received \o x \in Seq(Bytes)
    BY <2>1, ConcatProperties
  <2>3. (received \o x) \o y = received \o (x \o y)
    BY <2>1, ConcatThree, Zenon
  <2>4. QED
    BY <1>1, <1>6, <1>8, <2>2, <2>3
<1>10. k = n => received' = sent
  <2>1. Len(c) = Len(x) + Len(y) /\ Len(y) \in Nat
    BY <1>6, <1>7, ConcatProperties
  <2>2. k = n => Len(y) = 0
    BY <1>2, <1>6, <2>1
  <2>3. k = n => y = <<>>
    BY <1>7, <2>2, EmptySeq
  <2>4. QED
    BY <1>9, <2>3, ConcatEmptySeq
<1>11. ~(k < n /\ eof)
  <2>1. Len(sent) = Len(received) + n
    BY <1>1, <1>2, ConcatProperties
  <2>2. Len(received) \in Nat
    BY <1>1
  <2>3. QED
    BY <1>1, <1>2, <2>1, <2>2
<1>12. eof' => all_write_ends_closed /\ received' = sent
  BY <1>1, <1>3, <1>10, <1>11
<1>13. all_write_ends_closed' <=> all_write_ends_closed
  BY <1>1, <1>4, <1>5, SameWriters
<1>14. eof' \in BOOLEAN /\ eof' \in {eof, received' = sent}
  <2>1. eof' \in BOOLEAN
    BY <1>1, <1>3
  <2>2. CASE eof' = eof
    BY <2>1, <2>2
  <2>3. CASE eof' # eof
    <3>1. eof' = TRUE /\ k = n
      BY <1>1, <1>3, <2>1, <2>3
    <3>2. QED
      BY <1>10, <2>1, <3>1
  <2>4. QED
    BY <2>1, <2>2, <2>3
<1>15. call' \in [Procs -> Calls]
  BY <1>1, <1>4
<1>16. PipeInv'
  <2>1. TypeOK'
    BY <1>1, <1>5, <1>6, <1>9, <1>14, <1>15 DEF TypeOK, Calls
  <2>2. RingHoldsRest'
    BY <1>5, <1>9 DEF RingHoldsRest, y
  <2>3. QED
    BY <1>5, <1>6, <1>12, <1>13, <1>15, <2>1, <2>2 DEF PipeInv
<1>17. Stream!Receive
  <2>1. Stream!Begins(received, received')
    BY <1>1, <1>6, <1>8, PrefixOfConcat
  <2>2. Stream!Begins(received', sent)
    BY <1>7, <1>9, PrefixOfConcat
  <2>3. QED
    BY <1>5, <1>14, <2>1, <2>2 DEF Stream!Receive
<1>18. QED
  BY <1>16, <1>17

\* Pipe::write from one suspension to the next sends the next bytes, as far as
\* there is room and before any reader was told that the stream has ended.
LEMMA WriteKeeps ==
    ASSUME PipeInv, NEW p \in Procs, p \in write_fd \/ Writing(p), NEW rest \in Seqs,
           write_loop(p, rest)
    PROVE  PipeInv' /\ Stream!Send
<1> DEFINE n == available_write(ring)
           c == Contents(ring)
<1>1. /\ ring \in RingBuffers /\ StatusOK(ring) /\ call \in [Procs -> Calls]
      /\ sent \in Seq(Bytes) /\ received \in Seq(Bytes) /\ eof \in BOOLEAN
      /\ read_fd \subseteq Procs /\ write_fd \subseteq Procs
      /\ received \o c = sent
  BY DEF PipeInv, TypeOK, RingHoldsRest
<1>2. ~eof
  BY DEF PipeInv, all_write_ends_closed
<1>3. c \in Seq(Bytes) /\ n \in Nat /\ RING_BUFFER_SIZE \in Nat
  <2>1. /\ c \in Seq(Bytes)
        /\ available_read(ring) \in 0 .. RING_BUFFER_SIZE
        /\ n = RING_BUFFER_SIZE - available_read(ring)
    BY <1>1, ContentsFacts
  <2>2. RING_BUFFER_SIZE \in Nat
    BY RingAssumption
  <2> HIDE DEF n, c
  <2>3. QED
    BY <2>1, <2>2
<1>4. /\ rest \in Seq(Bytes) /\ Len(rest) \in Nat
      /\ \A i \in 0 .. Len(rest) : SubSeq(rest, i + 1, Len(rest)) \in Seqs
  BY UserBuffers
<1>5. PICK k \in 0 .. Len(rest) :
         /\ k <= n
         /\ ring' = write_bytes(ring, rest, k)
         /\ sent' = sent \o SubSeq(rest, 1, k)
  <2>1. CASE Len(rest) < n
    <3>1. Len(rest) \in 0 .. Len(rest) /\ Len(rest) <= n /\ ~(Len(rest) >= n)
      BY <1>3, <1>4, <2>1
    <3>2. SubSeq(rest, 1, Len(rest)) = rest
      BY <1>4, SubSeqFull
    <3> HIDE DEF n
    <3>3. QED
      BY <2>1, <3>1, <3>2 DEF write_loop, n
  <2>2. CASE Len(rest) >= n
    <3>1. n \in 0 .. Len(rest) /\ n <= n /\ ~(Len(rest) < n)
      BY <1>3, <1>4, <2>2
    <3> HIDE DEF n
    <3>2. QED
      BY <2>2, <3>1 DEF write_loop, n
  <2> HIDE DEF n
  <2>3. Len(rest) < n \/ Len(rest) >= n
    BY <1>3, <1>4
  <2>4. QED
    BY <2>1, <2>2, <2>3
<1>6. PICK d \in Calls : call' = [call EXCEPT ![p] = d]
  <2>1. NoCall \in Calls
    BY DEF Calls
  <2>2. ASSUME Len(rest) >= n PROVE WriteCall(SubSeq(rest, n + 1, Len(rest))) \in Calls
    <3>1. SubSeq(rest, n + 1, Len(rest)) \in Seqs
      BY <1>3, <1>4, <2>2
    <3>2. QED
      BY <3>1 DEF Calls
  <2> HIDE DEF n
  <2>3. QED
    BY <2>1, <2>2 DEF write_loop, n
<1>7. UNCHANGED <<read_fd, write_fd, received, eof>>
  BY DEF write_loop
<1> DEFINE u == SubSeq(rest, 1, k)
<1>8. ring' \in RingBuffers /\ StatusOK(ring') /\ Contents(ring') = c \o u
  BY <1>1, <1>4, <1>5, WriteBytes
<1>9. u \in Seq(Bytes)
  BY <1>4
<1> HIDE DEF n, c, u
<1>10. sent' = sent \o u
  BY <1>5 DEF u
<1>11. sent' \in Seq(Bytes)
  BY <1>1, <1>9, <1>10, ConcatProperties
<1>12. received \o (c \o u) = sent \o u
  <2>1. (received \o c) \o u = received \o (c \o u)
    BY <1>1, <1>3, <1>9, ConcatThree, Zenon
  <2>2. QED
    BY <1>1, <2>1
<1>13. call' \in [Procs -> Calls]
  BY <1>1, <1>6
<1>14. PipeInv'
  <2>1. TypeOK'
    BY <1>1, <1>7, <1>8, <1>11, <1>13 DEF TypeOK, Calls
  <2>2. RingHoldsRest'
    BY <1>7, <1>8, <1>10, <1>12 DEF RingHoldsRest
  <2>3. QED
    BY <1>2, <1>7, <1>8, <1>13, <2>1, <2>2 DEF PipeInv
<1>15. Len(sent') - Len(received) <= RING_BUFFER_SIZE
  <2> DEFINE e == Contents(ring')
  <2>1. e \in Seq(Bytes) /\ Len(e) = available_read(ring') /\ available_read(ring') \in 0 .. RING_BUFFER_SIZE
    BY <1>8, ContentsFacts
  <2>2. sent' = received \o e
    BY <1>8, <1>10, <1>12
  <2> HIDE DEF e
  <2>3. Len(sent') = Len(received) + Len(e)
    BY <1>1, <2>1, <2>2, ConcatProperties
  <2>4. Len(received) \in Nat
    BY <1>1
  <2>5. QED
    BY <1>3, <2>1, <2>3, <2>4
<1>16. Stream!Send
  <2>1. Stream!Begins(sent, sent')
    BY <1>1, <1>9, <1>10, PrefixOfConcat
  <2>2. QED
    BY <1>2, <1>7, <1>15, <2>1 DEF Stream!Send
<1>17. QED
  BY <1>14, <1>16

\* sys_close and exit touch neither the bytes nor the calls under way, and can
\* only close write ends.
LEMMA CloseKeeps ==
    ASSUME PipeInv, NEW p \in Procs, close_read(p) \/ close_write(p) \/ exit(p)
    PROVE  PipeInv' /\ UNCHANGED <<sent, received, eof>>
<1>1. /\ UNCHANGED <<ring, call, sent, received, eof>>
      /\ read_fd' \subseteq read_fd /\ write_fd' \subseteq write_fd
  BY DEF close_read, close_write, exit
<1>2. TypeOK' /\ RingHoldsRest'
  BY <1>1 DEF PipeInv, TypeOK, RingHoldsRest
<1>3. all_write_ends_closed => all_write_ends_closed'
  BY <1>1 DEF all_write_ends_closed, Writing
<1>4. QED
  BY <1>1, <1>2, <1>3 DEF PipeInv

\* Every step of the pipe keeps the invariant and is a step of the stream.
LEMMA NextPipe == PipeInv /\ [Next]_vars => PipeInv' /\ [Stream!Next]_<<sent, received, eof>>
<1> SUFFICES ASSUME PipeInv, [Next]_vars
             PROVE  PipeInv' /\ [Stream!Next]_<<sent, received, eof>>
  OBVIOUS
<1>1. \A p \in Procs : call[p] \in Calls
  BY DEF PipeInv
<1>2. ASSUME NEW p \in Procs, NEW len \in 0 .. MaxLen, sys_read(p, len)
      PROVE  PipeInv' /\ Stream!Receive
  <2>1. ~Writing(p) /\ read_loop(p, len)
    BY <1>2 DEF sys_read, Writing, NoCall
  <2>2. QED
    BY <2>1, ReadKeeps
<1>3. ASSUME NEW p \in Procs, NEW s \in Seqs, sys_write(p, s)
      PROVE  PipeInv' /\ Stream!Send
  BY <1>3, WriteKeeps DEF sys_write
<1>4. ASSUME NEW p \in Procs, resume_read(p)
      PROVE  PipeInv' /\ Stream!Receive
  <2>1. ~Writing(p) /\ read_loop(p, call[p].want)
    BY <1>4 DEF resume_read, Reading, Writing
  <2>2. call[p].want \in 0 .. MaxLen
    BY <1>1, <1>4 DEF resume_read, Reading, Calls, NoCall, ReadCall, WriteCall
  <2>3. QED
    BY <2>1, <2>2, ReadKeeps
<1>5. ASSUME NEW p \in Procs, resume_write(p)
      PROVE  PipeInv' /\ Stream!Send
  <2>1. Writing(p) /\ write_loop(p, call[p].rest)
    BY <1>5 DEF resume_write
  <2>2. call[p].rest \in Seqs
    BY <1>1, <1>5 DEF resume_write, Writing, Calls, NoCall, ReadCall, WriteCall
  <2>3. QED
    BY <2>1, <2>2, WriteKeeps
<1>6. ASSUME NEW p \in Procs, close_read(p) \/ close_write(p) \/ exit(p)
      PROVE  PipeInv' /\ UNCHANGED <<sent, received, eof>>
  BY <1>6, CloseKeeps
<1>7. CASE UNCHANGED vars
  BY <1>7 DEF vars, PipeInv, TypeOK, RingHoldsRest, all_write_ends_closed, Writing
<1>8. CASE Next
  BY <1>2, <1>3, <1>4, <1>5, <1>6, <1>8 DEF Next, Stream!Next
<1>9. QED
  BY <1>7, <1>8

\* PipeInv holds in every reachable state.
LEMMA PipeInvariant == Spec => []PipeInv
  BY InitPipe, NextPipe, PTL DEF Spec

----------------------------------------------------------------------------
(* The theorems *)

\* Every component keeps the values its Rust type allows; the indices of the
\* ring buffer never leave the array.
THEOREM PipeTypes == Spec => []TypeOK
<1>1. PipeInv => TypeOK
  BY DEF PipeInv
<1>2. QED
  BY <1>1, PipeInvariant, PTL

\* The ring buffer holds exactly the bytes that were sent and not received, in
\* their order, whatever the lengths of the calls and wherever they suspend.
THEOREM PipeHoldsRest == Spec => []RingHoldsRest
<1>1. PipeInv => RingHoldsRest
  BY DEF PipeInv
<1>2. QED
  BY <1>1, PipeInvariant, PTL

\* The pipe implements the byte stream: no byte is lost, duplicated or reordered
\* between any number of readers and writers, no more than RING_BUFFER_SIZE bytes
\* are under way, and nothing is sent after a reader was told of the end.
THEOREM PipeImplementsStream == Spec => ImplementsStream
<1>1. Init => Stream!Init
  BY InitPipe
<1>2. PipeInv /\ [Next]_vars => [Stream!Next]_<<sent, received, eof>>
  BY NextPipe
<1>3. QED
  BY <1>1, <1>2, PipeInvariant, PTL DEF Spec, ImplementsStream, Stream!Spec

=============================================================================
