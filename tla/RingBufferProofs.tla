-------------------------- MODULE RingBufferProofs ---------------------------
(***************************************************************************)
(* What the operations on a pipe's ring buffer do to its contents, for     *)
(* every size of the array: one byte at a time, and in the inner loops of  *)
(* Pipe::read and Pipe::write.                                             *)
(***************************************************************************)
EXTENDS PipeRingBuffer, DataStructureProofs, SequenceTheorems

\* The remainder of a number below twice the size of the array.
LEMMA ModOnce ==
    \A x \in 0 .. (2 * RING_BUFFER_SIZE - 1) :
        x % RING_BUFFER_SIZE = IF x < RING_BUFFER_SIZE THEN x ELSE x - RING_BUFFER_SIZE
<1> SUFFICES ASSUME NEW x \in 0 .. (2 * RING_BUFFER_SIZE - 1)
             PROVE  x % RING_BUFFER_SIZE = IF x < RING_BUFFER_SIZE THEN x ELSE x - RING_BUFFER_SIZE
  OBVIOUS
<1>1. RING_BUFFER_SIZE \in Nat \ {0}
  BY RingAssumption
<1>2. CASE x < RING_BUFFER_SIZE
  BY <1>1, <1>2
<1>3. CASE x >= RING_BUFFER_SIZE
  BY <1>1, <1>3
<1>4. QED
  BY <1>1, <1>2, <1>3

\* The components of a ring buffer, how many bytes it holds, and where the tail
\* is relative to the head.
LEMMA RingFacts ==
    ASSUME NEW r \in RingBuffers, StatusOK(r)
    PROVE  /\ r.arr \in [Index -> Bytes] /\ r.head \in Index /\ r.tail \in Index
           /\ available_read(r) \in 0 .. RING_BUFFER_SIZE
           /\ available_read(r) = 0 <=> r.status = "Empty"
           /\ available_read(r) = RING_BUFFER_SIZE <=> r.status = "Full"
           /\ available_write(r) = RING_BUFFER_SIZE - available_read(r)
           /\ r.tail = IF r.head + available_read(r) < RING_BUFFER_SIZE
                       THEN r.head + available_read(r)
                       ELSE r.head + available_read(r) - RING_BUFFER_SIZE
<1>1. RING_BUFFER_SIZE \in Nat \ {0}
  BY RingAssumption
<1>2. /\ r.arr \in [Index -> Bytes] /\ r.head \in Index /\ r.tail \in Index
      /\ r.status \in {"Full", "Empty", "Normal"}
  BY DEF RingBuffers
<1> DEFINE h == r.head
           t == r.tail
           N == RING_BUFFER_SIZE
           n == available_read(r)
           Goal == /\ n \in 0 .. N
                   /\ n = 0 <=> r.status = "Empty"
                   /\ n = N <=> r.status = "Full"
                   /\ available_write(r) = N - n
                   /\ t = IF h + n < N THEN h + n ELSE h + n - N
<1>3. /\ h \in Nat /\ h < N /\ t \in Nat /\ t < N /\ N \in Nat /\ N > 0
      /\ r.status = "Normal" <=> h # t
  BY <1>1, <1>2 DEF Index, StatusOK
<1>4. /\ n = IF r.status = "Empty" THEN 0 ELSE IF t > h THEN t - h ELSE t + N - h
      /\ available_write(r) = IF r.status = "Full" THEN 0 ELSE N - n
  BY Zenon DEF available_read, available_write
<1> HIDE DEF h, t, N, n
<1>5. Goal
  <2>1. CASE r.status = "Empty"
    <3>1. n = 0 /\ available_write(r) = N - n /\ h = t
      BY <1>3, <1>4, <2>1
    <3>2. QED
      BY <1>3, <2>1, <3>1
  <2>2. CASE r.status = "Full"
    <3>1. n = N /\ available_write(r) = 0 /\ h = t
      BY <1>3, <1>4, <2>2
    <3>2. QED
      BY <1>3, <2>2, <3>1
  <2>3. CASE r.status = "Normal"
    <3>1. available_write(r) = N - n /\ h # t
      BY <1>3, <1>4, <2>3
    <3>2. n = IF t > h THEN t - h ELSE t + N - h
      BY <1>4, <2>3
    <3>3. n \in 1 .. (N - 1) /\ t = IF h + n < N THEN h + n ELSE h + n - N
      BY <1>3, <3>1, <3>2
    <3>4. QED
      BY <1>3, <2>3, <3>1, <3>3
  <2>4. QED
    BY <1>2, <2>1, <2>2, <2>3
<1>6. QED
  BY <1>2, <1>5 DEF h, t, N, n

\* The contents are a sequence of bytes, one for each byte available.
LEMMA ContentsType ==
    ASSUME NEW r \in RingBuffers, StatusOK(r)
    PROVE  /\ Contents(r) \in Seq(Bytes)
           /\ Len(Contents(r)) = available_read(r)
           /\ \A i \in 1 .. available_read(r) :
                 /\ r.head + (i - 1) \in 0 .. (2 * RING_BUFFER_SIZE - 1)
                 /\ (r.head + (i - 1)) % RING_BUFFER_SIZE \in Index
                 /\ Contents(r)[i] = r.arr[(r.head + (i - 1)) % RING_BUFFER_SIZE]
<1> DEFINE n == available_read(r)
<1>1. RING_BUFFER_SIZE \in Nat \ {0}
  BY RingAssumption
<1>2. /\ r.arr \in [Index -> Bytes] /\ r.head \in Index
      /\ n \in 0 .. RING_BUFFER_SIZE
  BY RingFacts
<1>3. Contents(r) = [i \in 1 .. n |-> r.arr[(r.head + (i - 1)) % RING_BUFFER_SIZE]]
  BY DEF Contents
<1> HIDE DEF n
<1>4. \A i \in 1 .. n : r.head + (i - 1) \in 0 .. (2 * RING_BUFFER_SIZE - 1)
  BY <1>1, <1>2 DEF Index
<1>5. \A i \in 1 .. n : (r.head + (i - 1)) % RING_BUFFER_SIZE \in Index
  BY <1>1, <1>4 DEF Index
<1>6. Contents(r) \in [1 .. n -> Bytes]
  BY <1>2, <1>3, <1>5
<1>7. n \in Nat
  BY <1>1, <1>2
<1>8. Contents(r) \in Seq(Bytes) /\ Len(Contents(r)) = n
  BY <1>6, <1>7
<1>9. QED
  BY <1>3, <1>4, <1>5, <1>8 DEF n

\* write_byte on a buffer with room appends the byte to the contents.
LEMMA WriteAppends ==
    ASSUME NEW r \in RingBuffers, StatusOK(r), available_write(r) > 0, NEW b \in Bytes
    PROVE  /\ write_byte(r, b) \in RingBuffers
           /\ StatusOK(write_byte(r, b))
           /\ Contents(write_byte(r, b)) = Append(Contents(r), b)
<1> DEFINE w == write_byte(r, b)
           n == available_read(r)
           N == RING_BUFFER_SIZE
           h == r.head
           t == r.tail
           tail == (t + 1) % N
<1>1. N \in Nat /\ N > 0
  BY RingAssumption
<1>2. /\ r.arr \in [Index -> Bytes] /\ h \in Index /\ t \in Index
      /\ n \in Nat /\ n < N
      /\ t = IF h + n < N THEN h + n ELSE h + n - N
  BY <1>1, RingFacts
<1>3. /\ w.arr = [r.arr EXCEPT ![t] = b]
      /\ w.head = h
      /\ w.tail = tail
      /\ w.status = IF tail = h THEN "Full" ELSE "Normal"
      /\ w = [arr |-> w.arr, head |-> w.head, tail |-> w.tail, status |-> w.status]
  BY DEF write_byte
<1>4. Index = 0 .. (N - 1) /\ \A x \in 0 .. (2 * N - 1) : x % N = IF x < N THEN x ELSE x - N
  BY ModOnce DEF Index
<1>5. h \in Nat /\ h < N /\ t \in Nat /\ t < N
  BY <1>1, <1>2, <1>4
<1> HIDE DEF w, n, h, t, N
<1>6. tail = IF t + 1 < N THEN t + 1 ELSE t + 1 - N
  BY <1>1, <1>4, <1>5
<1> HIDE DEF tail
<1>7. tail \in Index
  BY <1>1, <1>4, <1>5, <1>6
<1>8. w \in RingBuffers /\ StatusOK(w)
  <2>1. w.arr \in [Index -> Bytes] /\ w.head \in Index /\ w.status \in {"Full", "Empty", "Normal"}
    BY <1>2, <1>3
  <2>2. w \in RingBuffers
    BY <1>3, <1>7, <2>1 DEF RingBuffers
  <2>3. QED
    BY <1>3, <2>2 DEF StatusOK
<1>9. available_read(w) = n + 1
  <2>1. available_read(w) = IF tail > h THEN tail - h ELSE tail + N - h
    BY <1>3 DEF available_read, N
  <2>2. QED
    BY <1>1, <1>2, <1>5, <1>6, <2>1
<1>10. /\ Contents(r) \in Seq(Bytes) /\ Len(Contents(r)) = n
       /\ \A i \in 1 .. n : Contents(r)[i] = r.arr[(h + (i - 1)) % N]
  BY ContentsType DEF n, h, N
<1>11. /\ Contents(w) \in Seq(Bytes) /\ Len(Contents(w)) = n + 1
       /\ \A i \in 1 .. (n + 1) : /\ (h + (i - 1)) % N \in Index
                                  /\ Contents(w)[i] = w.arr[(h + (i - 1)) % N]
  BY <1>3, <1>8, <1>9, ContentsType DEF N
<1>12. \A i \in 1 .. n : Contents(w)[i] = Contents(r)[i]
  <2> SUFFICES ASSUME NEW i \in 1 .. n PROVE Contents(w)[i] = Contents(r)[i]
    OBVIOUS
  <2> DEFINE k == (h + (i - 1)) % N
  <2>1. i \in 1 .. (n + 1)
    BY <1>2
  <2>2. h + (i - 1) \in 0 .. (2 * N - 1)
    BY <1>1, <1>2, <1>5
  <2>3. k = IF h + (i - 1) < N THEN h + (i - 1) ELSE h + (i - 1) - N
    BY <1>1, <1>4, <1>5, <2>2
  <2>4. k \in Index /\ Contents(w)[i] = w.arr[k] /\ Contents(r)[i] = r.arr[k]
    BY <1>10, <1>11, <2>1
  <2> HIDE DEF k
  <2>5. k # t
    BY <1>1, <1>2, <1>5, <2>3
  <2>6. QED
    BY <1>2, <1>3, <2>4, <2>5
<1>13. Contents(w)[n + 1] = b
  <2> DEFINE k == (h + ((n + 1) - 1)) % N
  <2>1. n + 1 \in 1 .. (n + 1)
    BY <1>2
  <2>2. h + n \in 0 .. (2 * N - 1) /\ h + ((n + 1) - 1) = h + n
    BY <1>1, <1>2, <1>5
  <2>3. k = IF h + n < N THEN h + n ELSE h + n - N
    BY <1>1, <1>2, <1>4, <1>5, <2>2
  <2>4. Contents(w)[n + 1] = w.arr[k]
    BY <1>11, <2>1
  <2> HIDE DEF k
  <2>5. k = t
    BY <1>2, <2>3
  <2>6. QED
    BY <1>2, <1>3, <2>4, <2>5
<1>14. /\ Append(Contents(r), b) \in Seq(Bytes)
       /\ Len(Append(Contents(r), b)) = n + 1
       /\ \A i \in 1 .. n : Append(Contents(r), b)[i] = Contents(r)[i]
       /\ Append(Contents(r), b)[n + 1] = b
  BY <1>10, AppendProperties
<1>15. \A i \in 1 .. (n + 1) : i \in 1 .. n \/ i = n + 1
  BY <1>2
<1>16. \A i \in 1 .. (n + 1) : Contents(w)[i] = Append(Contents(r), b)[i]
  BY <1>12, <1>13, <1>14, <1>15
<1>17. Contents(w) = Append(Contents(r), b)
  BY <1>11, <1>14, <1>16, SeqEqual
<1>18. QED
  BY <1>8, <1>17 DEF w

\* read_byte on a buffer that is not empty returns and removes the first byte.
LEMMA ReadTakesHead ==
    ASSUME NEW r \in RingBuffers, StatusOK(r), available_read(r) > 0
    PROVE  /\ read_byte(r) \in RingBuffers
           /\ StatusOK(read_byte(r))
           /\ Contents(r) # <<>>
           /\ r.arr[r.head] = Head(Contents(r))
           /\ r.arr[r.head] \in Bytes
           /\ Contents(read_byte(r)) = Tail(Contents(r))
<1> DEFINE d == read_byte(r)
           n == available_read(r)
           N == RING_BUFFER_SIZE
           h == r.head
           t == r.tail
           head == (h + 1) % N
<1>1. N \in Nat /\ N > 0
  BY RingAssumption
<1>2. /\ r.arr \in [Index -> Bytes] /\ h \in Index /\ t \in Index
      /\ n \in Nat /\ n > 0 /\ n <= N
      /\ t = IF h + n < N THEN h + n ELSE h + n - N
  BY <1>1, RingFacts
<1>3. /\ d.arr = r.arr
      /\ d.head = head
      /\ d.tail = t
      /\ d.status = IF head = t THEN "Empty" ELSE "Normal"
      /\ d = [arr |-> d.arr, head |-> d.head, tail |-> d.tail, status |-> d.status]
  BY DEF read_byte
<1>4. Index = 0 .. (N - 1) /\ \A x \in 0 .. (2 * N - 1) : x % N = IF x < N THEN x ELSE x - N
  BY ModOnce DEF Index
<1>5. h \in Nat /\ h < N /\ t \in Nat /\ t < N
  BY <1>1, <1>2, <1>4
<1> HIDE DEF d, n, h, t, N
<1>6. head = IF h + 1 < N THEN h + 1 ELSE h + 1 - N
  BY <1>1, <1>4, <1>5
<1> HIDE DEF head
<1>7. head \in Index /\ head \in Nat /\ head < N
  BY <1>1, <1>4, <1>5, <1>6
<1>8. d \in RingBuffers /\ StatusOK(d)
  <2>1. d.arr \in [Index -> Bytes] /\ d.tail \in Index /\ d.status \in {"Full", "Empty", "Normal"}
    BY <1>2, <1>3
  <2>2. d \in RingBuffers
    BY <1>3, <1>7, <2>1 DEF RingBuffers
  <2>3. QED
    BY <1>3, <2>2 DEF StatusOK
<1>9. available_read(d) = n - 1
  <2>1. CASE head = t
    <3>1. available_read(d) = 0
      BY <1>3, <2>1 DEF available_read
    <3>2. QED
      BY <1>1, <1>2, <1>5, <1>6, <2>1, <3>1
  <2>2. CASE head # t
    <3>1. available_read(d) = IF t > head THEN t - head ELSE t + N - head
      BY <1>3, <2>2 DEF available_read, N
    <3>2. QED
      BY <1>1, <1>2, <1>5, <1>6, <2>2, <3>1
  <2>3. QED
    BY <2>1, <2>2
<1>10. /\ Contents(r) \in Seq(Bytes) /\ Len(Contents(r)) = n
       /\ \A i \in 1 .. n : Contents(r)[i] = r.arr[(h + (i - 1)) % N]
  BY ContentsType DEF n, h, N
<1>11. /\ Contents(d) \in Seq(Bytes) /\ Len(Contents(d)) = n - 1
       /\ \A i \in 1 .. (n - 1) : Contents(d)[i] = r.arr[(head + (i - 1)) % N]
  BY <1>3, <1>8, <1>9, ContentsType DEF N
<1>12. Contents(r) # <<>>
  BY <1>2, <1>10, EmptySeq
<1>13. /\ Tail(Contents(r)) \in Seq(Bytes)
       /\ Len(Tail(Contents(r))) = n - 1
       /\ \A i \in 1 .. (n - 1) : Tail(Contents(r))[i] = Contents(r)[i + 1]
  BY <1>10, <1>12, HeadTailProperties
<1>14. \A i \in 1 .. (n - 1) : Contents(d)[i] = Tail(Contents(r))[i]
  <2> SUFFICES ASSUME NEW i \in 1 .. (n - 1) PROVE Contents(d)[i] = Tail(Contents(r))[i]
    OBVIOUS
  <2>1. i + 1 \in 1 .. n
    BY <1>2
  <2>2. /\ Contents(d)[i] = r.arr[(head + (i - 1)) % N]
        /\ Tail(Contents(r))[i] = r.arr[(h + ((i + 1) - 1)) % N]
    BY <1>10, <1>11, <1>13, <2>1
  <2>3. head + (i - 1) \in 0 .. (2 * N - 1) /\ h + ((i + 1) - 1) \in 0 .. (2 * N - 1)
    BY <1>1, <1>2, <1>5, <1>7
  <2>4. /\ (head + (i - 1)) % N = IF head + (i - 1) < N THEN head + (i - 1) ELSE head + (i - 1) - N
        /\ (h + ((i + 1) - 1)) % N =
              IF h + ((i + 1) - 1) < N THEN h + ((i + 1) - 1) ELSE h + ((i + 1) - 1) - N
    BY <1>1, <1>4, <1>5, <1>7, <2>3
  <2>5. (head + (i - 1)) % N = (h + ((i + 1) - 1)) % N
    BY <1>1, <1>2, <1>5, <1>6, <2>4
  <2>6. QED
    BY <2>2, <2>5
<1>15. Contents(d) = Tail(Contents(r))
  BY <1>11, <1>13, <1>14, SeqEqual
<1>16. r.arr[h] = Head(Contents(r)) /\ r.arr[h] \in Bytes
  <2>1. 1 \in 1 .. n /\ h + (1 - 1) = h /\ h \in 0 .. (2 * N - 1)
    BY <1>1, <1>2, <1>5
  <2>2. h % N = h
    BY <1>1, <1>4, <1>5, <2>1
  <2>3. Contents(r)[1] = r.arr[h]
    BY <1>10, <2>1, <2>2
  <2>4. Head(Contents(r)) = Contents(r)[1]
    BY <1>10, <1>12
  <2>5. QED
    BY <1>2, <2>3, <2>4
<1>17. QED
  BY <1>8, <1>12, <1>15, <1>16 DEF d, h

\* The contents are the bytes available, and the rest of the array is room.
LEMMA ContentsFacts ==
    ASSUME NEW r \in RingBuffers, StatusOK(r)
    PROVE  /\ Contents(r) \in Seq(Bytes)
           /\ Len(Contents(r)) = available_read(r)
           /\ available_read(r) \in 0 .. RING_BUFFER_SIZE
           /\ available_write(r) = RING_BUFFER_SIZE - available_read(r)
  BY RingFacts, ContentsType

\* On any ring buffer, also a full or an empty one, write_byte and read_byte
\* keep the indices inside the array.
LEMMA ByteTypes ==
    ASSUME NEW r \in RingBuffers, NEW b \in Bytes
    PROVE  write_byte(r, b) \in RingBuffers /\ read_byte(r) \in RingBuffers
<1>1. RING_BUFFER_SIZE \in Nat \ {0}
  BY RingAssumption
<1>2. \A x \in Nat : x % RING_BUFFER_SIZE \in Index
  BY <1>1 DEF Index
<1>3. r.arr \in [Index -> Bytes] /\ r.head \in Index /\ r.tail \in Index
  BY DEF RingBuffers
<1>4. r.head + 1 \in Nat /\ r.tail + 1 \in Nat
  BY <1>1, <1>3 DEF Index
<1>5. QED
  BY <1>2, <1>3, <1>4 DEF write_byte, read_byte, RingBuffers

----------------------------------------------------------------------------
(* What the inner loops of Pipe::read and Pipe::write do *)

\* The states of the ring buffer in the loop that writes k bytes of s.
LEMMA WriteStates ==
    ASSUME NEW a \in RingBuffers, NEW s \in Seq(Bytes), NEW k \in 0 .. Len(s)
    PROVE  \E r \in [0 .. k -> RingBuffers] :
              /\ r[0] = a
              /\ \A i \in 1 .. k : r[i] = write_byte(r[i - 1], s[i])
              /\ write_bytes(a, s, k) = r[k]
<1> DEFINE Loop(r) == [i \in 0 .. k |-> IF i = 0 THEN a ELSE write_byte(r[i - 1], s[i])]
           R == CHOOSE r : r = Loop(r)
           G == [i \in 1 .. k |-> [r \in RingBuffers |-> write_byte(r, s[i])]]
<1>1. k \in Nat /\ \A i \in 1 .. k : s[i] \in Bytes
  OBVIOUS
<1>2. G \in Rounds(k, RingBuffers)
  <2>1. \A i \in 1 .. k : \A r \in RingBuffers : write_byte(r, s[i]) \in RingBuffers
    BY <1>1, ByteTypes
  <2>2. QED
    BY <2>1 DEF Rounds
<1>3. PICK f : IsRun(f, k, RingBuffers, a, G)
  <2> HIDE DEF G
  <2>1. QED
    BY <1>1, <1>2, LoopRuns
<1>4. f \in [0 .. k -> RingBuffers] /\ f[0] = a /\ \A i \in 1 .. k : f[i] = write_byte(f[i - 1], s[i])
  <2>1. \A i \in 1 .. k : i - 1 \in 0 .. k
    BY <1>1
  <2>2. /\ f \in [0 .. k -> RingBuffers] /\ f[0] = a
        /\ \A i \in 1 .. k : f[i] = G[i][f[i - 1]]
    BY <1>3, Zenon DEF IsRun
  <2>3. \A i \in 1 .. k : f[i - 1] \in RingBuffers
    BY <2>1, <2>2
  <2>4. QED
    BY <2>2, <2>3
<1>5. f = Loop(f)
  <2>1. \A i \in 0 .. k : i = 0 \/ i \in 1 .. k
    BY <1>1
  <2>2. \A i \in 0 .. k : f[i] = IF i = 0 THEN a ELSE write_byte(f[i - 1], s[i])
    BY <1>4, <2>1
  <2>3. QED
    BY <1>4, <2>2
<1>6. R = Loop(R)
  BY <1>5, Zenon
<1>7. write_bytes(a, s, k) = R[k]
  BY Zenon DEF write_bytes
<1> HIDE DEF R
<1>8. R[0] = a /\ \A i \in 1 .. k : R[i] = write_byte(R[i - 1], s[i])
  <2>1. 0 \in 0 .. k /\ \A i \in 1 .. k : i \in 0 .. k /\ i # 0
    BY <1>1
  <2>2. \A i \in 0 .. k : R[i] = IF i = 0 THEN a ELSE write_byte(R[i - 1], s[i])
    BY <1>6, Zenon
  <2>3. QED
    BY <2>1, <2>2
<1>9. \A i \in 0 .. k : R[i] \in RingBuffers
  <2> DEFINE P == {i \in 0 .. k : R[i] \in RingBuffers}
  <2>1. 0 \in P
    BY <1>1, <1>8
  <2>2. ASSUME NEW i \in 1 .. k, i - 1 \in P PROVE i \in P
    <3>1. R[i - 1] \in RingBuffers /\ s[i] \in Bytes /\ i \in 0 .. k
      BY <1>1, <2>2
    <3>2. R[i] \in RingBuffers
      BY <1>8, <3>1, ByteTypes
    <3>3. QED
      BY <3>1, <3>2
  <2> HIDE DEF P
  <2>3. \A i \in 0 .. k : i \in P
    BY <1>1, <2>1, <2>2, InductionUpTo
  <2>4. QED
    BY <2>3 DEF P
<1>10. R \in [0 .. k -> RingBuffers]
  BY <1>6, <1>9
<1>11. QED
  BY <1>7, <1>8, <1>10

\* Concatenation of sequences of bytes is associative.
LEMMA ConcatThree ==
    /\ \A x, y, z \in Seq(Bytes) : (x \o y) \o z = x \o (y \o z)
    /\ \A x, y \in Seq(Bytes) : \A e \in Bytes : Append(x \o y, e) = x \o Append(y, e)
<1>1. \A x, y, z \in Seq(Bytes) : (x \o y) \o z = x \o (y \o z)
  BY ConcatAssociative
<1>2. \A x, y \in Seq(Bytes) : \A e \in Bytes : Append(x \o y, e) = x \o Append(y, e)
  OBVIOUS
<1>3. QED
  BY <1>1, <1>2

\* A sequence extended byte by byte is extended by the bytes.
LEMMA AppendNext ==
    ASSUME NEW c \in Seq(Bytes), NEW s \in Seq(Bytes), NEW i \in 1 .. Len(s)
    PROVE  Append(c \o SubSeq(s, 1, i - 1), s[i]) = c \o SubSeq(s, 1, i)
<1>1. SubSeq(s, 1, i - 1) \in Seq(Bytes) /\ s[i] \in Bytes
  OBVIOUS
<1>2. SubSeq(s, 1, i) = Append(SubSeq(s, 1, i - 1), s[i])
  OBVIOUS
<1>3. Append(c \o SubSeq(s, 1, i - 1), s[i]) = c \o Append(SubSeq(s, 1, i - 1), s[i])
  BY <1>1, ConcatThree, Zenon
<1>4. QED
  BY <1>2, <1>3

\* With room for k bytes, the loop appends the first k bytes of s.
LEMMA WriteBytes ==
    ASSUME NEW a \in RingBuffers, StatusOK(a), NEW s \in Seq(Bytes),
           NEW k \in 0 .. Len(s), k <= available_write(a)
    PROVE  /\ write_bytes(a, s, k) \in RingBuffers
           /\ StatusOK(write_bytes(a, s, k))
           /\ Contents(write_bytes(a, s, k)) = Contents(a) \o SubSeq(s, 1, k)
<1>1. PICK r \in [0 .. k -> RingBuffers] :
         /\ r[0] = a
         /\ \A i \in 1 .. k : r[i] = write_byte(r[i - 1], s[i])
         /\ write_bytes(a, s, k) = r[k]
  BY WriteStates
<1> DEFINE c == Contents(a)
           P == {i \in 0 .. k : StatusOK(r[i]) /\ Contents(r[i]) = c \o SubSeq(s, 1, i)}
<1>2. k \in Nat /\ RING_BUFFER_SIZE \in Nat
  BY RingAssumption
<1>3. /\ c \in Seq(Bytes)
      /\ Len(c) + k <= RING_BUFFER_SIZE
  BY <1>2, ContentsFacts
<1> HIDE DEF c
<1>4. 0 \in P
  <2>1. SubSeq(s, 1, 0) = <<>>
    BY SubSeqEmpty
  <2>2. c \o SubSeq(s, 1, 0) = c
    BY <1>3, <2>1, ConcatEmptySeq
  <2>3. QED
    BY <1>1, <1>2, <2>2 DEF c
<1>5. ASSUME NEW i \in 1 .. k, i - 1 \in P PROVE i \in P
  <2>1. i \in 1 .. Len(s) /\ i \in 0 .. k /\ s[i] \in Bytes
    BY <1>2
  <2> DEFINE u == SubSeq(s, 1, i - 1)
             q == r[i - 1]
  <2>2. q \in RingBuffers /\ StatusOK(q) /\ Contents(q) = c \o u /\ r[i] = write_byte(q, s[i])
    BY <1>1, <1>5
  <2>3. u \in Seq(Bytes) /\ Len(u) = i - 1
    BY <2>1
  <2> HIDE DEF u, q
  <2>4. Len(Contents(q)) = Len(c) + (i - 1)
    BY <1>3, <2>2, <2>3, ConcatProperties
  <2>5. available_write(q) > 0
    <3>1. available_write(q) = RING_BUFFER_SIZE - Len(Contents(q))
      BY <2>2, ContentsFacts
    <3>2. Len(c) \in Nat
      BY <1>3
    <3>3. QED
      BY <1>2, <1>3, <2>1, <2>4, <3>1, <3>2
  <2>6. StatusOK(r[i]) /\ Contents(r[i]) = Append(c \o u, s[i])
    BY <2>1, <2>2, <2>5, WriteAppends
  <2>7. Append(c \o u, s[i]) = c \o SubSeq(s, 1, i)
    BY <1>3, <2>1, AppendNext DEF u
  <2>8. QED
    BY <2>1, <2>6, <2>7
<1>6. k \in P
  <2> HIDE DEF P
  <2>1. \A i \in 0 .. k : i \in P
    BY <1>2, <1>4, <1>5, InductionUpTo
  <2>2. QED
    BY <1>2, <2>1
<1>7. r[k] \in RingBuffers
  BY <1>1, <1>2
<1>8. QED
  BY <1>1, <1>6, <1>7 DEF c

\* The states of the ring buffer in the loop that reads k bytes.
LEMMA ReadStates ==
    ASSUME NEW a \in RingBuffers, NEW k \in Nat
    PROVE  \E r \in [0 .. k -> RingBuffers] :
              /\ r[0] = a
              /\ \A i \in 1 .. k : r[i] = read_byte(r[i - 1])
              /\ read_bytes(a, k) = r[k]
              /\ bytes_read(a, k) = [i \in 1 .. k |-> r[i - 1].arr[r[i - 1].head]]
<1> DEFINE Loop(r) == [i \in 0 .. k |-> IF i = 0 THEN a ELSE read_byte(r[i - 1])]
           R == CHOOSE r : r = Loop(r)
           G == [i \in 1 .. k |-> [r \in RingBuffers |-> read_byte(r)]]
<1>1. \A r \in RingBuffers : read_byte(r) \in RingBuffers
  BY ByteTypes, RingAssumption
<1>2. G \in Rounds(k, RingBuffers)
  BY <1>1 DEF Rounds
<1>3. PICK f : IsRun(f, k, RingBuffers, a, G)
  <2> HIDE DEF G
  <2>1. QED
    BY <1>2, LoopRuns
<1>4. f \in [0 .. k -> RingBuffers] /\ f[0] = a /\ \A i \in 1 .. k : f[i] = read_byte(f[i - 1])
  <2>1. \A i \in 1 .. k : i - 1 \in 0 .. k
    OBVIOUS
  <2>2. /\ f \in [0 .. k -> RingBuffers] /\ f[0] = a
        /\ \A i \in 1 .. k : f[i] = G[i][f[i - 1]]
    BY <1>3, Zenon DEF IsRun
  <2>3. \A i \in 1 .. k : f[i - 1] \in RingBuffers
    BY <2>1, <2>2
  <2>4. QED
    BY <2>2, <2>3
<1>5. f = Loop(f)
  <2>1. \A i \in 0 .. k : i = 0 \/ i \in 1 .. k
    OBVIOUS
  <2>2. \A i \in 0 .. k : f[i] = IF i = 0 THEN a ELSE read_byte(f[i - 1])
    BY <1>4, <2>1
  <2>3. QED
    BY <1>4, <2>2
<1>6. R = Loop(R)
  BY <1>5, Zenon
<1>7. read_bytes(a, k) = R[k] /\ bytes_read(a, k) = [i \in 1 .. k |-> R[i - 1].arr[R[i - 1].head]]
  BY Zenon DEF read_bytes, bytes_read
<1> HIDE DEF R
<1>8. R[0] = a /\ \A i \in 1 .. k : R[i] = read_byte(R[i - 1])
  <2>1. 0 \in 0 .. k /\ \A i \in 1 .. k : i \in 0 .. k /\ i # 0
    OBVIOUS
  <2>2. \A i \in 0 .. k : R[i] = IF i = 0 THEN a ELSE read_byte(R[i - 1])
    BY <1>6, Zenon
  <2>3. QED
    BY <2>1, <2>2
<1>9. \A i \in 0 .. k : R[i] \in RingBuffers
  <2> DEFINE P == {i \in 0 .. k : R[i] \in RingBuffers}
  <2>1. 0 \in P
    BY <1>8
  <2>2. ASSUME NEW i \in 1 .. k, i - 1 \in P PROVE i \in P
    <3>1. R[i] \in RingBuffers /\ i \in 0 .. k
      BY <1>1, <1>8, <2>2
    <3>2. QED
      BY <3>1
  <2> HIDE DEF P
  <2>3. \A i \in 0 .. k : i \in P
    BY <2>1, <2>2, InductionUpTo
  <2>4. QED
    BY <2>3 DEF P
<1>10. R \in [0 .. k -> RingBuffers]
  BY <1>6, <1>9
<1>11. QED
  BY <1>7, <1>8, <1>10

\* With k bytes in the buffer, the loop returns the first k of them and leaves
\* the others.
LEMMA ReadBytes ==
    ASSUME NEW a \in RingBuffers, StatusOK(a), NEW k \in 0 .. available_read(a)
    PROVE  /\ read_bytes(a, k) \in RingBuffers
           /\ StatusOK(read_bytes(a, k))
           /\ bytes_read(a, k) \in Seq(Bytes) /\ Len(bytes_read(a, k)) = k
           /\ bytes_read(a, k) \o Contents(read_bytes(a, k)) = Contents(a)
<1> DEFINE c == Contents(a)
           n == Len(c)
<1>1. c \in Seq(Bytes) /\ n \in Nat /\ k \in 0 .. n /\ k \in Nat
  BY ContentsFacts
<1>2. PICK r \in [0 .. k -> RingBuffers] :
         /\ r[0] = a
         /\ \A i \in 1 .. k : r[i] = read_byte(r[i - 1])
         /\ read_bytes(a, k) = r[k]
         /\ bytes_read(a, k) = [i \in 1 .. k |-> r[i - 1].arr[r[i - 1].head]]
  BY <1>1, ReadStates
<1> HIDE DEF c
<1> DEFINE P == {i \in 0 .. k : StatusOK(r[i]) /\ Contents(r[i]) = SubSeq(c, i + 1, n)}
<1>3. 0 \in P
  <2>1. SubSeq(c, 1, n) = c
    BY <1>1, SubSeqFull
  <2>2. QED
    BY <1>1, <1>2, <2>1 DEF c
<1>4. ASSUME NEW i \in 1 .. k, i - 1 \in P
      PROVE  i \in P /\ r[i - 1].arr[r[i - 1].head] = c[i]
  <2>1. i \in 1 .. n /\ n \in i .. n /\ i \in 0 .. k /\ (i - 1) + 1 = i
    BY <1>1
  <2> DEFINE q == r[i - 1]
  <2>2. q \in RingBuffers /\ StatusOK(q) /\ Contents(q) = SubSeq(c, i, n) /\ r[i] = read_byte(q)
    BY <1>2, <1>4, <2>1
  <2>3. Head(SubSeq(c, i, n)) = c[i] /\ Tail(SubSeq(c, i, n)) = SubSeq(c, i + 1, n)
    BY <1>1, <2>1, HeadTailOfSubSeq
  <2> HIDE DEF q, n
  <2>4. available_read(q) > 0
    <3>1. Len(SubSeq(c, i, n)) = n - i + 1
      BY <1>1, <2>1, SuffixFacts DEF n
    <3>2. available_read(q) = Len(SubSeq(c, i, n))
      BY <2>2, ContentsFacts
    <3>3. QED
      BY <1>1, <2>1, <3>1, <3>2
  <2>5. /\ StatusOK(r[i])
        /\ q.arr[q.head] = Head(Contents(q))
        /\ Contents(r[i]) = Tail(Contents(q))
    BY <2>2, <2>4, ReadTakesHead
  <2>6. QED
    BY <2>1, <2>2, <2>3, <2>5 DEF q
<1>5. \A i \in 0 .. k : i \in P
  <2> HIDE DEF P
  <2>1. QED
    BY <1>1, <1>3, <1>4, InductionUpTo
<1>6. \A i \in 1 .. k : r[i - 1].arr[r[i - 1].head] = c[i]
  <2>1. \A i \in 1 .. k : i - 1 \in 0 .. k
    BY <1>1
  <2>2. QED
    BY <1>4, <1>5, <2>1
<1>7. bytes_read(a, k) = SubSeq(c, 1, k)
  <2>1. bytes_read(a, k) = [i \in 1 .. k |-> c[i]]
    BY <1>2, <1>6
  <2>2. SubSeq(c, 1, k) = [i \in 1 .. k |-> c[i]]
    BY <1>1
  <2>3. QED
    BY <2>1, <2>2
<1>8. k \in 0 .. k
  BY <1>1
<1>9. SubSeq(c, 1, k) \in Seq(Bytes) /\ Len(SubSeq(c, 1, k)) = k
  <2>1. SubSeq(c, 1, k) \in Seq(Bytes)
    BY <1>1
  <2>2. Len(SubSeq(c, 1, k)) = k
    BY <1>1
  <2>3. QED
    BY <2>1, <2>2
<1>10. SubSeq(c, 1, k) \o SubSeq(c, k + 1, n) = c
  <2>1. 1 \in 1 .. Len(c) + 1 /\ k \in 1 - 1 .. Len(c) /\ Len(c) \in k .. Len(c)
    BY <1>1
  <2>2. SubSeq(c, 1, k) \o SubSeq(c, k + 1, n) = SubSeq(c, 1, n)
    BY <1>1, <2>1, ConcatAdjacentSubSeq
  <2>3. SubSeq(c, 1, n) = c
    BY <1>1, SubSeqFull
  <2>4. QED
    BY <2>2, <2>3
<1>11. StatusOK(r[k]) /\ Contents(r[k]) = SubSeq(c, k + 1, n) /\ r[k] \in RingBuffers
  BY <1>5, <1>8
<1>12. QED
  BY <1>2, <1>7, <1>9, <1>10, <1>11 DEF c

=============================================================================
