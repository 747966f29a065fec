----------------------------- MODULE ByteStream ------------------------------
(***************************************************************************)
(* What a pipe promises to the processes at its ends: the bytes received   *)
(* are a prefix of the bytes sent, at most Capacity bytes are under way,   *)
(* and after the end of the stream has been reported nothing is sent.      *)
(***************************************************************************)
EXTENDS Integers, Sequences

CONSTANTS Bytes, Capacity

VARIABLES
    sent,       \* all bytes written so far
    received,   \* all bytes read so far
    eof         \* a reader has been told that the stream has ended

\* s is the beginning of t.
Begins(s, t) == Len(s) <= Len(t) /\ SubSeq(t, 1, Len(s)) = s

Init == sent = <<>> /\ received = <<>> /\ eof = FALSE

\* A writer adds bytes as far as there is room.
Send ==
    /\ ~eof
    /\ Len(sent') - Len(received) <= Capacity
    /\ Begins(sent, sent')
    /\ UNCHANGED <<received, eof>>

\* A reader takes the next bytes; one that has taken all may learn that there
\* will be no more.
Receive ==
    /\ Begins(received, received') /\ Begins(received', sent)
    /\ eof' \in {eof, received' = sent}
    /\ UNCHANGED sent

Next == Send \/ Receive

Spec == Init /\ [][Next]_<<sent, received, eof>>

=============================================================================
