-------------------------------- MODULE Pipe ---------------------------------
(***************************************************************************)
(* A pipe of os/src/fs/pipe.rs between single-threaded processes that      *)
(* share its ends, with sys_read, sys_write and sys_close of               *)
(* os/src/syscall/fs.rs.                                                   *)
(*                                                                         *)
(* Pipe::read and Pipe::write loop; they give up the processor with        *)
(* suspend_current_and_run_next and nowhere else, so a call is one step up *)
(* to its first suspension and one step from each suspension to the next.  *)
(* Whose step is next is left open: ReadyRuns of Sync says that every      *)
(* suspended process runs again.                                           *)
(***************************************************************************)
EXTENDS PipeRingBuffer, FiniteSets

CONSTANTS
    Procs,      \* the processes that inherited the pipe
    MaxLen,     \* bound on the length of a user buffer
    MaxSent     \* bound on the bytes written in a behaviour

ASSUME PipeAssumption == MaxLen \in Nat /\ MaxSent \in Nat

VARIABLES
    ring,           \* the PipeRingBuffer behind both ends
    read_fd,        \* the processes whose fd_table has the read end
    write_fd,       \* the processes whose fd_table has the write end
    call,           \* the read or write in which a process is suspended
    sent, received, \* history: the bytes written and read, in order
    eof             \* history: a read has returned less than was asked for

vars == <<ring, read_fd, write_fd, call, sent, received, eof>>

Seqs == UNION {[1 .. n -> Bytes] : n \in 0 .. MaxLen}
NoCall == [op |-> "none"]
ReadCall(want) == [op |-> "read", want |-> want]    \* bytes still to be read
WriteCall(rest) == [op |-> "write", rest |-> rest]  \* bytes still to be written

\* Every component has the values its Rust type allows.
TypeOK ==
    /\ ring \in RingBuffers
    /\ read_fd \subseteq Procs
    /\ write_fd \subseteq Procs
    /\ \A p \in Procs : call[p] \in {NoCall} \cup {ReadCall(n) : n \in 0 .. MaxLen} \cup {WriteCall(s) : s \in Seqs}
    /\ sent \in Seq(Bytes) /\ received \in Seq(Bytes)
    /\ eof \in BOOLEAN

\* One process has made the pipe and forked the others: all hold both ends.
Init ==
    /\ ring = new_ring_buffer
    /\ read_fd = Procs
    /\ write_fd = Procs
    /\ call = [p \in Procs |-> NoCall]
    /\ sent = <<>>
    /\ received = <<>>
    /\ eof = FALSE

Writing(p) == call[p].op = "write"
Reading(p) == call[p].op = "read"

\* The weak reference to the write end cannot be upgraded: no fd_table has it
\* and no write is under way (sys_write holds a clone of the Arc).
all_write_ends_closed == write_fd \cup {p \in Procs : Writing(p)} = {}

----------------------------------------------------------------------------
(* Pipe::read and Pipe::write up to the next suspension or the return *)

\* A plausible bug: all available bytes are taken, whatever fits the buffer.
read_loop_drops(p, want) ==
    LET n == available_read(ring)
        k == IF want < n THEN want ELSE n
    IN  /\ ring' = read_bytes(ring, n)
        /\ received' = received \o bytes_read(ring, k)
        /\ call' = [call EXCEPT ![p] = IF want < n \/ all_write_ends_closed THEN NoCall ELSE ReadCall(want - n)]
        /\ eof' = (eof \/ (n < want /\ all_write_ends_closed))
        /\ UNCHANGED <<read_fd, write_fd, sent>>

\* A plausible bug: the end of the stream is not looked for.
read_loop_no_eof(p, want) ==
    LET n == available_read(ring)
        k == IF want < n THEN want ELSE n
    IN  /\ ring' = read_bytes(ring, k)
        /\ received' = received \o bytes_read(ring, k)
        /\ call' = [call EXCEPT ![p] = IF want < n THEN NoCall ELSE ReadCall(want - n)]
        /\ UNCHANGED <<read_fd, write_fd, sent, eof>>

\* Pipe::read: with fewer bytes to read than there are it returns.  Otherwise
\* it empties the buffer and goes round: it returns at the end of the stream
\* and waits for more if not, even when it has all it was asked for.
read_loop(p, want) ==
    LET n == available_read(ring)
    IN  \/ /\ want < n
           /\ ring' = read_bytes(ring, want)
           /\ received' = received \o bytes_read(ring, want)
           /\ call' = [call EXCEPT ![p] = NoCall]
           /\ UNCHANGED <<read_fd, write_fd, sent, eof>>
        \/ /\ want >= n
           /\ ring' = read_bytes(ring, n)
           /\ received' = received \o bytes_read(ring, n)
           /\ call' = [call EXCEPT ![p] = IF all_write_ends_closed THEN NoCall ELSE ReadCall(want - n)]
           /\ eof' = (eof \/ (n < want /\ all_write_ends_closed))
           /\ UNCHANGED <<read_fd, write_fd, sent>>

\* A plausible bug: the writer waits until there is room for all it has.
write_loop_waits(p, rest) ==
    LET n == available_write(ring)
    IN  /\ ring' = IF Len(rest) <= n THEN write_bytes(ring, rest, Len(rest)) ELSE ring
        /\ sent' = IF Len(rest) <= n THEN sent \o rest ELSE sent
        /\ call' = [call EXCEPT ![p] = IF Len(rest) <= n THEN NoCall ELSE WriteCall(rest)]
        /\ UNCHANGED <<read_fd, write_fd, received, eof>>

\* Pipe::write: with fewer bytes to write than there is room it returns.
\* Otherwise it fills the buffer and waits for room, even when all its bytes
\* are in.
write_loop(p, rest) ==
    LET n == available_write(ring)
    IN  \/ /\ Len(rest) < n
           /\ ring' = write_bytes(ring, rest, Len(rest))
           /\ sent' = sent \o rest
           /\ call' = [call EXCEPT ![p] = NoCall]
           /\ UNCHANGED <<read_fd, write_fd, received, eof>>
        \/ /\ Len(rest) >= n
           /\ ring' = write_bytes(ring, rest, n)
           /\ sent' = sent \o SubSeq(rest, 1, n)
           /\ call' = [call EXCEPT ![p] = WriteCall(SubSeq(rest, n + 1, Len(rest)))]
           /\ UNCHANGED <<read_fd, write_fd, received, eof>>

----------------------------------------------------------------------------

sys_read(p, len) ==
    /\ call[p] = NoCall
    /\ p \in read_fd
    /\ read_loop(p, len)

sys_write(p, s) ==
    /\ call[p] = NoCall
    /\ p \in write_fd
    /\ Len(sent) + Len(s) <= MaxSent
    /\ write_loop(p, s)

\* A suspended call goes round its loop.
resume_read(p) == Reading(p) /\ read_loop(p, call[p].want)
resume_write(p) == Writing(p) /\ write_loop(p, call[p].rest)

\* sys_close of one end.
close_read(p) ==
    /\ call[p] = NoCall
    /\ p \in read_fd
    /\ read_fd' = read_fd \ {p}
    /\ UNCHANGED <<ring, write_fd, call, sent, received, eof>>

close_write(p) ==
    /\ call[p] = NoCall
    /\ p \in write_fd
    /\ write_fd' = write_fd \ {p}
    /\ UNCHANGED <<ring, read_fd, call, sent, received, eof>>

\* The process exits: fd_table.clear() drops both ends.
exit(p) ==
    /\ call[p] = NoCall
    /\ p \in read_fd \cup write_fd
    /\ read_fd' = read_fd \ {p}
    /\ write_fd' = write_fd \ {p}
    /\ UNCHANGED <<ring, call, sent, received, eof>>

Next ==
    \E p \in Procs :
        \/ \E len \in 0 .. MaxLen : sys_read(p, len)
        \/ \E s \in Seqs : sys_write(p, s)
        \/ resume_read(p)
        \/ resume_write(p)
        \/ close_read(p)
        \/ close_write(p)
        \/ exit(p)

Spec == Init /\ [][Next]_vars

\* Every suspended process runs again; user code owes nothing.
LiveSpec == Spec /\ \A p \in Procs : WF_vars(resume_read(p) \/ resume_write(p))

----------------------------------------------------------------------------
(* Properties *)

Stream == INSTANCE ByteStream WITH Capacity <- RING_BUFFER_SIZE

\* The pipe implements the byte stream: whatever the lengths of the calls and
\* however many processes read and write, the bytes received are a prefix of
\* the bytes sent, and nothing is sent after a reader has seen the end.
ImplementsStream == Stream!Spec

\* The ring buffer holds exactly the bytes that were sent and not received.
RingHoldsRest == received \o Contents(ring) = sent

\* When every write end is closed, a suspended read returns.
ReadSeesClose ==
    \A p \in Procs : (Reading(p) /\ all_write_ends_closed) ~> ~Reading(p)

\* If reads that want bytes come again and again, a write that is the only one
\* under way returns, also when its last byte has just filled the buffer.
WriteReturns ==
    \A p \in Procs :
        []<>(\E q \in Procs : Reading(q) /\ call[q].want > 0)
            => (Writing(p) /\ \A q \in Procs \ {p} : ~Writing(q))
                    ~> (~Writing(p) \/ \E q \in Procs \ {p} : Writing(q))

=============================================================================
