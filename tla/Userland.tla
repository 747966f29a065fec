------------------------------- MODULE Userland -------------------------------
(***************************************************************************)
(* The shell and the programs it starts, on the calls of                   *)
(* os/src/syscall/fs.rs and os/src/syscall/process.rs: descriptors and     *)
(* their inheritance over fork and exec, pipes, files, exit and wait.      *)
(*                                                                         *)
(* A step is a system call of one process, up to its return or to its next *)
(* suspension; the ready queue lets every process run again and again.     *)
(* Pipes are sequences of at most RING_BUFFER_SIZE bytes (see Pipe), files *)
(* are sequences of bytes (see FileStore).                                 *)
(***************************************************************************)
EXTENDS Programs, FdTable, FiniteSets

CONSTANTS
    Pids, Pipes, OSInodes,  \* bounds on processes, pipes and open files
    RING_BUFFER_SIZE,
    FileNames, NoFile,
    Lines,                  \* the lines typed at the shell
    MaxTyped                \* bound on the commands and line ends typed

ASSUME UserlandAssumption ==
    /\ 0 \in Pids /\ Pids \subseteq Nat
    /\ RING_BUFFER_SIZE \in Nat \ {0}
    /\ MaxTyped \in Nat

VARIABLES
    process,    \* the processes by pid: parent, exit code, descriptors, and
                \* the rest of the code with the variables it uses
    pipes,      \* the bytes in the pipes
    inodes,     \* the OSInodes: file, offset, writable
    files,      \* the contents of the files
    typed,      \* how many commands and line ends have been typed
    failed,     \* the assertions of programs that have failed
    promised    \* history: what the line at the shell has to do

vars == <<process, pipes, inodes, files, typed, failed, promised>>

NoProcess == [status |-> "none"]
NoCall == [op |-> "none"]
Stdio == <<<<"stdin">>, <<"stdout">>, <<"stdout">>>>

NewProcess(parent, code) ==
    [status |-> "live", parent |-> parent, exit_code |-> 0, signalled |-> FALSE, fd_table |-> Stdio, code |-> code,
     call |-> NoCall, pipe_fds |-> <<>>, opened |-> 0, children |-> <<>>, got |-> <<>>]

\* user_shell waits for a line.
prompt == [op |-> "prompt"]

\* initproc: it starts the shell and reaps for ever.
initproc == <<fork(<<prompt>>), [op |-> "reap"]>>

INITPROC == 0

Init ==
    /\ process = [p \in Pids |-> IF p = INITPROC THEN NewProcess(INITPROC, initproc) ELSE NoProcess]
    /\ pipes = [k \in Pipes |-> <<>>]
    /\ inodes = [k \in OSInodes |-> [file |-> "", offset |-> 0, writable |-> FALSE]]
    /\ files = [f \in FileNames |-> IF f = "a" THEN <<"x", "nl", "x">> ELSE NoFile]
    /\ typed = 0 /\ failed = {}
    /\ promised = [files |-> files, finishes |-> TRUE]

----------------------------------------------------------------------------

Live(p) == process[p].status = "live"
Holds(p, file) == Live(p) /\ file \in Range(process[p].fd_table)

Least(S) == CHOOSE x \in S : \A y \in S : x <= y

\* Process p is at a call op: it runs user code and has no signal.
At(p, op) ==
    /\ Live(p) /\ ~process[p].signalled
    /\ process[p].call = NoCall /\ process[p].code # <<>>
    /\ Head(process[p].code).op = op

This(p) == Head(process[p].code)
Returned(p) == [process[p] EXCEPT !.code = Tail(@), !.call = NoCall]

Fd(p, fd) ==
    CASE fd[1] = "fd" -> fd[2]
      [] fd[1] = "r" -> process[p].pipe_fds[fd[2]][1]
      [] fd[1] = "w" -> process[p].pipe_fds[fd[2]][2]
      [] fd[1] = "opened" -> process[p].opened

FileAt(p) == file_of(process[p].fd_table, Fd(p, This(p).fd))

\* An assertion of the program.
Asserts(p, holds) == failed' = IF holds THEN failed ELSE failed \cup {<<p, This(p).op>>}

----------------------------------------------------------------------------
(* Descriptors *)

sys_pipe(p) ==
    LET k == Least({j \in Pipes : \A q \in Pids : ~Holds(q, <<"read", j>>) /\ ~Holds(q, <<"write", j>>)})
        t == process[p].fd_table
        t1 == with_fd(t, <<"read", k>>)
    IN  /\ At(p, "pipe")
        /\ process' = [process EXCEPT ![p] = [Returned(p) EXCEPT !.fd_table = with_fd(t1, <<"write", k>>),
                                                                 !.pipe_fds = Append(@, <<alloc_fd(t), alloc_fd(t1)>>)]]
        /\ pipes' = [pipes EXCEPT ![k] = <<>>]
        /\ UNCHANGED <<inodes, files, typed, failed, promised>>

sys_close(p) ==
    /\ At(p, "close")
    /\ process' = [process EXCEPT ![p] = [Returned(p) EXCEPT !.fd_table = without_fd(@, Fd(p, This(p).fd))]]
    /\ UNCHANGED <<pipes, inodes, files, typed, failed, promised>>

sys_dup(p) ==
    /\ At(p, "dup")
    /\ process' = [process EXCEPT ![p] = [Returned(p) EXCEPT !.fd_table = with_fd(@, FileAt(p))]]
    /\ Asserts(p, FileAt(p) # None /\ alloc_fd(process[p].fd_table) = This(p).expected)
    /\ UNCHANGED <<pipes, inodes, files, typed, promised>>

sys_open(p) ==
    LET k == Least({j \in OSInodes : \A q \in Pids : ~Holds(q, <<"file", j>>)})
        name == This(p).name
    IN  /\ At(p, "open")
        /\ \/ /\ ~This(p).create /\ files[name] = NoFile
              /\ process' = [process EXCEPT ![p].code = This(p).failed]
              /\ UNCHANGED <<inodes, files>>
           \/ /\ This(p).create \/ files[name] # NoFile
              /\ files' = IF This(p).create THEN [files EXCEPT ![name] = <<>>] ELSE files
              /\ inodes' = [inodes EXCEPT ![k] = [file |-> name, offset |-> 0, writable |-> This(p).create]]
              /\ process' = [process EXCEPT ![p] = [Returned(p) EXCEPT !.fd_table = with_fd(@, <<"file", k>>),
                                                                       !.opened = alloc_fd(process[p].fd_table)]]
        /\ UNCHANGED <<pipes, typed, failed, promised>>

----------------------------------------------------------------------------
(* Reading and writing *)

\* A read of the program returns got: an assertion on it, or a loop to the end.
ReadReturns(p, got) ==
    LET c == This(p)
        looping == [process[p] EXCEPT !.call = NoCall, !.got = @ \o got, !.code = IF c.echo THEN <<print(got)>> \o @ ELSE @]
    IN  /\ process' = [process EXCEPT ![p] = IF c.op = "read" \/ got = <<>> THEN Returned(p) ELSE looping]
        /\ Asserts(p, c.op = "read" => got = c.expected)

\* A plausible bug: the end of the stream is looked for before the bytes.
PipeRead_eof_first(p, k, had, want) ==
    LET n == Len(pipes[k])
    IN  IF ~\E q \in Pids : Holds(q, <<"write", k>>)
        THEN ReadReturns(p, had) /\ UNCHANGED pipes
        ELSE IF want < n
        THEN /\ pipes' = [pipes EXCEPT ![k] = SubSeq(@, want + 1, n)]
             /\ ReadReturns(p, had \o SubSeq(pipes[k], 1, want))
        ELSE /\ pipes' = [pipes EXCEPT ![k] = <<>>]
             /\ process' = [process EXCEPT ![p].call = [op |-> "read", had |-> had \o pipes[k], want |-> want - n]]
             /\ UNCHANGED failed

\* Pipe::read: had has been read, want is still wanted.
PipeRead(p, k, had, want) ==
    LET n == Len(pipes[k])
    IN  IF want < n
        THEN /\ pipes' = [pipes EXCEPT ![k] = SubSeq(@, want + 1, n)]
             /\ ReadReturns(p, had \o SubSeq(pipes[k], 1, want))
        ELSE /\ pipes' = [pipes EXCEPT ![k] = <<>>]
             /\ IF \E q \in Pids : Holds(q, <<"write", k>>)
                THEN process' = [process EXCEPT ![p].call = [op |-> "read", had |-> had \o pipes[k], want |-> want - n]] /\ UNCHANGED failed
                ELSE ReadReturns(p, had \o pipes[k])

\* Pipe::write of rest.
PipeWrite(p, k, rest) ==
    LET n == RING_BUFFER_SIZE - Len(pipes[k])
    IN  IF Len(rest) < n
        THEN /\ pipes' = [pipes EXCEPT ![k] = @ \o rest]
             /\ process' = [process EXCEPT ![p] = Returned(p)]
        ELSE /\ pipes' = [pipes EXCEPT ![k] = @ \o SubSeq(rest, 1, n)]
             /\ process' = [process EXCEPT ![p].call = [op |-> "write", rest |-> SubSeq(rest, n + 1, Len(rest))]]

sys_read(p) ==
    LET at == inodes[FileAt(p)[2]]
        end == IF at.offset + This(p).len < Len(files[at.file]) THEN at.offset + This(p).len ELSE Len(files[at.file])
    IN  /\ At(p, "read") \/ At(p, "read_to_end")
        /\ \/ /\ FileAt(p)[1] = "read"
              /\ PipeRead(p, FileAt(p)[2], <<>>, This(p).len)
              /\ UNCHANGED inodes
           \/ /\ FileAt(p)[1] = "file"
              /\ ReadReturns(p, SubSeq(files[at.file], at.offset + 1, end))
              /\ inodes' = [inodes EXCEPT ![FileAt(p)[2]].offset = IF end > @ THEN end ELSE @]
              /\ UNCHANGED pipes
        /\ UNCHANGED <<files, typed, promised>>

\* The bytes go to the console, to a file, or into a pipe; the programs write
\* only to descriptors that are open for it.
write_bytes(p, bytes) ==
    LET at == inodes[FileAt(p)[2]]
        end == at.offset + Len(bytes)
        old == files[at.file]
    IN  \/ /\ FileAt(p)[1] = "write"
           /\ PipeWrite(p, FileAt(p)[2], bytes)
           /\ UNCHANGED <<inodes, files>>
        \/ /\ FileAt(p)[1] = "file" /\ at.writable
           /\ files' = [files EXCEPT ![at.file] = SubSeq(old, 1, at.offset) \o bytes \o SubSeq(old, end + 1, Len(old))]
           /\ inodes' = [inodes EXCEPT ![FileAt(p)[2]].offset = end]
           /\ process' = [process EXCEPT ![p] = Returned(p)]
           /\ UNCHANGED pipes
        \/ /\ FileAt(p)[1] = "stdout"
           /\ process' = [process EXCEPT ![p] = Returned(p)]
           /\ UNCHANGED <<pipes, inodes, files>>

sys_write(p) ==
    /\ \/ At(p, "write") /\ write_bytes(p, This(p).bytes)
       \/ At(p, "print_lines") /\ process' = [process EXCEPT ![p].code = <<print(lines_of(process[p].got))>> \o Tail(@)]
                               /\ UNCHANGED <<pipes, inodes, files>>
    /\ UNCHANGED <<typed, failed, promised>>

\* A suspended call runs again.
resume(p) ==
    LET c == process[p].call
    IN  /\ Live(p)
        /\ \/ c.op = "read" /\ PipeRead(p, FileAt(p)[2], c.had, c.want)
           \/ c.op = "write" /\ PipeWrite(p, FileAt(p)[2], c.rest) /\ UNCHANGED failed
        /\ UNCHANGED <<inodes, files, typed, promised>>

----------------------------------------------------------------------------
(* Processes *)

\* fork: the child has a copy of the descriptors and of the variables.
sys_fork(p) ==
    LET q == Least({x \in Pids : process[x] = NoProcess})
    IN  /\ At(p, "fork")
        /\ \E x \in Pids : process[x] = NoProcess
        /\ process' = [process EXCEPT ![p] = [Returned(p) EXCEPT !.children = Append(@, q)],
                                      ![q] = [process[p] EXCEPT !.parent = p, !.code = This(p).child]]
        /\ UNCHANGED <<pipes, inodes, files, typed, failed, promised>>

\* exec: the descriptors are kept.
sys_exec(p) ==
    /\ At(p, "exec")
    /\ process' = [process EXCEPT ![p] =
           IF This(p).args[1] \in Names
           THEN [NewProcess(@.parent, main(This(p).args)) EXCEPT !.fd_table = process[p].fd_table]
           ELSE [@ EXCEPT !.code = This(p).failed]]
    /\ UNCHANGED <<pipes, inodes, files, typed, failed, promised>>

\* exit_current_and_run_next: the descriptors are closed, initproc gets the children.
Exits(p, code) ==
    /\ process' = [q \in Pids |->
           IF q = p THEN [NewProcess(process[p].parent, <<>>) EXCEPT !.status = "zombie", !.exit_code = code, !.fd_table = <<>>]
           ELSE IF process[q] # NoProcess /\ process[q].parent = p THEN [process[q] EXCEPT !.parent = INITPROC]
           ELSE process[q]]
    /\ UNCHANGED <<pipes, inodes, files, typed, failed, promised>>

\* A signal is looked at when the process leaves a trap.
sys_exit(p) ==
    \/ At(p, "exit") /\ Exits(p, This(p).code)
    \/ Live(p) /\ process[p].signalled /\ process[p].call = NoCall /\ Exits(p, -2)

Children(p) == {q \in Pids : process[q] # NoProcess /\ q # p /\ process[q].parent = p}
Wanted(p) == {q \in Children(p) : This(p).child = 0 \/ q = process[p].children[This(p).child]}

\* waitpid of the user library: it yields until a child has exited, or returns -1.
sys_waitpid(p) ==
    /\ At(p, "wait")
    /\ \/ \E q \in Wanted(p) :
              /\ process[q].status = "zombie"
              /\ process' = [process EXCEPT ![p] = Returned(p), ![q] = NoProcess]
              /\ Asserts(p, This(p).expected \in {AnyCode, process[q].exit_code})
       \/ /\ Wanted(p) = {}
          /\ process' = [process EXCEPT ![p] = Returned(p)]
          /\ Asserts(p, This(p).expected = NoChild)
    /\ UNCHANGED <<pipes, inodes, files, typed, promised>>

\* until_timeout polls with waitpid_nb until the time is over, and then kills
\* the child unless it has exited.
poll(p) ==
    LET q == process[p].children[This(p).child]
    IN  /\ At(p, "until")
        /\ \/ /\ q \in Children(p) /\ process[q].status = "zombie"
              /\ process' = [process EXCEPT ![q] = NoProcess, ![p].got = <<"exited">>]
           \/ process' = [process EXCEPT ![p].code = IF process[p].got = <<>> THEN This(p).failed \o Tail(@) ELSE Tail(@)]
        /\ UNCHANGED <<pipes, inodes, files, typed, failed, promised>>

\* sys_kill; a process that has exited is not in PID2PCB, and it returns -1.
sys_kill(p) ==
    LET q == process[p].children[This(p).child]
    IN  /\ At(p, "kill")
        /\ process' = [process EXCEPT ![p] = Returned(p), ![q] = IF Live(q) THEN [@ EXCEPT !.signalled = TRUE] ELSE @]
        /\ UNCHANGED <<pipes, inodes, files, typed, failed, promised>>

\* The loop of initproc.
reap(p) ==
    /\ At(p, "reap")
    /\ \E q \in Children(p) : process[q].status = "zombie" /\ process' = [process EXCEPT ![q] = NoProcess]
    /\ UNCHANGED <<pipes, inodes, files, typed, failed, promised>>

----------------------------------------------------------------------------
(* What a line promises *)

\* What a program writes to its standard output when it has read `input`.
Text(fs, args, input) ==
    CASE args[1] = "hello_world" -> STR
      [] args[1] = "count_lines" -> lines_of(input)
      [] args[1] = "cat" /\ fs[args[2]] # NoFile -> fs[args[2]]
      [] args[1] \notin Names -> <<"e">>
      [] OTHER -> <<>>

\* What the commands of a line write, each to the next or to its output.
Texts(fs, line) ==
    LET c(i) == ProcessArguments(line[i])
        given(i) == c(i).input = "" \/ fs[c(i).input] # NoFile
        text[i \in 0 .. Len(line)] ==
            IF i = 0 THEN <<>>
            ELSE IF ~given(i) THEN <<>>
            ELSE Text(fs, c(i).args, IF c(i).input # "" THEN fs[c(i).input] ELSE text[i - 1])
    IN  [i \in DOMAIN line |-> text[i]]

\* The files after the line, and whether it finishes: a program that does not
\* read has to leave room in the pipe before it.
Promise(fs, line) ==
    LET last == ProcessArguments(line[Len(line)])
        written == valid(line) /\ last.output # "" /\ (last.input # "" => fs[last.input] # NoFile)
        reads(i) == ProcessArguments(line[i]).args[1] = "count_lines"
        made == CASE line = <<<<"filetest_simple">>>> -> [fs EXCEPT !["filea"] = STR]
                  [] line = <<<<"huge_write">>>> -> [fs EXCEPT !["testf"] = repeat(MAX_CHILD, large)]
                  [] OTHER -> fs
    IN  [files |-> IF written THEN [fs EXCEPT ![last.output] = Last(Texts(fs, line))] ELSE made,
         finishes |-> \A i \in DOMAIN line \ {1} : reads(i) \/ Len(Texts(fs, line)[i - 1]) < RING_BUFFER_SIZE]

\* A line is typed at the shell.
getline(p, line) ==
    /\ At(p, "prompt")
    /\ typed + Len(line) + 1 <= MaxTyped
    /\ typed' = typed + Len(line) + 1
    /\ process' = [process EXCEPT ![p].code = shell_main(line) \o @, ![p].pipe_fds = <<>>, ![p].children = <<>>]
    /\ promised' = Promise(files, line)
    /\ UNCHANGED <<pipes, inodes, files, failed>>

----------------------------------------------------------------------------

Step(p) ==
    \/ sys_pipe(p) \/ sys_close(p) \/ sys_dup(p) \/ sys_open(p)
    \/ sys_read(p) \/ sys_write(p) \/ resume(p)
    \/ sys_fork(p) \/ sys_exec(p) \/ sys_exit(p) \/ sys_waitpid(p)
    \/ poll(p) \/ sys_kill(p) \/ reap(p)

Next == \E p \in Pids : Step(p) \/ \E line \in Lines : getline(p, line)

\* Every process that can run runs again; nobody has to type.
Spec == Init /\ [][Next]_vars /\ \A p \in Pids : WF_vars(Step(p))

----------------------------------------------------------------------------
(* Properties *)

SHELL == 1
Prompting == process[SHELL] # NoProcess /\ At(SHELL, "prompt")


\* When the shell is at its prompt it holds its three streams and no pipe end,
\* and when a program is started by exec it holds, besides its streams, no end
\* of a pipe and no file.
NoStrayDescriptors ==
    LET extra(p) == {fd \in 3 .. (Len(process[p].fd_table) - 1) : is_open(process[p].fd_table, fd)}
    IN  /\ Prompting => extra(SHELL) = {} /\ SubSeq(process[SHELL].fd_table, 1, 3) = Stdio
        /\ \A p \in Pids : (Live(p) /\ At(p, "exec")) => extra(p) = {} /\ \A fd \in 0 .. 2 : is_open(process[p].fd_table, fd)

\* When the shell is back at its prompt the line has done what it promises:
\* every byte that a command has written has reached the next or the file.
LineDelivered == Prompting => files = promised.files

\* The shell comes back to its prompt from every line that leaves no writer
\* before a full pipe.
LineFinishes == (typed > 0 /\ promised.finishes) ~> (Prompting \/ ~promised.finishes)
=============================================================================
