------------------------------- MODULE Programs -------------------------------
(***************************************************************************)
(* The programs of user/src/bin that fork, wait, and use files and pipes,  *)
(* each as the sequence of its system calls.  The loops over constants are *)
(* unrolled, with smaller constants.  What a test prints to the console,   *)
(* the sleeps and yields, which only delay a process, and the characters   *)
(* typed before a line ends are left out; every < and > of a line has a    *)
(* name after it, and every command a word.                                *)
(***************************************************************************)
EXTENDS Integers, Sequences, SequencesExt, TLC

CONSTANTS
    LENGTH,         \* bytes that pipe_large_test sends
    MAX_CHILD,      \* children of forktest, and rounds of other loops
    DEPTH           \* of forktree

ASSUME ProgramsAssumption == {LENGTH, MAX_CHILD, DEPTH} \subseteq Nat \ {0}

(* The calls.  A descriptor is given as a number, as an end of the k-th pipe *)
(* the program has made, or as the one that open has returned last.          *)

Number(fd) == <<"fd", fd>>
ReadEnd(k) == <<"r", k>>
WriteEnd(k) == <<"w", k>>
Opened == <<"opened">>

pipe == [op |-> "pipe"]
fork(child) == [op |-> "fork", child |-> child]
close(fd) == [op |-> "close", fd |-> fd]
dup(fd, expected) == [op |-> "dup", fd |-> fd, expected |-> expected]     \* assert_eq!(dup(fd), expected)
open(name, create, failed) == [op |-> "open", name |-> name, create |-> create, failed |-> failed]
write(fd, bytes) == [op |-> "write", fd |-> fd, bytes |-> bytes]
print(bytes) == write(Number(1), bytes)
read(fd, len, expected) == [op |-> "read", fd |-> fd, len |-> len, expected |-> expected]   \* expected: the bytes asserted
read_to_end(fd, echo) == [op |-> "read_to_end", fd |-> fd, len |-> 4, echo |-> echo]
print_lines == [op |-> "print_lines"]
wait(expected) == [op |-> "wait", child |-> 0, expected |-> expected]     \* expected: the exit code, AnyCode, or NoChild
waitpid(k, expected) == [op |-> "wait", child |-> k, expected |-> expected]   \* of the k-th child
until(k, failed) == [op |-> "until", child |-> k, failed |-> failed]      \* poll until the time is over
kill(k) == [op |-> "kill", child |-> k]
exec(args, failed) == [op |-> "exec", args |-> args, failed |-> failed]
exit(code) == [op |-> "exit", code |-> code]
forever == [op |-> "forever"]

\* Exit codes are numbers; what a wait may also expect.
AnyCode == -100
NoChild == -101

\* A panic in a program: it kills itself with SIGABRT.
panics == <<exit(-6)>>

repeat(n, code) == FlattenSeq([k \in 1 .. n |-> code])

----------------------------------------------------------------------------
(* user_shell *)

\* The first position of a token, 0 if it does not occur.
position(args, token) ==
    IF token \in Range(args) THEN CHOOSE k \in DOMAIN args : args[k] = token /\ \A j \in 1 .. (k - 1) : args[j] # token
    ELSE 0

\* The word after a token, and the arguments without the two.
after(args, token) == IF position(args, token) = 0 THEN "" ELSE args[position(args, token) + 1]
drained(args, token) ==
    LET k == position(args, token) IN IF k = 0 THEN args ELSE SubSeq(args, 1, k - 1) \o SubSeq(args, k + 2, Len(args))

\* ProcessArguments::new
ProcessArguments(command) ==
    [input |-> after(command, "<"), output |-> after(drained(command, "<"), ">"), args |-> drained(drained(command, "<"), ">")]

\* Redirections are allowed at the two ends of a pipeline.
valid(line) ==
    \/ Len(line) = 1
    \/ \A i \in DOMAIN line : /\ (i # Len(line) \/ i = 1) => ProcessArguments(line[i]).output = ""
                              /\ i # 1 => ProcessArguments(line[i]).input = ""

close_ends(n) == FlattenSeq([k \in 1 .. n |-> <<close(ReadEnd(k)), close(WriteEnd(k))>>])

\* A plausible bug: the child keeps the pipe ends it has inherited.
child_main_keeps(line, i) ==
    LET c == ProcessArguments(line[i])
    IN  (IF c.input = "" THEN <<>>
           ELSE <<open(c.input, FALSE, <<exit(-4)>>), close(Number(0)), dup(Opened, 0), close(Opened)>>)
        \o (IF c.output = "" THEN <<>>
            ELSE <<open(c.output, TRUE, <<exit(-4)>>), close(Number(1)), dup(Opened, 1), close(Opened)>>)
        \o (IF i > 1 THEN <<close(Number(0)), dup(ReadEnd(i - 1), 0)>> ELSE <<>>)
        \o (IF i < Len(line) THEN <<close(Number(1)), dup(WriteEnd(i), 1)>> ELSE <<>>)
        \o <<exec(c.args, <<print(<<"e">>), exit(-4)>>)>>

\* What the child for command i does, up to its exec.
child_main(line, i) ==
    LET c == ProcessArguments(line[i])
    IN  (IF c.input = "" THEN <<>>
           ELSE <<open(c.input, FALSE, <<exit(-4)>>), close(Number(0)), dup(Opened, 0), close(Opened)>>)
        \o (IF c.output = "" THEN <<>>
            ELSE <<open(c.output, TRUE, <<exit(-4)>>), close(Number(1)), dup(Opened, 1), close(Opened)>>)
        \o (IF i > 1 THEN <<close(Number(0)), dup(ReadEnd(i - 1), 0)>> ELSE <<>>)
        \o (IF i < Len(line) THEN <<close(Number(1)), dup(WriteEnd(i), 1)>> ELSE <<>>)
        \o close_ends(Len(line) - 1)
        \o <<exec(c.args, <<print(<<"e">>), exit(-4)>>)>>

\* A plausible bug: the shell keeps the pipe ends while it waits.
shell_main_keeps(line) ==
    LET n == Len(line)
    IN  IF ~valid(line) THEN <<>>
        ELSE repeat(n - 1, <<pipe>>) \o [i \in 1 .. n |-> fork(child_main(line, i))]
             \o [i \in 1 .. n |-> waitpid(i, AnyCode)] \o close_ends(n - 1)

\* What the shell does with a line.
shell_main(line) ==
    LET n == Len(line)
    IN  IF ~valid(line) THEN <<>>
        ELSE repeat(n - 1, <<pipe>>) \o [i \in 1 .. n |-> fork(child_main(line, i))]
             \o close_ends(n - 1) \o [i \in 1 .. n |-> waitpid(i, AnyCode)]

----------------------------------------------------------------------------
(* The other programs *)

STR == <<"x", "nl">>
large == [k \in 1 .. LENGTH |-> "x"]

pipetest ==
    <<pipe, fork(<<close(WriteEnd(1)), read(ReadEnd(1), 4, STR), close(ReadEnd(1)), exit(0)>>),
      close(ReadEnd(1)), write(WriteEnd(1), STR), close(WriteEnd(1)), wait(0), exit(0)>>

pipe_large_test ==
    <<pipe, pipe,
      fork(<<close(WriteEnd(1)), close(ReadEnd(2)), read(ReadEnd(1), LENGTH, large), close(ReadEnd(1)),
             write(WriteEnd(2), STR), close(WriteEnd(2)), exit(0)>>),
      close(ReadEnd(1)), close(WriteEnd(2)), write(WriteEnd(1), large), close(WriteEnd(1)),
      read(ReadEnd(2), 4, STR), close(ReadEnd(2)), wait(AnyCode), exit(0)>>

filetest_simple ==
    <<open("filea", TRUE, panics), write(Opened, STR), close(Opened),
      open("filea", FALSE, panics), read(Opened, 4, STR), close(Opened), exit(0)>>

forktest == repeat(MAX_CHILD, <<fork(<<exit(0)>>)>>) \o repeat(MAX_CHILD, <<wait(0)>>) \o <<wait(NoChild), exit(0)>>

\* As forktest; the children sleep first.
forktest2 == repeat(MAX_CHILD, <<fork(<<exit(0)>>)>>) \o repeat(MAX_CHILD, <<wait(0)>>) \o <<wait(NoChild), exit(0)>>

\* The children multiply matrices, and the exit codes are not looked at.
matrix == repeat(MAX_CHILD, <<fork(<<exit(0)>>)>>) \o repeat(MAX_CHILD, <<wait(AnyCode)>>) \o <<wait(NoChild), exit(0)>>

forktest_simple == <<wait(NoChild), fork(<<exit(100)>>), wait(100), exit(0)>>

exit_test == <<fork(<<exit(77)>>), waitpid(1, 77), waitpid(1, NoChild), wait(NoChild), exit(0)>>

sleep_test == <<fork(<<exit(0)>>), waitpid(1, 0), exit(0)>>

\* fork_tree; the parents do not wait.
forktree ==
    LET tree[d \in 0 .. DEPTH] ==
            IF d = 0 THEN <<>> ELSE repeat(2, <<fork(tree[d - 1] \o <<exit(0)>>)>>)
    IN  tree[DEPTH] \o <<exit(0)>>

run_pipe_test == repeat(MAX_CHILD, <<fork(<<exec(<<"pipe_large_test">>, <<exit(0)>>)>>), wait(AnyCode)>>) \o <<exit(0)>>

huge_write == <<open("testf", TRUE, panics)>> \o repeat(MAX_CHILD, <<write(Opened, large)>>) \o <<close(Opened), exit(0)>>

until_timeout(prog) ==
    <<fork(<<exec(<<prog>>, <<exit(-4)>>)>>), until(1, <<kill(1), waitpid(1, AnyCode)>>), exit(0)>>

\* The tests that do more than print.
TESTS == <<"exit", "forktest", "forktest2", "forktest_simple", "matrix", "sleep", "stack_overflow">>

usertests ==
    FlattenSeq([k \in DOMAIN TESTS |-> <<fork(<<exec(<<TESTS[k]>>, panics)>>), waitpid(k, AnyCode)>>]) \o <<exit(0)>>

\* Programs that the kernel kills, with SIGSEGV and SIGILL.
stack_overflow == <<exit(-11)>>
store_fault == <<exit(-11)>>
priv_inst == <<exit(-4)>>
priv_csr == <<exit(-4)>>

cat(name) == <<open(name, FALSE, panics), read_to_end(Opened, TRUE), close(Opened), exit(0)>>
count_lines == <<read_to_end(Number(0), FALSE), print_lines, exit(0)>>
hello_world == <<print(STR), exit(0)>>

\* What exec loads; there is nothing to load for other names.
apps(arg) ==
    [hello_world |-> hello_world, count_lines |-> count_lines, cat |-> cat(arg),
     pipetest |-> pipetest, pipe_large_test |-> pipe_large_test, run_pipe_test |-> run_pipe_test,
     filetest_simple |-> filetest_simple, huge_write |-> huge_write,
     forktest |-> forktest, forktest2 |-> forktest2, forktest_simple |-> forktest_simple, forktree |-> forktree,
     matrix |-> matrix, exit |-> exit_test, sleep |-> sleep_test, usertests |-> usertests,
     stack_overflow |-> stack_overflow, store_fault |-> store_fault, priv_inst |-> priv_inst, priv_csr |-> priv_csr,
     until_timeout |-> until_timeout(arg), infloop |-> <<forever>>]

Names == DOMAIN apps("")
main(args) == apps(IF Len(args) > 1 THEN args[2] ELSE "")[args[1]]

\* What count_lines prints.
lines_of(bytes) ==
    <<ToString(Len(SelectSeq(bytes, LAMBDA b : b = "nl")) + (IF bytes = <<>> THEN 0 ELSE 1)), "nl">>
=============================================================================
