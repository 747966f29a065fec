---------------------------- MODULE ThreadPrograms ----------------------------
(***************************************************************************)
(* The multithreaded programs of user/src/bin on the system calls of Sync: *)
(* the dining philosophers, producers and a consumer, the two examples of  *)
(* a thread that waits for another one, the adders, and plain threads.     *)
(*                                                                         *)
(* A thread is the sequence of its system calls and of its accesses to the *)
(* statics of the program; the timer interrupt may come between any two.   *)
(* What the programs print and the times they measure are left out, and so *)
(* are the adders that race on purpose.  The exit of the main thread, with *)
(* which a program ends, is in ThreadLife.                                 *)
(***************************************************************************)
EXTENDS Sync, SequencesExt

CONSTANTS
    Running,                \* the programs that may be started
    Workers,                \* the threads that main creates, in this order
    ROUND,                  \* of a philosopher
    BUFFER_SIZE,            \* of mpsc_sem
    NUMBER_PER_PRODUCER,
    PER_THREAD              \* additions of a thread

ASSUME ThreadProgramsAssumption ==
    /\ Range(Workers) = Threads \ ({Main} \cup Spinners) /\ IsInjective(Workers)
    /\ {ROUND, BUFFER_SIZE, NUMBER_PER_PRODUCER, PER_THREAD} \subseteq Nat \ {0}

VARIABLES
    code,       \* what every thread still has to do
    lists,      \* mutex_list, semaphore_list and condvar_list of the process
    data,       \* the statics A, OCCUPIED, BUFFER, FRONT and TAIL
    cur,        \* the local variable cur of every thread
    put, taken  \* history: what the producers have put and the consumer taken

programVars == <<code, lists, data, cur, put, taken>>
allVars == <<vars, programVars>>

do(op, arg) == [op |-> op, arg |-> arg]
repeat(n, body) == FlattenSeq([k \in 1 .. n |-> body])
N == Len(Workers)

\* main creates the threads and waits for them.
create_all == [k \in 1 .. N |-> do("thread_create", k)]
waittid_all == [k \in 1 .. N |-> do("waittid", k)]

----------------------------------------------------------------------------
(* The programs: what main and the threads do *)

\* A plausible bug: every philosopher takes the left fork first.
philosopher_left_first(id) ==
    LET left == id
        right == IF id = N - 1 THEN 0 ELSE id + 1
    IN  repeat(ROUND, <<do("sleep", 1), do("mutex_lock", left), do("mutex_lock", right), do("sleep", 1),
                        do("mutex_unlock", right), do("mutex_unlock", left)>>) \o <<do("exit", 0)>>

\* philosopher_dining_problem: the fork with the lower number first.
philosopher_dining_problem(id) ==
    LET left == id
        right == IF id = N - 1 THEN 0 ELSE id + 1
        min == IF left < right THEN left ELSE right
        max == left + right - min
    IN  repeat(ROUND, <<do("sleep", 1), do("mutex_lock", min), do("mutex_lock", max), do("sleep", 1),
                        do("mutex_unlock", max), do("mutex_unlock", min)>>) \o <<do("exit", 0)>>

phil_din_mutex ==
    [main |-> FlattenSeq([k \in 1 .. N |-> <<do("mutex_create", "blocking"), do("thread_create", k)>>]) \o waittid_all,
     threads |-> [k \in 1 .. N |-> philosopher_dining_problem(k - 1)]]

SEM_MUTEX == 0
SEM_EMPTY == 1
SEM_EXISTED == 2


producer(id) ==
    repeat(NUMBER_PER_PRODUCER,
           <<do("semaphore_down", SEM_EMPTY), do("semaphore_down", SEM_MUTEX), do("put", id), do("advance_front", 0),
             do("semaphore_up", SEM_MUTEX), do("semaphore_up", SEM_EXISTED)>>) \o <<do("exit", 0)>>

consumer(producers) ==
    repeat(producers * NUMBER_PER_PRODUCER,
           <<do("semaphore_down", SEM_EXISTED), do("semaphore_down", SEM_MUTEX), do("take", 0), do("advance_tail", 0),
             do("semaphore_up", SEM_MUTEX), do("semaphore_up", SEM_EMPTY)>>) \o <<do("exit", 0)>>

mpsc_sem ==
    [main |-> <<do("semaphore_create", 1), do("semaphore_create", BUFFER_SIZE), do("semaphore_create", 0)>>
              \o create_all \o waittid_all,
     threads |-> [k \in 1 .. N |-> IF k < N THEN producer(k) ELSE consumer(N - 1)]]

SEM_SYNC == 0
first_sem == <<do("sleep", 1), do("semaphore_up", SEM_SYNC), do("exit", 0)>>
second_sem == <<do("semaphore_down", SEM_SYNC), do("exit", 0)>>
only_two(first, second) == [k \in 1 .. N |-> CASE k = 1 -> first [] k = 2 -> second [] OTHER -> <<do("exit", 0)>>]

sync_sem ==
    [main |-> <<do("semaphore_create", 0)>> \o SubSeq(create_all, 1, 2) \o SubSeq(waittid_all, 1, 2),
     threads |-> only_two(first_sem, second_sem)]

CONDVAR_ID == 0
MUTEX_ID == 0
first_condvar ==
    <<do("sleep", 1), do("mutex_lock", MUTEX_ID), do("set_A", 1), do("condvar_signal", CONDVAR_ID),
      do("mutex_unlock", MUTEX_ID), do("exit", 0)>>
second_condvar == <<do("mutex_lock", MUTEX_ID), do("while_A_is_0", 0), do("mutex_unlock", MUTEX_ID), do("exit", 0)>>

test_condvar ==
    [main |-> <<do("condvar_create", 0), do("mutex_create", "blocking")>> \o SubSeq(create_all, 1, 2) \o SubSeq(waittid_all, 1, 2),
     threads |-> only_two(first_condvar, second_condvar)]

add == <<do("read_A", 0), do("write_A", 0)>>
adder(create, enter, leave) ==
    [main |-> create \o create_all \o waittid_all \o <<do("assert_A", N * PER_THREAD)>>,
     threads |-> [k \in 1 .. N |-> repeat(PER_THREAD, enter \o add \o leave) \o <<do("exit", 0)>>]]

race_adder_mutex_blocking ==
    adder(<<do("mutex_create", "blocking")>>, <<do("mutex_lock", 0)>>, <<do("mutex_unlock", 0)>>)
race_adder_mutex_spin == adder(<<do("mutex_create", "spin")>>, <<do("mutex_lock", 0)>>, <<do("mutex_unlock", 0)>>)
race_adder_atomic == adder(<<>>, <<do("compare_exchange", 0)>>, <<do("release", 0)>>)

threads == [main |-> create_all \o waittid_all, threads |-> [k \in 1 .. N |-> <<do("exit", k)>>]]
threads_arg == [main |-> create_all \o waittid_all, threads |-> [k \in 1 .. N |-> <<do("exit", k)>>]]

program(name) ==
    CASE name = "phil_din_mutex" -> phil_din_mutex
      [] name = "mpsc_sem" -> mpsc_sem
      [] name = "sync_sem" -> sync_sem
      [] name = "test_condvar" -> test_condvar
      [] name = "race_adder_mutex_blocking" -> race_adder_mutex_blocking
      [] name = "race_adder_mutex_spin" -> race_adder_mutex_spin
      [] name = "race_adder_atomic" -> race_adder_atomic
      [] name = "threads" -> threads
      [] name = "threads_arg" -> threads_arg

\* The number of the thread t among the workers.
index(t) == CHOOSE k \in 1 .. N : Workers[k] = t

InitProgram ==
    /\ Init
    /\ \E name \in Running :
          code = [t \in Threads |-> IF t = Main THEN program(name).main
                                    ELSE IF t \in Spinners THEN <<>>
                                    ELSE program(name).threads[index(t)]]
    /\ lists = [mutex |-> <<>>, semaphore |-> <<>>, condvar |-> <<>>]
    /\ data = [A |-> 0, OCCUPIED |-> FALSE, BUFFER |-> [i \in 0 .. (BUFFER_SIZE - 1) |-> 0], FRONT |-> 0, TAIL |-> 0]
    /\ cur = [t \in Threads |-> 0]
    /\ put = <<>> /\ taken = <<>>

----------------------------------------------------------------------------
(* System calls *)

At(t, op) == Client(t) /\ code[t] # <<>> /\ Head(code[t]).op = op
Arg(t) == Head(code[t]).arg
Proceeds(t) == code' = [code EXCEPT ![t] = Tail(@)]

\* The object with an id; the lists are indexed without a test.
Has(list, id) == id < Len(list)
Mutex(t) == lists.mutex[Arg(t) + 1]
Sem(t) == lists.semaphore[Arg(t) + 1]

Created(t, kind, o) ==
    /\ lists' = [lists EXCEPT ![kind] = Append(@, o)]
    /\ Proceeds(t)
    /\ UNCHANGED <<data, cur, put, taken>>

Called(t) == Proceeds(t) /\ UNCHANGED <<lists, data, cur, put, taken>>

\* sys_mutex_create; no entry of a list is ever None, so it always pushes.
sys_mutex_create(t) ==
    LET fresh == (IF Arg(t) = "spin" THEN SpinMutexes ELSE Mutexes \ SpinMutexes) \ Range(lists.mutex)
    IN  /\ At(t, "mutex_create")
        /\ Created(t, "mutex", CHOOSE m \in fresh : TRUE)
        /\ UNCHANGED vars

sys_semaphore_create(t) ==
    LET s == CHOOSE s \in Sems \ Range(lists.semaphore) : TRUE
    IN  /\ At(t, "semaphore_create")
        /\ Created(t, "semaphore", s)
        /\ count' = [count EXCEPT ![s] = Arg(t)]
        /\ UNCHANGED <<schedVars, cont, locked, wait_queue, timers, now, exited, panicked, owns>>

sys_condvar_create(t) ==
    /\ At(t, "condvar_create")
    /\ Created(t, "condvar", CHOOSE c \in Condvars \ Range(lists.condvar) : TRUE)
    /\ UNCHANGED vars

mutex_lock(t) == At(t, "mutex_lock") /\ Has(lists.mutex, Arg(t)) /\ sys_mutex_lock(t, Mutex(t)) /\ Called(t)
mutex_unlock(t) == At(t, "mutex_unlock") /\ Has(lists.mutex, Arg(t)) /\ sys_mutex_unlock(t, Mutex(t)) /\ Called(t)
semaphore_up(t) == At(t, "semaphore_up") /\ Has(lists.semaphore, Arg(t)) /\ sys_semaphore_up(t, Sem(t)) /\ Called(t)
semaphore_down(t) == At(t, "semaphore_down") /\ Has(lists.semaphore, Arg(t)) /\ sys_semaphore_down(t, Sem(t)) /\ Called(t)

condvar_signal(t) ==
    /\ At(t, "condvar_signal") /\ Has(lists.condvar, Arg(t))
    /\ sys_condvar_signal(t, lists.condvar[Arg(t) + 1])
    /\ Called(t)

condvar_wait(t) ==
    /\ At(t, "condvar_wait") /\ Has(lists.condvar, CONDVAR_ID) /\ Has(lists.mutex, MUTEX_ID)
    /\ sys_condvar_wait(t, lists.condvar[CONDVAR_ID + 1], lists.mutex[MUTEX_ID + 1])
    /\ Called(t)

\* The clock stops at MaxTime; from then on a sleep ends at the next interrupt.
sleep(t) == At(t, "sleep") /\ sys_sleep(t, IF now + Arg(t) <= MaxTime THEN Arg(t) ELSE 0) /\ Called(t)

thread_create(t) == At(t, "thread_create") /\ sys_thread_create(t, Workers[Arg(t)]) /\ Called(t)

exit(t) == At(t, "exit") /\ sys_exit(t) /\ Called(t)

\* waittid of the user library yields until the thread has exited.
waittid(t) ==
    /\ At(t, "waittid")
    /\ IF Workers[Arg(t)] \in exited THEN Called(t) /\ UNCHANGED vars
       ELSE sys_yield(t) /\ UNCHANGED programVars

----------------------------------------------------------------------------
(* Accesses to the statics *)

\* The loop of second(): wait while A is 0.
while_A_is_0(t) ==
    /\ At(t, "while_A_is_0")
    /\ code' = [code EXCEPT ![t] = IF data.A = 0 THEN <<do("condvar_wait", 0)>> \o @ ELSE Tail(@)]
    /\ UNCHANGED <<vars, lists, data, cur, put, taken>>

\* while compare_exchange(false, true).is_err() { yield_() }
compare_exchange(t) ==
    /\ At(t, "compare_exchange")
    /\ IF data.OCCUPIED THEN sys_yield(t) /\ UNCHANGED programVars
       ELSE /\ data' = [data EXCEPT !.OCCUPIED = TRUE]
            /\ Proceeds(t)
            /\ UNCHANGED <<vars, lists, cur, put, taken>>

\* A statement of a thread that changes a static or its cur.
access(t) ==
    LET stores(d) == data' = d /\ UNCHANGED <<cur, put, taken>>
    IN  /\ \/ At(t, "set_A") /\ stores([data EXCEPT !.A = Arg(t)])
           \/ At(t, "release") /\ stores([data EXCEPT !.OCCUPIED = FALSE])
           \/ At(t, "read_A") /\ cur' = [cur EXCEPT ![t] = data.A] /\ UNCHANGED <<data, put, taken>>
           \/ At(t, "write_A") /\ stores([data EXCEPT !.A = cur[t] + 1])
           \/ At(t, "put") /\ data' = [data EXCEPT !.BUFFER[data.FRONT] = Arg(t)] /\ put' = Append(put, Arg(t))
                           /\ UNCHANGED <<cur, taken>>
           \/ At(t, "advance_front") /\ stores([data EXCEPT !.FRONT = (@ + 1) % BUFFER_SIZE])
           \/ At(t, "take") /\ taken' = Append(taken, data.BUFFER[data.TAIL]) /\ UNCHANGED <<data, cur, put>>
           \/ At(t, "advance_tail") /\ stores([data EXCEPT !.TAIL = (@ + 1) % BUFFER_SIZE])
           \/ At(t, "assert_A") /\ data.A = Arg(t) /\ UNCHANGED <<data, cur, put, taken>>
        /\ Proceeds(t)
        /\ UNCHANGED <<vars, lists>>

----------------------------------------------------------------------------

runs(t) ==
    \/ sys_mutex_create(t) \/ sys_semaphore_create(t) \/ sys_condvar_create(t)
    \/ mutex_lock(t) \/ mutex_unlock(t) \/ semaphore_up(t) \/ semaphore_down(t)
    \/ condvar_signal(t) \/ condvar_wait(t) \/ sleep(t)
    \/ thread_create(t) \/ exit(t) \/ waittid(t)
    \/ while_A_is_0(t) \/ compare_exchange(t) \/ access(t)

\* The philosophers' first sleeps (300 ms and more) outlast main's loop, which
\* creates the last fork.  The time matters only while a thread sleeps.
ticks ==
    /\ timers # {} /\ do("mutex_create", "blocking") \notin Range(code[Main])
    /\ tick
    /\ UNCHANGED programVars

runs_kernel(t) == resume(t) /\ UNCHANGED programVars
interrupted(t) == timer_interrupt(t) /\ UNCHANGED programVars
spins(t) == t \in Spinners /\ sys_yield(t) /\ UNCHANGED programVars
idles == idle /\ UNCHANGED programVars

NextProgram == idles \/ ticks \/ \E t \in Threads : runs(t) \/ runs_kernel(t) \/ interrupted(t) \/ spins(t)

\* As in Sync; and a time slice is long enough for an instruction, so a thread
\* that gets the processor again and again runs on.
ProgramSpec ==
    /\ InitProgram /\ [][NextProgram]_allVars
    /\ WF_allVars(idles) /\ WF_allVars(ticks)
    /\ WF_allVars(\E t \in Threads : runs_kernel(t))
    /\ SF_allVars(\E t \in Threads : interrupted(t))
    /\ \A t \in Threads : SF_allVars(runs(t))

----------------------------------------------------------------------------
(* Properties *)

\* Every program finishes: no philosopher starves with a fork, no wake-up is
\* lost between a test and a wait, no spinning thread keeps the others out.
ProgramFinishes == <>(code[Main] = <<>>)

\* The assertions of the programs and of the kernel hold: the sum is exact
\* when main looks at it, an object exists when its id is used, and a mutex
\* that is unlocked or waited with is locked by the thread that does it.
ProgramAssertions ==
    \A t \in Threads :
        /\ At(t, "assert_A") => data.A = Arg(t)
        /\ At(t, "mutex_lock") => Has(lists.mutex, Arg(t))
        /\ At(t, "mutex_unlock") => Has(lists.mutex, Arg(t)) /\ locked[Mutex(t)] /\ Mutex(t) \in owns[t]
        /\ At(t, "condvar_wait") => locked[lists.mutex[MUTEX_ID + 1]]

=============================================================================
