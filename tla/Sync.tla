-------------------------------- MODULE Sync ---------------------------------
(***************************************************************************)
(* The threads of one process on the synchronisation objects of            *)
(* os/src/sync (spin mutex, blocking mutex, semaphore, condition variable) *)
(* and the sleep timers of os/src/timer.rs, scheduled by Scheduler, with   *)
(* the system calls of os/src/syscall/sync.rs and the timer interrupt of   *)
(* os/src/trap/mod.rs.                                                     *)
(*                                                                         *)
(* A thread that leaves the processor inside the kernel resumes there: the *)
(* variable cont says where.  Threads that are at "user" run user code,    *)
(* which may make any system call or be interrupted by the timer.          *)
(***************************************************************************)
EXTENDS Scheduler, FiniteSets, Functions

CONSTANTS
    Main,           \* the thread that exists when the model starts
    Spinners,       \* threads that run initproc's loop: they only yield
    Mutexes, Sems, Condvars,  \* the objects, created before the threads
    SpinMutexes,    \* the mutexes created with blocking = false
    NoMutex,
    Disciplined,    \* clients release only mutexes they hold
    InitCount,      \* res_count of sys_semaphore_create
    MaxCount,       \* bound on a semaphore's count (the code has isize)
    Delays,         \* the arguments of sys_sleep
    MaxTime,        \* bound on the clock
    WordMod         \* number of values of usize (2^64 in the build)

ASSUME SyncAssumption ==
    /\ IsFiniteSet(Threads)
    /\ Spinners \subseteq Threads
    /\ Main \in Threads \ Spinners
    /\ SpinMutexes \subseteq Mutexes
    /\ NoMutex \notin Mutexes
    /\ Mutexes \cap Sems = {}
    /\ Mutexes \cap Condvars = {}
    /\ Sems \cap Condvars = {}
    /\ Disciplined \in BOOLEAN
    /\ InitCount \in [Sems -> Nat]
    /\ MaxCount \in Nat
    /\ MaxTime \in Nat
    /\ WordMod \in Nat \ {0}
    /\ Delays \subseteq 0 .. (WordMod - 1)

Objects == Mutexes \cup Sems \cup Condvars

VARIABLES
    cont,           \* cont[t]: where thread t continues when it runs again
    locked,         \* MutexSpin.locked, MutexBlockingInner.locked
    wait_queue,     \* the wait_queue of every object (empty for a spin mutex)
    count,          \* SemaphoreInner.count
    timers,         \* the heap TIMERS; a thread has at most one entry
    now,            \* get_time_ms()
    exited,         \* threads whose exit_code is Some
    panicked,       \* an assertion of the kernel has failed
    owns            \* history: the mutexes whose lock() has returned to t and
                    \* that t has not released; no action depends on it but
                    \* through Disciplined

syncVars == <<cont, locked, wait_queue, count, timers, now, exited, panicked, owns>>
vars == <<current, ready_queue, task_status, syncVars>>

InUser == [pc |-> "user", m |-> NoMutex]
Conts == {InUser} \cup [pc : {"spin", "granted", "relock"}, m : Mutexes]
Spinning(m) == [pc |-> "spin", m |-> m]      \* in MutexSpin::lock
Granted(m) == [pc |-> "granted", m |-> m]    \* after MutexBlocking::lock blocked
Relock(m) == [pc |-> "relock", m |-> m]      \* after Condvar::wait blocked

\* Every component has the values its Rust type allows, and the wait queues
\* hold threads.
TypeOK ==
    /\ SchedTypeOK
    /\ cont \in [Threads -> Conts]
    /\ locked \in [Mutexes -> BOOLEAN]
    /\ wait_queue \in [Objects -> Seq(Threads)]
    /\ count \in [Sems -> Int]
    /\ timers \subseteq [expire_ms : 0 .. (WordMod - 1), task : Threads]
    /\ now \in Nat
    /\ exited \subseteq Threads
    /\ panicked \in BOOLEAN
    /\ owns \in [Threads -> SUBSET Mutexes]

\* The main thread and the spinning threads of other processes are queued in
\* some order; every object is fresh.
Init ==
    /\ current = NoThread
    /\ ready_queue \in LET S == {Main} \cup Spinners
                      IN  Bijection(1 .. Cardinality(S), S)
    /\ task_status = [t \in Threads |->
                        IF t \in {Main} \cup Spinners THEN "Ready" ELSE "None"]
    /\ cont = [t \in Threads |-> InUser]
    /\ locked = [m \in Mutexes |-> FALSE]
    /\ wait_queue = [o \in Objects |-> <<>>]
    /\ count = InitCount
    /\ timers = {}
    /\ now = 0
    /\ exited = {}
    /\ panicked = FALSE
    /\ owns = [t \in Threads |-> {}]

\* t runs user code, from which a trap may take it into the kernel.
User(t) == ~panicked /\ current = t /\ cont[t].pc = "user"

\* t runs a user program other than initproc.
Client(t) == User(t) /\ t \notin Spinners

----------------------------------------------------------------------------
(* Mutexes: sync/mutex.rs *)

\* A plausible bug: the flag is taken without being looked at.
lock_free_unchecked(t, m) ==
    /\ locked' = [locked EXCEPT ![m] = TRUE]
    /\ owns' = [owns EXCEPT ![t] = @ \cup {m}]
    /\ cont' = [cont EXCEPT ![t] = InUser]
    /\ KeepRunning(ready_queue)
    /\ UNCHANGED wait_queue

\* MutexBlocking::lock when it finds locked = FALSE, and the same in
\* MutexSpin::lock: the call returns.
lock_free(t, m) ==
    /\ ~locked[m]
    /\ locked' = [locked EXCEPT ![m] = TRUE]
    /\ owns' = [owns EXCEPT ![t] = @ \cup {m}]
    /\ cont' = [cont EXCEPT ![t] = InUser]
    /\ KeepRunning(ready_queue)
    /\ UNCHANGED wait_queue

\* MutexSpin::lock when the mutex is taken: yield and look again.
lock_spins(t, m) ==
    /\ m \in SpinMutexes
    /\ locked[m]
    /\ cont' = [cont EXCEPT ![t] = Spinning(m)]
    /\ suspend_current_and_run_next(t, ready_queue)
    /\ UNCHANGED <<locked, owns, wait_queue>>

\* A plausible bug: push_front instead of push_back.
lock_blocks_LIFO(t, m) ==
    /\ m \notin SpinMutexes
    /\ locked[m]
    /\ wait_queue' = [wait_queue EXCEPT ![m] = <<t>> \o @]
    /\ cont' = [cont EXCEPT ![t] = Granted(m)]
    /\ block_current_and_run_next(t, ready_queue)
    /\ UNCHANGED <<locked, owns>>

\* MutexBlocking::lock when the mutex is taken: queue up and block.
lock_blocks(t, m) ==
    /\ m \notin SpinMutexes
    /\ locked[m]
    /\ wait_queue' = [wait_queue EXCEPT ![m] = Append(@, t)]
    /\ cont' = [cont EXCEPT ![t] = Granted(m)]
    /\ block_current_and_run_next(t, ready_queue)
    /\ UNCHANGED <<locked, owns>>

lock(t, m) == lock_free(t, m) \/ lock_spins(t, m) \/ lock_blocks(t, m)

\* The assertion of MutexBlocking::unlock; MutexSpin::unlock has none.
unlock_asserts(m) == m \in SpinMutexes \/ locked[m]

\* A plausible bug: the mutex is released although a waiter is woken too.
unlock_without_handoff(m) == [locked EXCEPT ![m] = FALSE]

\* A plausible bug: the flag is not cleared when nobody waits.
unlock_keeps_locked(m) == locked

\* MutexBlocking::unlock hands the mutex to its first waiter and leaves locked
\* TRUE; without a waiter, and in MutexSpin::unlock, locked becomes FALSE.
unlock(m) == [locked EXCEPT ![m] = wait_queue[m] # <<>>]

\* The wait queues after pop_front on that of o.
pop_front(o) == [wait_queue EXCEPT ![o] = IF @ = <<>> THEN @ ELSE Tail(@)]

\* The ready queue after add_task of the thread that pop_front returned.
wake_first(o) ==
    IF wait_queue[o] = <<>> THEN ready_queue
                            ELSE add_task(ready_queue, Head(wait_queue[o]))

sys_mutex_lock(t, m) ==
    /\ Client(t)
    /\ lock(t, m)
    /\ UNCHANGED <<count, timers, now, exited, panicked>>

sys_mutex_unlock(t, m) ==
    /\ Client(t)
    /\ Disciplined => m \in owns[t]
    /\ unlock_asserts(m)
    /\ locked' = unlock(m)
    /\ wait_queue' = pop_front(m)
    /\ owns' = [owns EXCEPT ![t] = @ \ {m}]
    /\ KeepRunning(wake_first(m))
    /\ UNCHANGED <<cont, count, timers, now, exited, panicked>>

\* sys_mutex_unlock or sys_condvar_wait on a blocking mutex that is free: the
\* assertion fails and the kernel stops.
unlock_panics(t, m) ==
    /\ Client(t)
    /\ Disciplined => m \in owns[t]
    /\ ~unlock_asserts(m)
    /\ panicked' = TRUE
    /\ UNCHANGED <<schedVars, cont, locked, wait_queue, count, timers, now, exited, owns>>

----------------------------------------------------------------------------
(* Semaphores: sync/semaphore.rs *)

\* A plausible bug: a waiter is woken only when the count is negative still.
up_strict(t, s) ==
    /\ Client(t)
    /\ count[s] < MaxCount
    /\ count' = [count EXCEPT ![s] = @ + 1]
    /\ IF count'[s] < 0
       THEN wait_queue' = pop_front(s) /\ KeepRunning(wake_first(s))
       ELSE UNCHANGED wait_queue /\ KeepRunning(ready_queue)
    /\ UNCHANGED <<cont, locked, timers, now, exited, panicked, owns>>

sys_semaphore_up(t, s) ==
    /\ Client(t)
    /\ count[s] < MaxCount
    /\ count' = [count EXCEPT ![s] = @ + 1]
    /\ IF count'[s] <= 0
       THEN wait_queue' = pop_front(s) /\ KeepRunning(wake_first(s))
       ELSE UNCHANGED wait_queue /\ KeepRunning(ready_queue)
    /\ UNCHANGED <<cont, locked, timers, now, exited, panicked, owns>>

\* A plausible bug: push_front instead of push_back.
down_LIFO(t, s) ==
    /\ Client(t)
    /\ count' = [count EXCEPT ![s] = @ - 1]
    /\ IF count'[s] < 0
       THEN /\ wait_queue' = [wait_queue EXCEPT ![s] = <<t>> \o @]
            /\ block_current_and_run_next(t, ready_queue)
       ELSE UNCHANGED wait_queue /\ KeepRunning(ready_queue)
    /\ UNCHANGED <<cont, locked, timers, now, exited, panicked, owns>>

sys_semaphore_down(t, s) ==
    /\ Client(t)
    /\ count' = [count EXCEPT ![s] = @ - 1]
    /\ IF count'[s] < 0
       THEN /\ wait_queue' = [wait_queue EXCEPT ![s] = Append(@, t)]
            /\ block_current_and_run_next(t, ready_queue)
       ELSE UNCHANGED wait_queue /\ KeepRunning(ready_queue)
    /\ UNCHANGED <<cont, locked, timers, now, exited, panicked, owns>>

----------------------------------------------------------------------------
(* Condition variables: sync/condvar.rs *)

sys_condvar_signal(t, c) ==
    /\ Client(t)
    /\ wait_queue' = pop_front(c)
    /\ KeepRunning(wake_first(c))
    /\ UNCHANGED <<cont, locked, count, timers, now, exited, panicked, owns>>

\* Condvar::wait up to its block_current_and_run_next: the mutex is released
\* and the thread queued in one step.
sys_condvar_wait(t, c, m) ==
    /\ Client(t)
    /\ Disciplined => m \in owns[t]
    /\ unlock_asserts(m)
    /\ locked' = unlock(m)
    /\ wait_queue' = [pop_front(m) EXCEPT ![c] = Append(@, t)]
    /\ owns' = [owns EXCEPT ![t] = @ \ {m}]
    /\ cont' = [cont EXCEPT ![t] = Relock(m)]
    /\ block_current_and_run_next(t, wake_first(m))
    /\ UNCHANGED <<count, timers, now, exited, panicked>>

----------------------------------------------------------------------------
(* The rest of a system call whose thread runs again *)

\* MutexSpin::lock goes round its loop; Condvar::wait calls mutex.lock().
resume_locks(t) ==
    /\ ~panicked
    /\ current = t
    /\ cont[t].pc \in {"spin", "relock"}
    /\ lock(t, cont[t].m)
    /\ UNCHANGED <<count, timers, now, exited, panicked>>

\* MutexBlocking::lock returns: the thread was handed the mutex.
resume_granted(t) ==
    /\ ~panicked
    /\ current = t
    /\ cont[t].pc = "granted"
    /\ owns' = [owns EXCEPT ![t] = @ \cup {cont[t].m}]
    /\ cont' = [cont EXCEPT ![t] = InUser]
    /\ KeepRunning(ready_queue)
    /\ UNCHANGED <<locked, wait_queue, count, timers, now, exited, panicked>>

----------------------------------------------------------------------------
(* Sleeping: sys_sleep and timer.rs *)

\* The value of `x as isize`.
as_isize(x) == IF 2 * x >= WordMod THEN x - WordMod ELSE x

\* A plausible bug: the heap is ordered by the time itself, latest first.
heap_key_unnegated(x) == as_isize(x)

\* The key -(expire_ms as isize) by which TimerCondVar is ordered; the heap's
\* top is an entry with the greatest key.  Negating isize::MIN wraps to itself.
heap_key(x) == IF 2 * x = WordMod THEN as_isize(x) ELSE -as_isize(x)

\* The entries the loop of check_timer pops: it stops at the first top that
\* has not expired, so an entry is popped when it has expired and so has
\* every entry that may be at the top before it.
check_timer(current_ms) ==
    {x \in timers : \A y \in timers :
        heap_key(y.expire_ms) >= heap_key(x.expire_ms) => y.expire_ms <= current_ms}

\* The orders in which the popped entries may come off the heap.
pop_orders(P) ==
    {s \in Bijection(1 .. Cardinality(P), P) :
        \A i, j \in 1 .. Cardinality(P) :
            i < j => heap_key(s[i].expire_ms) >= heap_key(s[j].expire_ms)}

sys_sleep(t, ms) ==
    /\ Client(t)
    /\ timers' = timers \cup {[expire_ms |-> (now + ms) % WordMod, task |-> t]}
    /\ block_current_and_run_next(t, ready_queue)
    /\ UNCHANGED <<cont, locked, wait_queue, count, now, exited, panicked, owns>>

\* The SupervisorTimer arm of trap_handler: check_timer wakes the sleepers,
\* then the interrupted thread is suspended.
timer_interrupt(t) ==
    /\ User(t)
    /\ \E s \in pop_orders(check_timer(now)) :
          suspend_current_and_run_next(t, ready_queue \o [i \in DOMAIN s |-> s[i].task])
    /\ timers' = timers \ check_timer(now)
    /\ UNCHANGED <<cont, locked, wait_queue, count, now, exited, panicked, owns>>

tick ==
    /\ ~panicked
    /\ now < MaxTime
    /\ now' = now + 1
    /\ UNCHANGED <<schedVars, cont, locked, wait_queue, count, timers, exited, panicked, owns>>

----------------------------------------------------------------------------
(* Threads come, yield and go; the main thread's exit is in ThreadLife *)

sys_thread_create(t, u) ==
    /\ Client(t)
    /\ task_status[u] = "None"
    /\ spawn(u, ready_queue)
    /\ UNCHANGED syncVars

sys_yield(t) ==
    /\ User(t)
    /\ suspend_current_and_run_next(t, ready_queue)
    /\ UNCHANGED syncVars

sys_exit(t) ==
    /\ Client(t)
    /\ t # Main
    /\ exited' = exited \cup {t}
    /\ exit_leaves_processor(ready_queue)
    /\ UNCHANGED <<cont, locked, wait_queue, count, timers, now, panicked, owns>>

idle == ~panicked /\ run_tasks /\ UNCHANGED syncVars
idle_empty == ~panicked /\ run_tasks_idle /\ UNCHANGED syncVars

resume(t) == resume_locks(t) \/ resume_granted(t)

Next ==
    \/ idle
    \/ idle_empty
    \/ tick
    \/ \E t \in Threads :
          \/ resume(t)
          \/ timer_interrupt(t)
          \/ sys_yield(t)
          \/ sys_exit(t)
          \/ \E u \in Threads : sys_thread_create(t, u)
          \/ \E ms \in Delays : sys_sleep(t, ms)
          \/ \E m \in Mutexes : sys_mutex_lock(t, m) \/ sys_mutex_unlock(t, m) \/ unlock_panics(t, m)
          \/ \E s \in Sems : sys_semaphore_up(t, s) \/ sys_semaphore_down(t, s)
          \/ \E c \in Condvars : sys_condvar_signal(t, c)
          \/ \E c \in Condvars, m \in Mutexes : sys_condvar_wait(t, c, m)

Spec == Init /\ [][Next]_vars

\* The idle loop and a thread inside the kernel run on.  The clock advances.
\* The timer interrupt stays pending while the kernel runs and is taken at the
\* first user instruction, hence strong fairness.  User code owes nothing.
Fairness ==
    /\ WF_vars(idle)
    /\ WF_vars(\E t \in Threads : resume(t))
    /\ SF_vars(\E t \in Threads : timer_interrupt(t))
    /\ WF_vars(tick)

LiveSpec == Spec /\ Fairness

----------------------------------------------------------------------------
(* Properties *)

Ready == Range(ready_queue)
Waiting(o) == Range(wait_queue[o])
Unborn == {t \in Threads : task_status[t] = "None"}

\* Every thread is at exactly one of the processor, the ready queue rq, one of
\* the wait queues wq, the timer heap tm, the exited threads ex and those not
\* created, none; and no queue holds a thread twice.
Placed(cur, rq, wq, tm, ex, none) ==
    LET waits(t) == \E o \in Objects : t \in Range(wq[o])
        sleeps(t) == \E x \in tm : x.task = t
    IN  /\ \A t \in Threads :
              /\ t = cur \/ t \in Range(rq) \/ waits(t) \/ sleeps(t) \/ t \in ex \/ t \in none
              /\ t = cur => t \notin Range(rq) /\ ~waits(t) /\ ~sleeps(t) /\ t \notin ex /\ t \notin none
              /\ t \in Range(rq) => ~waits(t) /\ ~sleeps(t) /\ t \notin ex /\ t \notin none
              /\ waits(t) => ~sleeps(t) /\ t \notin ex /\ t \notin none
              /\ sleeps(t) => t \notin ex /\ t \notin none
              /\ t \in ex => t \notin none
        /\ \A o, p \in Objects : o # p => Range(wq[o]) \cap Range(wq[p]) = {}
        /\ IsInjective(rq)
        /\ \A o \in Objects : IsInjective(wq[o])
        /\ \A x, y \in tm : x.task = y.task => x = y

\* No thread is lost and none is scheduled twice: every thread is in exactly
\* one place.  Every wake-up (unlock, up, signal, check_timer) moves an Arc
\* between these structures without looking at the thread's status, so a
\* thread in two of them would run twice, and one in none would never run.
OnePlace == Placed(current, ready_queue, wait_queue, timers, exited, Unborn)

\* Mutual exclusion: no two threads are between the return of lock() and their
\* unlock() or condvar wait() on the same mutex, whichever of the three paths
\* through lock() they took (free, spinning, handed over).
MutualExclusion ==
    Disciplined =>
        \A m \in Mutexes, t, u \in Threads : m \in owns[t] /\ m \in owns[u] => t = u

\* t owns m, or unlock() has handed m to t and t has not run since.
Claims(t, m) ==
    \/ m \in owns[t]
    \/ cont[t] = Granted(m) /\ t \notin Waiting(m)

\* No unlock is lost: a locked mutex always has a thread that owns it or was
\* handed it, and a thread waits only for a mutex that is locked.  Otherwise
\* the waiters of a mutex that nobody will unlock stay blocked for ever.
LockedHasClaimant ==
    /\ Disciplined => \A m \in Mutexes : locked[m] => \E t \in Threads : Claims(t, m)
    /\ \A m \in Mutexes : wait_queue[m] # <<>> => locked[m]

\* The assertion of MutexBlocking::unlock never fails for programs that
\* release only mutexes they hold.
NoPanic == Disciplined => ~panicked

\* A negative count is the number of waiters, and there are waiters only when
\* the count is negative: no up() is lost and none lets two threads through.
SemaphoreAccounting ==
    \A s \in Sems : Len(wait_queue[s]) = IF count[s] < 0 THEN -count[s] ELSE 0

\* A lock() that finds the blocking mutex free overtakes no queued thread.
NoBarging ==
    [][\A m \in Mutexes \ SpinMutexes, t \in Threads :
          (m \notin owns[t] /\ m \in owns'[t] /\ cont[t] # Granted(m)) => wait_queue[m] = <<>>]_vars

\* The timer interrupt wakes the sleepers whose time has come and no other,
\* although check_timer stops at the first top of the heap that is still in
\* the future.  (It holds while no sleep reaches half of usize.)
TimerExact ==
    [][(\E t \in Threads : timer_interrupt(t))
          => timers' = {x \in timers : x.expire_ms > now}]_vars

\* A thread in the ready queue is eventually run: the FIFO queue and the timer
\* interrupt starve nobody.
ReadyRuns == \A t \in Threads : (t \in Ready) ~> (current = t)

\* A sleeping thread eventually runs again.  check_timer is called by the
\* timer interrupt of a thread in user mode only, so this needs a thread that
\* never blocks: initproc.
SleepersWake ==
    \A t \in Threads :
        (\E x \in timers : x.task = t /\ x.expire_ms <= MaxTime) ~> (current = t \/ panicked)

\* If everybody who acquires the blocking mutex releases it, everybody who
\* waits for it gets it: the hand-over in unlock() is first come, first served.
MutexProgress ==
    \A m \in Mutexes \ SpinMutexes, t \in Threads :
        (\A u \in Threads : []<>(m \notin owns[u]))
            => ((t \in Waiting(m)) ~> (m \in owns[t]))

\* If up() is called again and again, every thread that waits in down() runs.
SemaphoreProgress ==
    \A s \in Sems, t \in Threads :
        []<><<\E u \in Threads : sys_semaphore_up(u, s)>>_vars
            => ((t \in Waiting(s)) ~> (current = t))

=============================================================================
