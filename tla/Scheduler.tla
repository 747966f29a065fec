------------------------------ MODULE Scheduler ------------------------------
(***************************************************************************)
(* The FIFO ready queue (os/src/task/manager.rs), the processor and its    *)
(* idle loop (os/src/task/processor.rs) and the three ways in which a      *)
(* thread gives up the processor (os/src/task/mod.rs).                     *)
(*                                                                         *)
(* The kernel runs on one hart and takes no interrupt in supervisor mode,  *)
(* so everything a thread does in the kernel between two calls of          *)
(* schedule() is one atomic step.  The definitions below are therefore     *)
(* fragments of actions: the module of a system call conjoins one of them  *)
(* with what the call does before it reaches schedule().  q is always the  *)
(* ready queue as the call has left it when it gets there, so that a call  *)
(* that wakes other threads and then leaves the processor is one step.     *)
(***************************************************************************)
EXTENDS Integers, Sequences

CONSTANTS
    Threads,    \* thread control blocks, each used for one thread
    NoThread    \* Processor.current when the idle loop runs

ASSUME NoThreadAssumption == NoThread \notin Threads

VARIABLES
    current,        \* PROCESSOR.current
    ready_queue,    \* TASK_MANAGER.ready_queue, its front at index 1
    task_status     \* TaskControlBlockInner.task_status; "None" before the
                    \* thread control block is allocated

schedVars == <<current, ready_queue, task_status>>

SchedTypeOK ==
    /\ current \in Threads \cup {NoThread}
    /\ ready_queue \in Seq(Threads)
    /\ task_status \in [Threads -> {"None", "Ready", "Running", "Blocking"}]

----------------------------------------------------------------------------

\* A plausible bug: a stack instead of a FIFO.
add_task_LIFO(q, t) == <<t>> \o q

\* TaskManager::add pushes at the back.
add_task(q, t) == Append(q, t)

\* The call returns to its caller without leaving the processor.
KeepRunning(q) ==
    /\ ready_queue' = q
    /\ UNCHANGED <<current, task_status>>

\* A plausible bug: the thread is not pushed back to the ready queue.
suspend_forgets_queue(t, q) ==
    /\ current' = NoThread
    /\ task_status' = [task_status EXCEPT ![t] = "Ready"]
    /\ ready_queue' = q

suspend_current_and_run_next(t, q) ==
    /\ current' = NoThread
    /\ task_status' = [task_status EXCEPT ![t] = "Ready"]
    /\ ready_queue' = add_task(q, t)

\* The caller has put t into a wait queue or the timer heap before.
block_current_and_run_next(t, q) ==
    /\ current' = NoThread
    /\ task_status' = [task_status EXCEPT ![t] = "Blocking"]
    /\ ready_queue' = q

\* The scheduling part of exit_current_and_run_next: take_current_task and
\* schedule; the status stays Running and the thread is in no queue.
exit_leaves_processor(q) ==
    /\ current' = NoThread
    /\ ready_queue' = q
    /\ UNCHANGED task_status

\* TaskControlBlock::new followed by add_task.
spawn(t, q) ==
    /\ ready_queue' = add_task(q, t)
    /\ task_status' = [task_status EXCEPT ![t] = "Ready"]
    /\ UNCHANGED current

\* A plausible bug: the fetched thread stays in the ready queue.
run_tasks_keeps_head ==
    /\ current = NoThread
    /\ ready_queue # <<>>
    /\ current' = Head(ready_queue)
    /\ ready_queue' = ready_queue
    /\ task_status' = [task_status EXCEPT ![Head(ready_queue)] = "Running"]

\* The idle loop fetches the next thread and switches to it.  A thread that a
\* wake-up put into the queue still has the status Blocking until now.
run_tasks ==
    /\ current = NoThread
    /\ ready_queue # <<>>
    /\ current' = Head(ready_queue)
    /\ ready_queue' = Tail(ready_queue)
    /\ task_status' = [task_status EXCEPT ![Head(ready_queue)] = "Running"]

\* "no tasks available in run_tasks": the idle loop goes round.  Interrupts
\* stay disabled, so nothing but the idle loop itself runs.
run_tasks_idle ==
    /\ current = NoThread
    /\ ready_queue = <<>>
    /\ UNCHANGED schedVars

=============================================================================
