----------------------------- MODULE ThreadLife ------------------------------
(***************************************************************************)
(* The threads of one process as resources: thread ids, user stacks and    *)
(* trap contexts (TaskUserRes in os/src/task/id.rs), the table tasks of    *)
(* the process, thread creation and joining (os/src/syscall/thread.rs) and *)
(* the exit of a thread and of the process (exit_current_and_run_next in   *)
(* os/src/task/mod.rs).                                                    *)
(*                                                                         *)
(* None of these operations gives up the processor half-way, so each is    *)
(* one step, and the scheduler only decides which live thread makes the    *)
(* next one: any of them may.  A panic of the kernel stops everything.     *)
(***************************************************************************)
EXTENDS RecycleAllocator, FiniteSets

CONSTANTS
    TCBs,       \* thread control blocks, each used for one thread
    Main,       \* the thread ProcessControlBlock::new or fork created
    NoTask,     \* None in the table tasks
    NoTid,      \* res = None
    Codes,      \* exit codes
    NoCode,     \* exit_code = None
    WaitTids    \* the arguments of sys_waittid

ASSUME LifeAssumption ==
    /\ Main \in TCBs
    /\ NoTask \notin TCBs
    /\ NoTid \notin Nat
    /\ NoCode \notin Codes
    /\ WaitTids \subseteq Nat

VARIABLES
    tasks,              \* ProcessControlBlockInner.tasks, indexed from 0
    task_res_allocator, \* ProcessControlBlockInner.task_res_allocator
    res,                \* res[t]: the tid in TaskControlBlockInner.res, or NoTid
    exit_code,          \* TaskControlBlockInner.exit_code
    areas,              \* tids whose stack and trap context are in memory_set
    is_zombie,          \* ProcessControlBlockInner.is_zombie
    kernel,             \* "running", or why the kernel has panicked
    born, waited        \* history: the threads created, and those whose exit
                        \* code sys_waittid has returned

lifeVars == <<tasks, task_res_allocator, res, exit_code, areas, is_zombie, kernel, born, waited>>

Panics == {"already borrowed", "task borrowed", "out of bounds", "thread_count", "dealloc", "mapped"}

\* Every component has the values its Rust type allows.
TypeOK ==
    /\ DOMAIN tasks \subseteq Nat
    /\ tasks \in [DOMAIN tasks -> TCBs \cup {NoTask}]
    /\ task_res_allocator \in [current : Nat, recycled : Seq(Nat)]
    /\ res \in [TCBs -> Nat \cup {NoTid}]
    /\ exit_code \in [TCBs -> Codes \cup {NoCode}]
    /\ areas \subseteq Nat
    /\ is_zombie \in BOOLEAN
    /\ kernel \in Panics \cup {"running"}
    /\ born \subseteq TCBs
    /\ waited \subseteq born

\* ProcessControlBlock::new and fork: the main thread has the first tid.
Init ==
    /\ tasks = [i \in {0} |-> Main]
    /\ task_res_allocator = alloc(new_allocator)
    /\ res = [t \in TCBs |-> IF t = Main THEN alloc_id(new_allocator) ELSE NoTid]
    /\ exit_code = [t \in TCBs |-> NoCode]
    /\ areas = {alloc_id(new_allocator)}
    /\ is_zombie = FALSE
    /\ kernel = "running"
    /\ born = {Main}
    /\ waited = {}

\* t may make the next system call.
Runs(t) == kernel = "running" /\ t \in born /\ exit_code[t] = NoCode

panic(why) == kernel' = why /\ UNCHANGED <<tasks, task_res_allocator, res, exit_code, areas, is_zombie, born, waited>>

----------------------------------------------------------------------------
(* Creation *)

\* A plausible bug: tasks.push(Some(new_task)) whatever the tid is.
tasks_pushed(u, tid) ==
    LET n == Cardinality(DOMAIN tasks)
    IN  [i \in DOMAIN tasks \cup {n} |-> IF i = n THEN u ELSE tasks[i]]

\* The table after `while tasks.len() < tid + 1 { tasks.push(None) }` and
\* `tasks[tid] = Some(new_task)`.
tasks_with(u, tid) ==
    [i \in DOMAIN tasks \cup 0 .. tid |->
        IF i = tid THEN u ELSE IF i \in DOMAIN tasks THEN tasks[i] ELSE NoTask]

\* sys_thread_create with TaskControlBlock::new and TaskUserRes::new; the
\* areas of the tid must not be mapped, or PageTable::map panics.
sys_thread_create(t, u) ==
    LET tid == alloc_id(task_res_allocator)
    IN  /\ Runs(t)
        /\ u \in TCBs \ born
        /\ IF tid \in areas THEN panic("mapped")
           ELSE /\ task_res_allocator' = alloc(task_res_allocator)
                /\ res' = [res EXCEPT ![u] = tid]
                /\ areas' = areas \cup {tid}
                /\ tasks' = tasks_with(u, tid)
                /\ born' = born \cup {u}
                /\ UNCHANGED <<exit_code, is_zombie, kernel, waited>>

----------------------------------------------------------------------------
(* Exit *)

\* A plausible bug: the stack and the trap context are left mapped.
areas_kept(t) == areas

\* The areas after TaskUserRes::dealloc_user_res.
dealloc_user_res(t) == areas \ {res[t]}

\* The other threads whose res the loop at the end of the main thread's exit
\* sets to None.
HoldsRes(t) == {i \in DOMAIN tasks : tasks[i] # NoTask /\ tasks[i] # t /\ res[tasks[i]] # NoTid}

\* A thread other than the main one: it records its exit code and drops its
\* TaskUserRes (dealloc_tid, dealloc_user_res); tasks keeps the thread.
exit_thread(t, code) ==
    /\ Runs(t)
    /\ res[t] # 0
    /\ IF ~dealloc_asserts(task_res_allocator, res[t]) THEN panic("dealloc")
       ELSE /\ task_res_allocator' = dealloc(task_res_allocator, res[t])
            /\ areas' = dealloc_user_res(t)
            /\ res' = [res EXCEPT ![t] = NoTid]
            /\ exit_code' = [exit_code EXCEPT ![t] = code]
            /\ UNCHANGED <<tasks, is_zombie, kernel, born, waited>>

\* A plausible bug: the loop over tasks is left out.
exit_main_only(t, code) ==
    /\ Runs(t)
    /\ res[t] = 0
    /\ task_res_allocator' = dealloc(task_res_allocator, res[t])
    /\ res' = [res EXCEPT ![t] = NoTid]
    /\ exit_code' = [exit_code EXCEPT ![t] = code]
    /\ areas' = {}
    /\ is_zombie' = TRUE
    /\ UNCHANGED <<tasks, kernel, born, waited>>

\* The main thread: after its own TaskUserRes it drops those of all other
\* threads while it has the process borrowed, and TaskUserRes::drop borrows
\* the process again: with another live thread the kernel panics.  Without
\* one the process becomes a zombie and its memory areas are recycled.
exit_process(t, code) ==
    /\ Runs(t)
    /\ res[t] = 0
    /\ IF ~dealloc_asserts(task_res_allocator, res[t]) THEN panic("dealloc")
       ELSE /\ task_res_allocator' = dealloc(task_res_allocator, res[t])
            /\ res' = [res EXCEPT ![t] = NoTid]
            /\ exit_code' = [exit_code EXCEPT ![t] = code]
            /\ is_zombie' = TRUE
            /\ IF HoldsRes(t) # {}
               THEN areas' = dealloc_user_res(t) /\ kernel' = "already borrowed"
               ELSE areas' = {} /\ UNCHANGED kernel
            /\ UNCHANGED <<tasks, born, waited>>

----------------------------------------------------------------------------
(* Joining, and the calls that insist on a single thread *)

\* A plausible bug: the table keeps the thread after its code was returned.
tasks_kept(tid) == tasks

\* The table after `tasks[tid] = None`.
tasks_without(tid) == [tasks EXCEPT ![tid] = NoTask]

\* sys_waittid with an index outside the table.
waittid_index(t, tid) ==
    /\ Runs(t)
    /\ tid # res[t]
    /\ tid \notin DOMAIN tasks
    /\ panic("out of bounds")

\* sys_waittid returns -1: for the caller itself, or for an empty entry.
waittid_none(t, tid) ==
    /\ Runs(t)
    /\ tid = res[t] \/ (tid \in DOMAIN tasks /\ tasks[tid] = NoTask)
    /\ UNCHANGED lifeVars

\* sys_waittid finds a thread.  The caller's TaskControlBlock is borrowed, so
\* the thread must be another one.  It returns -2 while that thread lives, and
\* otherwise the exit code, after it has removed the thread from the table.
waittid_found(t, tid) ==
    /\ Runs(t)
    /\ tid # res[t]
    /\ tid \in DOMAIN tasks
    /\ tasks[tid] # NoTask
    /\ IF tasks[tid] = t THEN panic("task borrowed")
       ELSE /\ IF exit_code[tasks[tid]] = NoCode
               THEN UNCHANGED <<tasks, waited>>
               ELSE tasks' = tasks_without(tid) /\ waited' = waited \cup {tasks[tid]}
            /\ UNCHANGED <<task_res_allocator, res, exit_code, areas, is_zombie, kernel, born>>

sys_waittid(t, tid) == waittid_index(t, tid) \/ waittid_none(t, tid) \/ waittid_found(t, tid)

\* fork and exec: assert_eq!(thread_count(), 1), where thread_count() is the
\* length of the table.  What they do after that is in Process.
fork_or_exec(t) ==
    /\ Runs(t)
    /\ IF DOMAIN tasks = {0} THEN UNCHANGED lifeVars ELSE panic("thread_count")

----------------------------------------------------------------------------

Next ==
    \E t \in TCBs :
        \/ \E u \in TCBs : sys_thread_create(t, u)
        \/ \E code \in Codes : exit_thread(t, code) \/ exit_process(t, code)
        \/ \E tid \in WaitTids : sys_waittid(t, tid)
        \/ fork_or_exec(t)

Spec == Init /\ [][Next]_lifeVars

----------------------------------------------------------------------------
(* Properties *)

Live == {t \in born : res[t] # NoTid}

\* Every live thread is found in tasks under its own tid, so no two share a
\* tid, a user stack or a trap context, however tids are recycled; and a
\* thread without an exit code is live.
LiveIndexed ==
    /\ \A t \in Live : res[t] \in DOMAIN tasks /\ tasks[res[t]] = t
    /\ \A t \in born : exit_code[t] = NoCode <=> t \in Live

\* The tids the allocator regards as handed out are those of the live threads,
\* and so are the tids with a mapped stack and trap context: TaskUserRes leaks
\* neither.  (A panic in the middle of an exit excepted.)
ResExact ==
    kernel = "running" =>
        /\ InUse(task_res_allocator) = {res[t] : t \in Live}
        /\ areas = {res[t] : t \in Live}

\* Neither the assertions of RecycleAllocator::dealloc nor that of
\* PageTable::map ever fails for a tid, and sys_waittid never finds its caller
\* under another tid, which would borrow its TaskControlBlock twice.
KernelChecksHold == kernel \notin {"dealloc", "mapped", "task borrowed"}

\* sys_waittid returns a thread's exit code once: a thread that has been
\* waited for is in the table no more.
WaitedOnce == \A i \in DOMAIN tasks : tasks[i] \notin waited

\* When a process has become a zombie, no thread of it is live and every tid
\* and every area of its threads has been given back.
ZombieClean ==
    is_zombie /\ kernel = "running" =>
        Live = {} /\ areas = {} /\ InUse(task_res_allocator) = {}

\* "if this is the main thread of current process the process should
\* terminate at once" (os/src/task/mod.rs:67): the exit of the main thread does
\* not stop the kernel.
MainExitTerminates == kernel # "already borrowed"

\* "here we do not remove the thread since we are still using the kstack; it
\* will be deallocated when sys_waittid is called" (os/src/task/mod.rs:63): a
\* thread that has exited stays in the table until it has been waited for.
ExitedStaysUntilWaited ==
    \A t \in born : exit_code[t] # NoCode /\ t \notin waited => \E i \in DOMAIN tasks : tasks[i] = t

\* "thread does not exist, return -1" (os/src/syscall/thread.rs:55): sys_waittid
\* of a tid that no thread has does not stop the kernel.
WaittidOfNobodyReturns == kernel # "out of bounds"

=============================================================================
