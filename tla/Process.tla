------------------------------- MODULE Process -------------------------------
(***************************************************************************)
(* Processes: fork, exit, waitpid and kill (os/src/syscall/process.rs,     *)
(* os/src/task/process.rs), process ids and the table PID2PCB              *)
(* (os/src/task/id.rs, os/src/task/manager.rs), the adoption of orphans by *)
(* INITPROC (exit_current_and_run_next), and the signals that end a        *)
(* process at the end of trap_handler (os/src/trap/mod.rs).                *)
(*                                                                         *)
(* Every process has one thread, as fork demands, so a process is its      *)
(* thread, and the processes are scheduled by Scheduler.  A trap that does *)
(* not give up the processor runs on to the signal check: at most          *)
(* trap_end(t) can happen while cont[t] is "trap" and t is current.        *)
(***************************************************************************)
EXTENDS Scheduler, RecycleAllocator, FiniteSets

CONSTANTS
    INITPROC,   \* the first process
    Codes,      \* arguments of sys_exit
    Signals,    \* the signals sent: numbers of SignalFlags
    SIGSEGV,    \* the signal of a page fault
    Pids        \* arguments of sys_waitpid (besides -1) and sys_kill

ASSUME ProcessAssumption ==
    /\ INITPROC \in Threads
    /\ Codes \subseteq Int
    /\ Signals \subseteq Nat /\ SIGSEGV \in Nat
    /\ Pids \subseteq Nat

VARIABLES
    pid_allocator,  \* PID_ALLOCATOR
    pid,            \* ProcessControlBlock.pid (a PidHandle)
    pid2process,    \* PID2PCB
    parent,         \* the weak reference to the parent; NoThread for None
    children,       \* the children, in the order of the Vec
    is_zombie, exit_code, signals,
    freed,          \* the processes whose last Arc has been dropped
    cont,           \* "user", or "trap" before the signal check
    kernel          \* "running", or why the kernel has panicked

procVars == <<pid_allocator, pid, pid2process, parent, children, is_zombie, exit_code, signals, freed>>
vars == <<schedVars, procVars, cont, kernel>>

AnyChild == -1                  \* the argument -1 of sys_waitpid
NoPid == -1

Born == {t \in Threads : task_status[t] # "None"}
Existing == Born \ freed
LiveProcs == {t \in Existing : ~is_zombie[t]}

Panics == {"already borrowed", "strong_count", "pid2process", "dealloc"}

\* Every component has the values its Rust type allows.
TypeOK ==
    /\ SchedTypeOK
    /\ pid_allocator \in [current : Nat, recycled : Seq(Nat)]
    /\ pid \in [Threads -> Nat \cup {NoPid}]
    /\ DOMAIN pid2process \subseteq Nat /\ Range(pid2process) \subseteq Threads
    /\ parent \in [Threads -> Threads \cup {NoThread}]
    /\ children \in [Threads -> Seq(Threads)]
    /\ is_zombie \in [Threads -> BOOLEAN]
    /\ exit_code \in [Threads -> Int]
    /\ signals \in [Threads -> SUBSET (Signals \cup {SIGSEGV})]
    /\ freed \subseteq Threads
    /\ cont \in [Threads -> {"user", "trap"}]
    /\ kernel \in Panics \cup {"running"}

\* ProcessControlBlock::new has made INITPROC.
Init ==
    /\ current = NoThread
    /\ ready_queue = <<INITPROC>>
    /\ task_status = [t \in Threads |-> IF t = INITPROC THEN "Ready" ELSE "None"]
    /\ pid_allocator = alloc(new_allocator)
    /\ pid = [t \in Threads |-> IF t = INITPROC THEN alloc_id(new_allocator) ELSE NoPid]
    /\ pid2process = [i \in {alloc_id(new_allocator)} |-> INITPROC]
    /\ parent = [t \in Threads |-> NoThread]
    /\ children = [t \in Threads |-> <<>>]
    /\ is_zombie = [t \in Threads |-> FALSE]
    /\ exit_code = [t \in Threads |-> 0]
    /\ signals = [t \in Threads |-> {}]
    /\ freed = {}
    /\ cont = [t \in Threads |-> "user"]
    /\ kernel = "running"

\* t runs user code.
User(t) == kernel = "running" /\ current = t /\ cont[t] = "user"

\* t runs a program other than initproc's.
Client(t) == User(t) /\ t # INITPROC

\* The system call returns to trap_handler.
ToTrapEnd(t) == cont' = [cont EXCEPT ![t] = "trap"]

panic(why) == kernel' = why /\ UNCHANGED <<schedVars, procVars, cont>>

----------------------------------------------------------------------------
(* fork *)

\* ProcessControlBlock::fork and sys_fork.
fork(t, u) ==
    LET p == alloc_id(pid_allocator)
    IN  /\ task_status[u] = "None"
        /\ pid_allocator' = alloc(pid_allocator)
        /\ pid' = [pid EXCEPT ![u] = p]
        /\ parent' = [parent EXCEPT ![u] = t]
        /\ children' = [children EXCEPT ![t] = Append(@, u)]
        /\ pid2process' = [i \in DOMAIN pid2process \cup {p} |->
                              IF i = p THEN u ELSE pid2process[i]]
        /\ spawn(u, ready_queue)
        /\ ToTrapEnd(t)
        /\ UNCHANGED <<is_zombie, exit_code, signals, freed, kernel>>

\* initproc forks once, to become user_shell; others fork as they like.
sys_fork(t, u) ==
    /\ User(t)
    /\ t = INITPROC => Born = {INITPROC}
    /\ fork(t, u)

----------------------------------------------------------------------------
(* exit *)

\* remove_from_pid2process
remove_from_pid2process(t) ==
    [i \in DOMAIN pid2process \ {pid[t]} |-> pid2process[i]]

\* A plausible bug: the orphans keep their parent.
adopt_forgets_parent(t) == parent

\* A plausible bug: the orphans are not handed to INITPROC.
children_forgotten(t) == [children EXCEPT ![t] = <<>>]

\* The orphans of t get INITPROC as their parent ...
adopt_parent(t) ==
    [u \in Threads |-> IF u \in Range(children[t]) THEN INITPROC ELSE parent[u]]

\* ... and are appended to its children, and those of t are cleared.
adopt_children(t) ==
    [children EXCEPT ![INITPROC] = @ \o children[t], ![t] = <<>>]

\* exit_current_and_run_next of the only thread of a process.  INITPROC would
\* borrow itself a second time.
exit_current_and_run_next(t, code) ==
    IF pid[t] \notin DOMAIN pid2process THEN panic("pid2process")
    ELSE IF t = INITPROC THEN panic("already borrowed")
    ELSE /\ pid2process' = remove_from_pid2process(t)
         /\ is_zombie' = [is_zombie EXCEPT ![t] = TRUE]
         /\ exit_code' = [exit_code EXCEPT ![t] = code]
         /\ parent' = adopt_parent(t)
         /\ children' = adopt_children(t)
         /\ exit_leaves_processor(ready_queue)
         /\ UNCHANGED <<pid_allocator, pid, signals, freed, cont, kernel>>

sys_exit(t, code) == Client(t) /\ exit_current_and_run_next(t, code)

----------------------------------------------------------------------------
(* waitpid *)

Matches(p, u) == p = AnyChild \/ p = pid[u]

\* A plausible bug: the child need not be a zombie.
found_any(t, p) == {i \in DOMAIN children[t] : Matches(p, children[t][i])}

\* The children a waitpid of t may reap: the code takes the first of them.
found(t, p) == {i \in DOMAIN children[t] : is_zombie[children[t][i]] /\ Matches(p, children[t][i])}

\* Arc::strong_count of a child that has been removed from the children of its
\* parent: the reference in the parent's hand, the other children lists and
\* PID2PCB.
strong_count(u, t, idx) ==
    1 + Cardinality({r \in Threads \X (1 .. Cardinality(Threads)) :
                        /\ r[2] \in DOMAIN children[r[1]]
                        /\ children[r[1]][r[2]] = u
                        /\ r # <<t, idx>>})
      + Cardinality({i \in DOMAIN pid2process : pid2process[i] = u})

Without(q, idx) == SubSeq(q, 1, idx - 1) \o SubSeq(q, idx + 1, Len(q))

\* The children after `inner.children.remove(idx)`.
reaped(t, idx) == [children EXCEPT ![t] = Without(@, idx)]

\* sys_waitpid finds no child that matches (-1) or none that has ended (-2).
waitpid_none(t, p) ==
    /\ User(t)
    /\ t = INITPROC => p = AnyChild
    /\ found(t, p) = {}
    /\ ToTrapEnd(t)
    /\ UNCHANGED <<schedVars, procVars, kernel>>

\* sys_waitpid reaps a child: it removes it from its children and drops it,
\* and with it the PidHandle.
waitpid_reaps(t, p) ==
    /\ User(t)
    /\ t = INITPROC => p = AnyChild
    /\ found(t, p) # {}
    /\ LET idx == CHOOSE i \in found(t, p) : \A j \in found(t, p) : i <= j
           u == children[t][idx]
       IN  IF strong_count(u, t, idx) # 1 THEN panic("strong_count")
           ELSE IF ~dealloc_asserts(pid_allocator, pid[u]) THEN panic("dealloc")
           ELSE /\ children' = reaped(t, idx)
                /\ pid_allocator' = dealloc(pid_allocator, pid[u])
                /\ freed' = freed \cup {u}
                /\ ToTrapEnd(t)
                /\ UNCHANGED <<schedVars, pid, pid2process, parent, is_zombie, exit_code, signals, kernel>>

----------------------------------------------------------------------------
(* Signals, and the end of a trap *)

add_signal(u, sig) == signals' = [signals EXCEPT ![u] = @ \cup {sig}]

\* sys_kill looks the process up; without one it returns -1, as it does for a
\* number that is no signal.
sys_kill(t, p, sig) ==
    /\ Client(t)
    /\ IF p \in DOMAIN pid2process THEN add_signal(pid2process[p], sig) ELSE UNCHANGED signals
    /\ ToTrapEnd(t)
    /\ UNCHANGED <<schedVars, pid_allocator, pid, pid2process, parent, children, is_zombie, exit_code, freed, kernel>>

\* A fault in user code.
fault(t) ==
    /\ Client(t)
    /\ add_signal(t, SIGSEGV)
    /\ ToTrapEnd(t)
    /\ UNCHANGED <<schedVars, pid_allocator, pid, pid2process, parent, children, is_zombie, exit_code, freed, kernel>>

\* sys_yield and the timer interrupt.
yields(t) ==
    /\ User(t)
    /\ suspend_current_and_run_next(t, ready_queue)
    /\ ToTrapEnd(t)
    /\ UNCHANGED <<procVars, kernel>>

\* SignalFlags::check_error: the numbers are tested in ascending order.
check_error(t) == -(CHOOSE s \in signals[t] : \A r \in signals[t] : s <= r)


\* The rest of trap_handler: the signal check, then trap_return.
trap_end(t) ==
    /\ kernel = "running"
    /\ current = t
    /\ cont[t] = "trap"
    /\ IF signals[t] # {} THEN exit_current_and_run_next(t, check_error(t))
       ELSE cont' = [cont EXCEPT ![t] = "user"] /\ UNCHANGED <<schedVars, procVars, kernel>>

idle == kernel = "running" /\ run_tasks /\ UNCHANGED <<procVars, cont, kernel>>

----------------------------------------------------------------------------

Next ==
    \/ idle
    \/ \E t \in Threads :
          \/ trap_end(t)
          \/ yields(t)
          \/ fault(t)
          \/ \E u \in Threads : sys_fork(t, u)
          \/ \E code \in Codes : sys_exit(t, code)
          \/ \E p \in Pids \cup {AnyChild} : waitpid_none(t, p) \/ waitpid_reaps(t, p)
          \/ \E p \in Pids, sig \in Signals : sys_kill(t, p, sig)

Spec == Init /\ [][Next]_vars

\* The idle loop and a thread inside the kernel run on; user code is
\* interrupted again and again; initproc's loop gets to its wait() in between.
Fairness ==
    /\ WF_vars(idle)
    /\ WF_vars(\E t \in Threads : trap_end(t))
    /\ SF_vars(\E t \in Threads : yields(t))
    /\ SF_vars(waitpid_reaps(INITPROC, AnyChild))

LiveSpec == Spec /\ Fairness

----------------------------------------------------------------------------
(* Properties *)

\* The pids in use are those of the processes that exist, no two have the same,
\* and PID2PCB finds exactly those that have not exited, so that a recycled
\* pid never leads sys_kill to a process that has ended.
PidsExact ==
    /\ InUse(pid_allocator) = {pid[t] : t \in Existing}
    /\ \A t, u \in Existing : pid[t] = pid[u] => t = u
    /\ DOMAIN pid2process = {pid[t] : t \in LiveProcs}
    /\ \A t \in LiveProcs : pid2process[pid[t]] = t

\* Every process but INITPROC is in exactly one list of children, once: that of
\* its parent, which has not ended.  A process in no list would stay a zombie
\* for ever; one in two would be reaped twice.
OneParent ==
    /\ \A t \in Threads : IsInjective(children[t])
    /\ \A t, u \in Threads : u \in Range(children[t]) <=> u \in Existing \ {INITPROC} /\ parent[u] = t
    /\ \A u \in Existing \ {INITPROC} : parent[u] \in LiveProcs

\* The assertion of sys_waitpid on the reference count of the child, those of
\* the pid allocator and the lookup in PID2PCB never fail.
ChecksHold == kernel \notin {"strong_count", "pid2process", "dealloc"}


\* A zombie that is a child of INITPROC is reaped.
OrphansReaped ==
    \A t \in Threads : (is_zombie[t] /\ parent[t] = INITPROC) ~> (t \in freed \/ kernel # "running")

=============================================================================
