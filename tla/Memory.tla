-------------------------------- MODULE Memory --------------------------------
(***************************************************************************)
(* The memory of processes and threads: fork, exec and exit                *)
(* (os/src/task/process.rs, os/src/task/mod.rs), thread creation and       *)
(* joining, with the user stacks, trap contexts and kernel stacks of       *)
(* os/src/task/id.rs, on the address spaces of MemorySet; the user buffers *)
(* a system call keeps while it is suspended; and the frames of the        *)
(* virtio driver (os/src/drivers/block/virtio_blk.rs).                     *)
(*                                                                         *)
(* None of the operations gives up the processor, so each is one step.     *)
(* Which process is whose child is left to Process.                        *)
(***************************************************************************)
EXTENDS MemorySet, RecycleAllocator, FiniteSets

CONSTANTS
    Procs, INITPROC,
    KERNEL_SPACE,       \* the kernel's MemorySet
    NoTask,             \* None in the table tasks
    Images, InitImage,  \* the programs, each the sequence of its Load segments
    Sections,           \* the identically mapped areas of the kernel
    FirstFrame, EndFrame,                   \* from ekernel to MEMORY_END
    USER_STACK_SIZE, KERNEL_STACK_SIZE,     \* in pages
    QueuePages,         \* the frames of the virtio queue
    Words,              \* the words programs store
    Addresses, Lens,    \* bounds on where programs store, and on how much
    MaxThreads,         \* bound on the kernel stacks ever made
    MaxExecs            \* bound on the calls of exec

ASSUME MemoryAssumption ==
    /\ INITPROC \in Procs /\ InitImage \in Images /\ KERNEL_SPACE \notin Procs
    /\ {FirstFrame, EndFrame, QueuePages, MaxThreads, MaxExecs} \subseteq Nat \ {0}
    /\ {USER_STACK_SIZE, KERNEL_STACK_SIZE} \subseteq Nat \ {0}
    /\ Words \cup Lens \subseteq Nat \ {0}

VARIABLES
    frame_allocator,    \* FRAME_ALLOCATOR
    memory,             \* the contents of the frames ever handed out
    space,              \* KERNEL_SPACE and the memory_set of every process
    kstack_allocator,   \* KSTACK_ALLOCATOR
    queue_frames,       \* QUEUE_FRAMES
    tasks,              \* the tables tasks: kernel stack, trap_cx_ppn, whether
                        \* res is Some, and the user buffer of the call in
                        \* which the thread is suspended
    tid_allocator,      \* task_res_allocator
    ustack_base,        \* TaskUserRes.ustack_base
    status,             \* "none", "live" or "zombie"
    execs,              \* how often exec has been called
    kernel              \* "running", or why the kernel has panicked

vars == <<frame_allocator, memory, space, kstack_allocator, queue_frames, tasks, tid_allocator, ustack_base, status, execs, kernel>>

NoBuffer == <<>>

\* The machine of the module MemorySet, with the tables of processes.
Now == [fa |-> frame_allocator, mem |-> memory, space |-> space, kids |-> kstack_allocator, queue |-> queue_frames,
        tasks |-> tasks, tids |-> tid_allocator, ustack_base |-> ustack_base, status |-> status, execs |-> execs, kernel |-> kernel]

\* A system call has brought the machine to the result, or has panicked on the way.
Becomes(result) == \E w \in {result} :
    IF w.kernel = "running"
    THEN /\ frame_allocator' = w.fa /\ memory' = w.mem /\ space' = w.space
         /\ kstack_allocator' = w.kids /\ queue_frames' = w.queue /\ tasks' = w.tasks
         /\ tid_allocator' = w.tids /\ ustack_base' = w.ustack_base /\ status' = w.status
         /\ execs' = w.execs /\ UNCHANGED kernel
    ELSE /\ kernel' = w.kernel
         /\ UNCHANGED <<frame_allocator, memory, space, kstack_allocator, queue_frames, tasks, tid_allocator, ustack_base, status, execs>>

----------------------------------------------------------------------------
(* Kernel stacks and user resources *)

\* kernel_stack_position
kernel_stack_top(id) == TRAMPOLINE - id * (KERNEL_STACK_SIZE + 1)
kernel_stack_bottom(id) == kernel_stack_top(id) - KERNEL_STACK_SIZE

kstack_alloc(w) ==
    LET b == kernel_stack_bottom(alloc_id(w.kids))
    IN  [insert_framed_area(w, KERNEL_SPACE, b, b + KERNEL_STACK_SIZE, {"R", "W"}) EXCEPT !.kids = alloc(@)]

\* A plausible bug: the stack stays mapped.
kstack_kept(w, id) == w

\* The drop of a KernelStack: the area is removed, the id is not given back.
kstack_drop(w, id) == remove_area_with_start_vpn(w, KERNEL_SPACE, kernel_stack_bottom(id))

trap_cx_bottom_from_tid(tid) == TRAMPOLINE - 1 - tid
ustack_bottom_from_tid(base, tid) == base + tid * (1 + USER_STACK_SIZE)

alloc_user_res(w, p, base, tid) ==
    LET u == ustack_bottom_from_tid(base, tid)
        t == trap_cx_bottom_from_tid(tid)
    IN  insert_framed_area(insert_framed_area(w, p, u, u + USER_STACK_SIZE, {"R", "W", "U"}), p, t, t + 1, {"R", "W"})

\* The drop of a TaskUserRes, if there is one.
drop_res(w, p, tid) ==
    LET bottoms == <<ustack_bottom_from_tid(w.ustack_base[p], tid), trap_cx_bottom_from_tid(tid)>>
    IN  IF ~w.tasks[p][tid].res THEN w
        ELSE loop(LAMBDA v, b : remove_area_with_start_vpn(v, p, b),
                  [w EXCEPT !.tids[p] = dealloc(@, tid), !.tasks[p][tid].res = FALSE], bottoms)

trap_cx_ppn(w, p, tid) == translate(w, w.space[p].root, trap_cx_bottom_from_tid(tid)).ppn

\* The entry of a new thread in the table, with its kernel stack.
entered(w, p, tid) ==
    LET task == [kstack |-> alloc_id(w.kids), trap_cx_ppn |-> trap_cx_ppn(w, p, tid), res |-> TRUE, buffer |-> NoBuffer]
    IN  [kstack_alloc(w) EXCEPT !.tasks[p] = (tid :> task) @@ @, !.tids[p] = alloc(@)]

\* kernel_sp, the word of a trap context that names the kernel stack.
with_kernel_sp(w, p, tid) ==
    write_word(w, w.tasks[p][tid].trap_cx_ppn, 0, kernel_stack_top(w.tasks[p][tid].kstack))

\* A plausible bug: the trap context keeps the kernel stack it was copied with.
new_task_copied(w, p, base, with_res) ==
    LET tid == alloc_id(w.tids[p])
    IN  then(IF with_res THEN alloc_user_res(w, p, base, tid) ELSE w,
             LAMBDA v : IF with_res THEN with_kernel_sp(entered(v, p, tid), p, tid) ELSE entered(v, p, tid))

\* TaskControlBlock::new and the trap context of the thread.
new_task(w, p, base, with_res) ==
    LET tid == alloc_id(w.tids[p])
    IN  then(then(IF with_res THEN alloc_user_res(w, p, base, tid) ELSE w, LAMBDA v : entered(v, p, tid)),
             LAMBDA v : with_kernel_sp(v, p, tid))

----------------------------------------------------------------------------
(* Boot *)

\* virtio_dma_alloc: the frames have to be contiguous.
virtio_dma_alloc(w, pages) ==
    LET base == alloc_ppn(w.fa)
        take(v, i) == LET u == [frame_alloc(v) EXCEPT !.queue = Append(@, alloc_ppn(v.fa))]
                      IN  IF alloc_ppn(v.fa) = base + i - 1 THEN u ELSE panics(u, "dma not contiguous")
    IN  loop(take, w, [i \in 1 .. pages |-> i])

\* ProcessControlBlock::new
new_process(w, p, elf) ==
    new_task([from_elf(w, p, elf) EXCEPT !.status[p] = "live", !.ustack_base[p] = user_stack_base(elf)],
             p, user_stack_base(elf), TRUE)

\* mm::init, the first use of BLOCK_DEVICE, and the first process.
Boot(elf) ==
    LET w == [fa |-> init_frame_allocator(FirstFrame, EndFrame), mem |-> <<>>, space |-> <<>>, kids |-> new_allocator,
              queue |-> <<>>, tasks |-> [p \in Procs |-> <<>>], tids |-> [p \in Procs |-> new_allocator],
              ustack_base |-> [p \in Procs |-> 0], status |-> [p \in Procs |-> "none"], execs |-> 0, kernel |-> "running"]
    IN  new_process(virtio_dma_alloc(new_kernel(w, KERNEL_SPACE, Sections), QueuePages), INITPROC, elf)

Init ==
    LET w == Boot(InitImage)
    IN  /\ frame_allocator = w.fa /\ memory = w.mem /\ space = w.space
        /\ kstack_allocator = w.kids /\ queue_frames = w.queue /\ tasks = w.tasks
        /\ tid_allocator = w.tids /\ ustack_base = w.ustack_base /\ status = w.status
        /\ execs = w.execs /\ kernel = w.kernel

----------------------------------------------------------------------------
(* System calls *)

Exists(p, tid) == tid \in DOMAIN tasks[p] /\ tasks[p][tid] # NoTask

\* Thread tid of p runs user code or is at the beginning of a system call.
Runs(p, tid) ==
    /\ kernel = "running" /\ status[p] = "live"
    /\ Exists(p, tid) /\ tasks[p][tid].res /\ tasks[p][tid].buffer = NoBuffer

\* A program of p can store at va.
Writable(p, va) == {"U", "W"} \subseteq translate(Now, space[p].root, va \div PAGE_SIZE).flags

\* Thread tid may pass va to a system call: static data, or on its own stack.
Usable(p, tid, va) ==
    /\ Writable(p, va)
    /\ \A i \in DOMAIN tasks[p] \ {tid} :
           ~(va \div PAGE_SIZE - ustack_bottom_from_tid(ustack_base[p], i) \in 0 .. (USER_STACK_SIZE - 1))

\* User code stores a word.
store(p, tid, va, x) ==
    /\ Runs(p, tid)
    /\ Writable(p, va)
    /\ Becomes(write_va(Now, space[p].root, va, x))

\* sys_read of an empty pipe or of stdin: the buffer is translated, then the
\* thread gives up the processor.
sys_read(p, tid, va, len) ==
    /\ Runs(p, tid)
    /\ \A a \in va .. (va + len - 1) : Usable(p, tid, a)
    /\ Becomes([Now EXCEPT !.tasks[p][tid].buffer = translated_byte_buffer(Now, space[p].root, va, len)])

\* The thread runs again and the bytes are stored through the old translation.
read_done(p, tid, x) ==
    /\ kernel = "running" /\ status[p] = "live"
    /\ Exists(p, tid) /\ tasks[p][tid].buffer # NoBuffer
    /\ Becomes([loop(LAMBDA w, a : write_word(w, a[1], a[2], x), Now, user_buffer_iter(tasks[p][tid].buffer))
                  EXCEPT !.tasks[p][tid].buffer = NoBuffer])

\* sys_fork of a process whose table has one entry (otherwise see ThreadLife).
fork(p, q) ==
    /\ Runs(p, 0) /\ DOMAIN tasks[p] = {0}
    /\ status[q] = "none"
    /\ kstack_allocator.current < MaxThreads
    /\ Becomes(new_task([from_existed_user(Now, p, q) EXCEPT !.status[q] = "live", !.ustack_base[q] = ustack_base[p]],
                        q, ustack_base[p], FALSE))

\* exec: the new set is made before the old one is dropped, then the stack and
\* the trap context of the main thread.  x stands for the arguments, which are
\* stored at the top of the stack.
exec(p, elf, x) ==
    LET base == user_stack_base(elf)
        replaced(w) == [drop_space(w, space[p]) EXCEPT !.ustack_base[p] = base, !.execs = @ + 1]
        cx_found(w) == [w EXCEPT !.tasks[p][0].trap_cx_ppn = trap_cx_ppn(w, p, 0)]
        arguments(w) == write_va(w, w.space[p].root, (base + USER_STACK_SIZE) * PAGE_SIZE - 1, x)
        loaded == then(then(from_elf(Now, p, elf), replaced), LAMBDA w : alloc_user_res(w, p, base, 0))
    IN  /\ Runs(p, 0) /\ DOMAIN tasks[p] = {0} /\ execs < MaxExecs
        /\ Becomes(then(then(then(loaded, cx_found), arguments), LAMBDA w : with_kernel_sp(w, p, 0)))

\* sys_thread_create; an exited thread in the entry of the table is dropped.
sys_thread_create(p, tid) ==
    LET new == alloc_id(tid_allocator[p])
        dropped(w) == IF Exists(p, new) THEN kstack_drop(w, tasks[p][new].kstack) ELSE w
    IN  /\ Runs(p, tid)
        /\ kstack_allocator.current < MaxThreads
        /\ Becomes(then(new_task(Now, p, ustack_base[p], TRUE), dropped))

\* exit_current_and_run_next of a thread that is not the main one.
exit_thread(p, tid) ==
    /\ Runs(p, tid) /\ tid # 0
    /\ Becomes(drop_res(Now, p, tid))

\* sys_waittid of a thread that has exited.
sys_waittid(p, tid, joined) ==
    /\ Runs(p, tid) /\ tid # joined
    /\ Exists(p, joined) /\ ~tasks[p][joined].res
    /\ Becomes([kstack_drop(Now, tasks[p][joined].kstack) EXCEPT !.tasks[p][joined] = NoTask])

\* The threads in the table of p, in its order.
tids_of(p) == SelectSeq([i \in 1 .. Cardinality(DOMAIN tasks[p]) |-> i - 1], LAMBDA tid : Exists(p, tid))

\* exit_current_and_run_next of the main thread, when no other thread is
\* suspended in a system call (otherwise see ThreadLife); INITPROC never exits.
exit_process(p) ==
    /\ Runs(p, 0) /\ p # INITPROC
    /\ \A tid \in DOMAIN tasks[p] : Exists(p, tid) => tasks[p][tid].buffer = NoBuffer
    /\ Becomes([recycle_data_pages(loop(LAMBDA w, tid : drop_res(w, p, tid), Now, tids_of(p)), p)
                  EXCEPT !.status[p] = "zombie"])

\* sys_waitpid of r reaps p: the exit code x is stored at va, and p is dropped
\* with its page tables and the kernel stacks of its threads.
sys_waitpid(r, tid, p, va, x) ==
    LET w1 == drop_space(write_va(Now, space[r].root, va, x), space[p])
        w2 == loop(LAMBDA w, i : kstack_drop(w, tasks[p][i].kstack), w1, tids_of(p))
    IN  /\ Runs(r, tid) /\ status[p] = "zombie"
        /\ Usable(r, tid, va)
        /\ Becomes([w2 EXCEPT !.space = [s \in DOMAIN @ \ {p} |-> @[s]], !.tasks[p] = <<>>,
                           !.tids[p] = new_allocator, !.ustack_base[p] = 0, !.status[p] = "none"])

----------------------------------------------------------------------------

Next ==
    \E p \in Procs : \E tid \in DOMAIN tasks[p] :
        \/ \E va \in Addresses, x \in Words : store(p, tid, va, x)
        \/ \E va \in Addresses, len \in Lens : sys_read(p, tid, va, len)
        \/ \E x \in Words : read_done(p, tid, x)
        \/ \E q \in Procs : tid = 0 /\ fork(p, q)
        \/ \E elf \in Images, x \in Words : tid = 0 /\ exec(p, elf, x)
        \/ sys_thread_create(p, tid)
        \/ exit_thread(p, tid)
        \/ \E joined \in DOMAIN tasks[p] : sys_waittid(p, tid, joined)
        \/ tid = 0 /\ exit_process(p)
        \/ \E q \in Procs, va \in Addresses, x \in Words : sys_waitpid(p, tid, q, va, x)

Spec == Init /\ [][Next]_vars

----------------------------------------------------------------------------
(* Properties *)

Spaces == DOMAIN space

\* The frames a set owns: those of its tables and those of its areas.
Held(s) == space[s].frames \o data_frames_of(space[s])

\* Every frame that the allocator has handed out has exactly one owner, a page
\* table, an area or the virtio queue, and no owner has a frame the allocator
\* could hand out again: over fork, exec, exits, joins and reaping no frame
\* leaks and none is given to two.  The kernel stacks that are mapped are those
\* of the threads in the tables.
FramesExact ==
    /\ {a.start : a \in {b \in Range(space[KERNEL_SPACE].areas) : b.framed}} =
           UNION {{kernel_stack_bottom(tasks[p][tid].kstack) : tid \in Range(tids_of(p))} : p \in Procs}
    /\ IsInjective(queue_frames)
    /\ \A s \in Spaces : IsInjective(Held(s)) /\ Range(Held(s)) \cap Range(queue_frames) = {}
    /\ \A s, t \in Spaces : s # t => Range(Held(s)) \cap Range(Held(t)) = {}
    /\ FramesInUse(frame_allocator, FirstFrame) = Range(queue_frames) \cup UNION {Range(Held(s)) : s \in Spaces}

\* What the page table at the root maps, by a walk over its tables.
Mapped(root) ==
    LET leaf(t, n) == {<<n + i, memory[t][i].ppn, memory[t][i].flags \ {"V"}>> : i \in DOMAIN memory[t]}
    IN  UNION {UNION {leaf(memory[memory[root][i].ppn][j].ppn, (i * Fanout + j) * Fanout) :
                      j \in DOMAIN memory[memory[root][i].ppn]} : i \in DOMAIN memory[root]}

\* What the areas of a set say it maps, and the trampoline.
Described(s) ==
    LET area(a) == {<<v, IF a.framed THEN a.data_frames[v] ELSE v, a.perm>> : v \in a.start .. (a.end - 1)}
    IN  {<<TRAMPOLINE, Trampoline, {"R", "X"}>>} \cup UNION {area(space[s].areas[k]) : k \in DOMAIN space[s].areas}

\* The page tables of the kernel and of every live process map exactly what
\* the areas describe, page by page, with their frames and permissions.
TablesMatchAreas ==
    \A s \in Spaces : (s = KERNEL_SPACE \/ status[s] = "live") => Mapped(space[s].root) = Described(s)

\* The kernel finds the trap context of a live thread through the cached
\* trap_cx_ppn, user mode through the page table: both are the same page, and
\* the kernel stack it names is the thread's own and is mapped.
TrapContextExact ==
    \A p \in Procs : status[p] = "live" => \A tid \in DOMAIN tasks[p] :
        (Exists(p, tid) /\ tasks[p][tid].res) =>
            LET t == tasks[p][tid]
            IN  /\ t.trap_cx_ppn = trap_cx_ppn(Now, p, tid)
                /\ memory[t.trap_cx_ppn][0] = kernel_stack_top(t.kstack)
                /\ \A v \in kernel_stack_bottom(t.kstack) .. (kernel_stack_top(t.kstack) - 1) :
                       "W" \in translate(Now, space[KERNEL_SPACE].root, v).flags


\* The words of p that user mode can reach through its page table.
ViewOf(p) ==
    LET pages == {m \in Mapped(space[p].root) : "U" \in m[3]}
        frame(v) == (CHOOSE m \in pages : m[1] = v)[2]
        word(ppn, i) == IF i \in DOMAIN memory[ppn] THEN memory[ppn][i] ELSE 0
    IN  [va \in UNION {(m[1] * PAGE_SIZE) .. (m[1] * PAGE_SIZE + PAGE_SIZE - 1) : m \in pages} |->
            word(frame(va \div PAGE_SIZE), va % PAGE_SIZE)]

\* The memory of a program that has just been started with argument x.
Loaded(elf, x) ==
    LET base == user_stack_base(elf) * PAGE_SIZE
        top == base + USER_STACK_SIZE * PAGE_SIZE - 1
        words(ph) == (ph.start * PAGE_SIZE) .. (ph.end * PAGE_SIZE - 1)
        at(ph, va) == IF va - ph.start * PAGE_SIZE < Len(ph.data) THEN ph.data[va - ph.start * PAGE_SIZE + 1] ELSE 0
    IN  [va \in (base .. top) \cup UNION {words(elf[k]) : k \in DOMAIN elf} |->
            IF va = top THEN x
            ELSE IF va >= base THEN 0
            ELSE at(elf[CHOOSE k \in DOMAIN elf : va \in words(elf[k])], va)]

Programs == {Loaded(elf, x) : elf \in Images, x \in Words \cup {0}}

ThreadStacks ==
    {LET b == ustack_bottom_from_tid(user_stack_base(elf), tid) * PAGE_SIZE IN b .. (b + USER_STACK_SIZE * PAGE_SIZE - 1) :
        elf \in Images, tid \in 1 .. MaxThreads}

Private == INSTANCE PrivateMemory WITH
    Initial <- Programs, Stacks <- ThreadStacks,
    view <- [p \in Procs |-> IF status[p] = "live" THEN ViewOf(p) ELSE <<>>]

=============================================================================
