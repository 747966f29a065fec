-------------------------- MODULE RecycleAllocator ---------------------------
(***************************************************************************)
(* RecycleAllocator of os/src/task/id.rs as operators on its value: it     *)
(* hands out process ids (PID_ALLOCATOR), kernel stack ids                 *)
(* (KSTACK_ALLOCATOR) and the thread ids of a process                      *)
(* (task_res_allocator).                                                   *)
(***************************************************************************)
EXTENDS Integers, Sequences, Functions

\* RecycleAllocator::new
new_allocator == [current |-> 0, recycled |-> <<>>]

\* The id RecycleAllocator::alloc returns: the one recycled last, or else a
\* new one.
alloc_id(a) ==
    IF a.recycled # <<>> THEN a.recycled[Len(a.recycled)] ELSE a.current

\* A plausible bug: last() instead of pop().
alloc_keeps_recycled(a) ==
    IF a.recycled # <<>> THEN a ELSE [a EXCEPT !.current = @ + 1]

\* The allocator after RecycleAllocator::alloc.
alloc(a) ==
    IF a.recycled # <<>> THEN [a EXCEPT !.recycled = SubSeq(@, 1, Len(@) - 1)]
                         ELSE [a EXCEPT !.current = @ + 1]

\* The two assertions of RecycleAllocator::dealloc.
dealloc_asserts(a, id) == id < a.current /\ id \notin Range(a.recycled)

\* The allocator after RecycleAllocator::dealloc.
dealloc(a, id) == [a EXCEPT !.recycled = Append(@, id)]

----------------------------------------------------------------------------

\* The ids that have been handed out and not been taken back.
InUse(a) == 0 .. (a.current - 1) \ Range(a.recycled)

\* The values the allocator can have.
AllocatorOK(a) ==
    /\ a \in [current : Nat, recycled : Seq(Nat)]
    /\ Range(a.recycled) \subseteq 0 .. (a.current - 1)
    /\ IsInjective(a.recycled)

=============================================================================
