---------------------------- MODULE FrameAllocator ----------------------------
(***************************************************************************)
(* StackFrameAllocator of os/src/mm/frame_allocator.rs as operators on its *)
(* value, a record of current, end and the stack recycled.                 *)
(***************************************************************************)
EXTENDS Integers, Sequences, SequencesExt

init_frame_allocator(l, r) == [current |-> l, end |-> r, recycled |-> <<>>]

\* alloc returns None.
frames_exhausted(fa) == fa.recycled = <<>> /\ fa.current = fa.end

\* The frame that alloc returns, and the allocator after it.
alloc_ppn(fa) == IF fa.recycled # <<>> THEN Last(fa.recycled) ELSE fa.current
frame_taken(fa) ==
    IF fa.recycled # <<>> THEN [fa EXCEPT !.recycled = Front(@)]
                          ELSE [fa EXCEPT !.current = @ + 1]

\* The validity check of dealloc, and the allocator after it.
frame_not_allocated(fa, ppn) == ppn >= fa.current \/ ppn \in ToSet(fa.recycled)
frame_recycled(fa, ppn) == [fa EXCEPT !.recycled = Append(@, ppn)]

\* The frames from l on that are handed out.
FramesInUse(fa, l) == (l .. fa.current - 1) \ ToSet(fa.recycled)
=============================================================================
