------------------------------- MODULE MCMemory -------------------------------
(* An instance of Memory: two programs, one with two segments. *)
EXTENDS Memory

Segment(start, end, perm, data) == [start |-> start, end |-> end, perm |-> perm, data |-> data]

MCInitImage == <<Segment(1, 3, {"R", "W"}, <<7>>)>>
MCImages == {MCInitImage, <<Segment(1, 2, {"R", "X"}, <<8, 9>>), Segment(2, 3, {"R", "W"}, <<>>)>>}

\* Text and data of the kernel, then the physical memory, of which the
\* instance maps the first pages.
IdentityPages == 6
MCSections == <<[start |-> 1, end |-> FirstFrame, perm |-> {"R", "X"}],
                [start |-> FirstFrame, end |-> FirstFrame + IdentityPages, perm |-> {"R", "W"}]>>
=============================================================================
