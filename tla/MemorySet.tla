------------------------------ MODULE MemorySet -------------------------------
(***************************************************************************)
(* Address spaces: MemorySet and MapArea of os/src/mm/memory_set.rs, the   *)
(* three-level page tables of os/src/mm/page_table.rs that are stored in   *)
(* frames themselves, and the address types of os/src/mm/address.rs.       *)
(*                                                                         *)
(* Every operator takes and returns the machine w, a record of             *)
(*   fa      the frame allocator,                                          *)
(*   mem     what is in the frames: a partial function from word indices,  *)
(*           where a word that is absent is zero,                          *)
(*   space   the MemorySets: the root of the page table, the frames of its *)
(*           tables, and its areas,                                        *)
(*   kernel  "running", or why the kernel has panicked.                    *)
(***************************************************************************)
EXTENDS FrameAllocator, Panic, TLC

CONSTANTS
    PAGE_SIZE,      \* words in a page
    Fanout          \* entries in a page table (512 in the code)

ASSUME MemorySetAssumption == PAGE_SIZE \in Nat \ {0} /\ Fanout \in Nat \ {0, 1}

MaxVpn == Fanout * Fanout * Fanout - 1      \* vpns have VPN_WIDTH_SV39 bits
TRAMPOLINE == MaxVpn                        \* the vpn of the trampoline
Trampoline == 0                             \* ppn of strampoline, in the kernel image

EmptyPage == <<>>
EmptyPte == [ppn |-> 0, flags |-> {}]

----------------------------------------------------------------------------
(* Frames *)


\* frame_alloc().unwrap() and the page cleaning of FrameTracker::new; the frame
\* is alloc_ppn(w.fa).
frame_alloc(w) ==
    IF frames_exhausted(w.fa) THEN panics(w, "out of memory")
    ELSE [w EXCEPT !.fa = frame_taken(@), !.mem = (alloc_ppn(w.fa) :> EmptyPage) @@ @]

\* The drop of a FrameTracker.
frame_dealloc(w, p) ==
    IF frame_not_allocated(w.fa, p) THEN panics(w, "frame not allocated")
    ELSE [w EXCEPT !.fa = frame_recycled(@, p)]

drop_frames(w, ps) == loop(frame_dealloc, w, ps)

----------------------------------------------------------------------------
(* Page tables *)

\* VirtPageNum::indexes
indexes(vpn) == <<(vpn \div (Fanout * Fanout)) % Fanout, (vpn \div Fanout) % Fanout, vpn % Fanout>>

entry(w, table, i) == IF i \in DOMAIN w.mem[table] THEN w.mem[table][i] ELSE EmptyPte

write_word(w, p, i, x) == [w EXCEPT !.mem[p] = (i :> x) @@ @]

\* One turn of the loop of find_pte_create: a table below `table` at index i
\* is made unless it is there.
table_create(w, s, table, i) ==
    LET p == alloc_ppn(w.fa)
        linked(v) == [write_word(v, table, i, [ppn |-> p, flags |-> {"V"}]) EXCEPT !.space[s].frames = Append(@, p)]
    IN  IF i \in DOMAIN w.mem[table] THEN w ELSE then(frame_alloc(w), linked)

\* PageTable::map
map(w, s, vpn, ppn, flags) ==
    LET ix == indexes(vpn)
        t1(v) == entry(v, v.space[s].root, ix[1]).ppn
        t2(v) == entry(v, t1(v), ix[2]).ppn
        set(v) == IF ix[3] \in DOMAIN v.mem[t2(v)] THEN panics(v, "mapped before mapping")
                  ELSE write_word(v, t2(v), ix[3], [ppn |-> ppn, flags |-> flags \cup {"V"}])
    IN  then(then(table_create(w, s, w.space[s].root, ix[1]), LAMBDA v : table_create(v, s, t1(v), ix[2])), set)

\* The leaf table find_pte reaches for vpn from the root; 0 when it is missing.
leaf_table(w, root, vpn) ==
    LET ix == indexes(vpn)
        t1 == entry(w, root, ix[1])
        t2 == entry(w, t1.ppn, ix[2])
    IN  IF "V" \in t1.flags /\ "V" \in t2.flags THEN t2.ppn ELSE 0

\* A plausible bug: the entry is left in the table.
unmap_keeps_entry(w, s, vpn) == w

\* PageTable::unmap
unmap(w, s, vpn) ==
    LET t == leaf_table(w, w.space[s].root, vpn)
        i == indexes(vpn)[3]
    IN  IF t = 0 \/ i \notin DOMAIN w.mem[t] THEN panics(w, "invalid before unmapping")
        ELSE [w EXCEPT !.mem[t] = [j \in DOMAIN @ \ {i} |-> @[j]]]

\* PageTable::translate.  An entry that is not valid is returned like any other;
\* the None of a missing table is the empty entry here: all calls below are for
\* pages that are mapped.
translate(w, root, vpn) ==
    LET t == leaf_table(w, root, vpn) IN IF t = 0 THEN EmptyPte ELSE entry(w, t, indexes(vpn)[3])

\* translated_refmut and a store through it.
write_va(w, root, va, x) ==
    write_word(w, translate(w, root, va \div PAGE_SIZE).ppn, va % PAGE_SIZE, x)

\* translated_byte_buffer: the slices of the pages that hold len words from va
\* on, each with its frame, its first word and the word after its last.
translated_byte_buffer(w, root, va, len) ==
    LET first == va \div PAGE_SIZE
        last == (va + len - 1) \div PAGE_SIZE
    IN  [k \in 1 .. (IF len = 0 THEN 0 ELSE last - first + 1) |->
            [ppn  |-> translate(w, root, first + k - 1).ppn,
             from |-> IF k = 1 THEN va % PAGE_SIZE ELSE 0,
             to   |-> IF first + k - 1 = last THEN ((va + len - 1) % PAGE_SIZE) + 1 ELSE PAGE_SIZE]]

\* The addresses UserBufferIterator yields.
user_buffer_iter(buf) ==
    FlattenSeq([k \in DOMAIN buf |->
        [j \in 1 .. (buf[k].to - buf[k].from) |-> <<buf[k].ppn, buf[k].from + j - 1>>]])

----------------------------------------------------------------------------
(* Areas *)

\* The pages of a VPNRange, in order.
vpns(start, end) == [k \in 1 .. (end - start) |-> start + k - 1]

\* MapArea::map_one on the last area of s.
map_one(w, s, vpn) ==
    LET n == Len(w.space[s].areas)
        a == w.space[s].areas[n]
        p == IF a.framed THEN alloc_ppn(w.fa) ELSE vpn
        with_frame == IF a.framed THEN [frame_alloc(w) EXCEPT !.space[s].areas[n].data_frames = @ @@ (vpn :> p)] ELSE w
    IN  then(with_frame, LAMBDA v : map(v, s, vpn, p, a.perm))

\* MapArea::new and MemorySet::push without data.
push(w, s, start, end, framed, perm) ==
    LET a == [start |-> start, end |-> end, framed |-> framed, perm |-> perm, data_frames |-> <<>>]
    IN  loop(LAMBDA v, vpn : map_one(v, s, vpn), [w EXCEPT !.space[s].areas = Append(@, a)], vpns(start, end))

insert_framed_area(w, s, start, end, perm) == push(w, s, start, end, TRUE, perm)

\* MapArea::unmap_one: the FrameTracker is dropped, then the entry removed.
unmap_one(w, s, a, vpn) == then(frame_dealloc(w, a.data_frames[vpn]), LAMBDA v : unmap(v, s, vpn))

\* MemorySet::remove_area_with_start_vpn (of a framed area).
remove_area_with_start_vpn(w, s, start) ==
    LET as == w.space[s].areas
        hits == {k \in DOMAIN as : as[k].start = start}
        k == CHOOSE k \in hits : \A j \in hits : k <= j
        v == loop(LAMBDA x, vpn : unmap_one(x, s, as[k], vpn), w, vpns(as[k].start, as[k].end))
    IN  IF hits = {} THEN w ELSE [v EXCEPT !.space[s].areas = RemoveAt(@, k)]

\* MapArea::copy_data: data is a sequence of words.
copy_data(w, s, start, data) ==
    loop(LAMBDA v, k : write_va(v, v.space[s].root, start * PAGE_SIZE + k - 1, data[k]), w, [k \in DOMAIN data |-> k])

----------------------------------------------------------------------------
(* MemorySets *)

\* MemorySet::new_bare and map_trampoline.
new_bare(w, s) ==
    LET p == alloc_ppn(w.fa)
    IN  then([frame_alloc(w) EXCEPT !.space = (s :> [root |-> p, frames |-> <<p>>, areas |-> <<>>]) @@ @],
             LAMBDA v : map(v, s, TRAMPOLINE, Trampoline, {"R", "X"}))

\* MemorySet::new_kernel: sections is a sequence of identically mapped areas.
new_kernel(w, s, sections) ==
    loop(LAMBDA v, a : push(v, s, a.start, a.end, FALSE, a.perm), new_bare(w, s), sections)

\* MemorySet::from_elf: elf is the sequence of its Load segments.
from_elf(w, s, elf) ==
    loop(LAMBDA v, ph : copy_data(insert_framed_area(v, s, ph.start, ph.end, ph.perm \cup {"U"}), s, ph.start, ph.data),
             new_bare(w, s), elf)

\* The page after the last segment and a guard page.
user_stack_base(elf) == Last(elf).end + 1

\* The copy loop of from_existed_user for one page.
copy_page(w, s, t, vpn) ==
    [w EXCEPT !.mem[translate(w, w.space[t].root, vpn).ppn] = w.mem[translate(w, w.space[s].root, vpn).ppn]]

\* MemorySet::from_existed_user: t becomes a copy of s.
from_existed_user(w, s, t) ==
    loop(LAMBDA v, a : loop(LAMBDA x, vpn : copy_page(x, s, t, vpn),
                                    push(v, t, a.start, a.end, a.framed, a.perm), vpns(a.start, a.end)),
             new_bare(w, t), w.space[s].areas)

\* The frames the areas own, in the order of their drop.
data_frames_of(sp) ==
    FlattenSeq([k \in DOMAIN sp.areas |->
        LET a == sp.areas[k]
        IN  IF a.framed THEN [j \in 1 .. (a.end - a.start) |-> a.data_frames[a.start + j - 1]] ELSE <<>>])

\* MemorySet::recycle_data_pages: the areas are dropped, the entries stay.
recycle_data_pages(w, s) ==
    [drop_frames(w, data_frames_of(w.space[s])) EXCEPT !.space[s].areas = <<>>]

\* The drop of a MemorySet: the frames of its tables, then its areas.
drop_space(w, sp) == drop_frames(drop_frames(w, sp.frames), data_frames_of(sp))
=============================================================================
