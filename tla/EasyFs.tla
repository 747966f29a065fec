-------------------------------- MODULE EasyFs --------------------------------
(***************************************************************************)
(* The file system of easy-fs: bitmaps (bitmap.rs), the areas of the disk  *)
(* (efs.rs), and Inode (vfs.rs) with the one directory, the root.          *)
(*                                                                         *)
(* e is the EasyFileSystem: where its areas start and how many blocks the  *)
(* bitmaps have.  d is the machine of BlockCache.  Every public operation  *)
(* of Inode runs under the lock of e and does not give up the processor.   *)
(***************************************************************************)
EXTENDS DiskInode

CONSTANTS
    BLOCK_BITS,         \* bits in a block of a bitmap
    InodesPerBlock      \* BLOCK_SZ / size_of(DiskInode)

ASSUME EasyFsAssumption == {BLOCK_BITS, InodesPerBlock} \subseteq Nat \ {0}

----------------------------------------------------------------------------
(* Bitmaps *)

\* The first bit of block b that is not set; BLOCK_BITS when all are.
free_bit(d, b) == CHOOSE i \in 0 .. BLOCK_BITS : /\ i = BLOCK_BITS \/ word(d, b, i) = 0
                                                /\ \A j \in 0 .. (i - 1) : word(d, b, j) = 1

\* The bit Bitmap::alloc sets in the bitmap of n blocks from start on; -1 for None.
bitmap_bit(d, start, n) ==
    LET open == {k \in 0 .. (n - 1) : free_bit(d, start + k) < BLOCK_BITS}
        k == CHOOSE k \in open : \A j \in open : k <= j
    IN  IF open = {} THEN -1 ELSE k * BLOCK_BITS + free_bit(d, start + k)

\* Bitmap::alloc(..).unwrap(); every block before the one with the bit is
\* looked at, with modify.
bitmap_alloc(d, start, n) ==
    LET bit == bitmap_bit(d, start, n)
        seen == loop(LAMBDA v, k : touch_mut(v, start + k), d,
                     span(0, IF bit = -1 THEN n ELSE bit \div BLOCK_BITS))
    IN  IF bit = -1 THEN panics(seen, "no space") ELSE modify(seen, start + bit \div BLOCK_BITS, bit % BLOCK_BITS, 1)

bitmap_dealloc(d, start, bit) ==
    LET b == start + bit \div BLOCK_BITS
    IN  IF word(d, b, bit % BLOCK_BITS) = 0 THEN panics(d, "bit not set") ELSE modify(d, b, bit % BLOCK_BITS, 0)

----------------------------------------------------------------------------
(* The areas *)

\* The sizes EasyFileSystem::create computes.
areas(total, inode_bitmap_blocks) ==
    LET inode_area == (inode_bitmap_blocks * BLOCK_BITS + InodesPerBlock - 1) \div InodesPerBlock
        data_total == total - 1 - inode_bitmap_blocks - inode_area
        data_bitmap == (data_total + BLOCK_BITS) \div (BLOCK_BITS + 1)
    IN  [total_blocks |-> total, inode_bitmap_blocks |-> inode_bitmap_blocks, inode_area_blocks |-> inode_area,
         data_bitmap_blocks |-> data_bitmap, data_area_blocks |-> data_total - data_bitmap]

\* The EasyFileSystem made from the super block sb by open, as by create.
efs(sb) ==
    LET inode_total == sb.inode_bitmap_blocks + sb.inode_area_blocks
    IN  [inode_bitmap_blocks |-> sb.inode_bitmap_blocks, data_bitmap_start |-> 1 + inode_total,
         data_bitmap_blocks |-> sb.data_bitmap_blocks, inode_area_start |-> 1 + sb.inode_bitmap_blocks,
         data_area_start |-> 1 + inode_total + sb.data_bitmap_blocks]

inode_block(e, id) == e.inode_area_start + id \div InodesPerBlock
inode_offset(id) == id % InodesPerBlock
disk_inode(d, e, id) == word(d, inode_block(e, id), inode_offset(id))

alloc_inode_id(d, e) == bitmap_bit(d, 1, e.inode_bitmap_blocks)
alloc_inode(d, e) == bitmap_alloc(d, 1, e.inode_bitmap_blocks)

\* alloc_data: the machine collects the new id in its field blocks.
alloc_data(f, e) ==
    [bitmap_alloc(f, e.data_bitmap_start, e.data_bitmap_blocks)
       EXCEPT !.blocks = Append(@, bitmap_bit(f, e.data_bitmap_start, e.data_bitmap_blocks) + e.data_area_start)]

\* Plausible bugs: the bit stays set; the contents are kept.
dealloc_data_leaks(d, e, b) == overwrite(d, b, ZeroBlock)
dealloc_data_dirty(d, e, b) == bitmap_dealloc(touch(d, b), e.data_bitmap_start, b - e.data_area_start)

dealloc_data(d, e, b) == bitmap_dealloc(overwrite(d, b, ZeroBlock), e.data_bitmap_start, b - e.data_area_start)

\* EasyFileSystem::create on a machine whose disk has any contents.
create_fs(d, sb) ==
    LET e == efs(sb)
        zeroed == loop(LAMBDA v, b : overwrite(v, b, ZeroBlock), d, span(0, sb.total_blocks))
        root(v) == IF alloc_inode_id(v, e) # 0 THEN panics(v, "root is not inode 0")
                   ELSE modify(alloc_inode(v, e), inode_block(e, 0), 0, initialize(TRUE))
    IN  then(then(overwrite(zeroed, 0, (0 :> sb)), root), block_cache_sync_all)

----------------------------------------------------------------------------
(* Inode *)

\* Inode id is locked and ready to be changed, and is written and unlocked.
opened(d, e, id) == lock_mut(d, inode_block(e, id)) @@ [ino |-> disk_inode(d, e, id), blocks |-> <<>>]
closed(f, e, id) ==
    LET b == inode_block(e, id)
        saved(v) == [x \in DOMAIN v \ {"ino", "blocks"} |-> unlock(v, b)[x]]
    IN  then(store(f, b, (inode_offset(id) :> f.ino) @@ block(f, b)), saved)

\* find_inode_id in the directory ino: an entry is one word, [name, inode].
\* -1 for None.
find_inode_id(d, ino, name) ==
    LET entries == read_at(d, ino, 0, ino.size)
        hits == {k \in DOMAIN entries : entries[k].name = name}
    IN  IF hits = {} THEN -1 ELSE entries[CHOOSE k \in hits : \A j \in hits : k <= j].inode

after_find(d, ino, name) ==
    LET n == Cardinality({k \in 1 .. ino.size : \A j \in 1 .. (k - 1) : read_at(d, ino, j - 1, 1)[1].name # name})
    IN  IF ~ino.dir THEN panics(d, "not a directory")
        ELSE loop(LAMBDA v, i : after_read_at(v, ino, i, 1), d, span(0, n))

\* Inode::find on the root: the id, and the machine after it.
find_id(d, e, name) == find_inode_id(d, disk_inode(d, e, 0), name)
find(d, e, name) == unlock(after_find(lock(d, inode_block(e, 0)), disk_inode(d, e, 0), name), inode_block(e, 0))

\* Inode::increase_size
grow(f, e, new_size) ==
    LET needed == total_blocks(new_size) - total_blocks(f.ino.size)
    IN  IF new_size < f.ino.size THEN f
        ELSE then(loop(LAMBDA v, k : alloc_data(v, e), f, span(0, needed)), LAMBDA g : increase_size(g, new_size))

\* A plausible bug: the cache is not written back.
inode_write_at_unsynced(d, e, id, offset, buf) ==
    LET written(f) == closed(write_at(f, f.ino, offset, buf), e, id)
    IN  then(then(opened(d, e, id), LAMBDA f : grow(f, e, offset + Len(buf))), written)

\* Inode::write_at
inode_write_at(d, e, id, offset, buf) ==
    LET written(f) == closed(write_at(f, f.ino, offset, buf), e, id)
    IN  then(then(then(opened(d, e, id), LAMBDA f : grow(f, e, offset + Len(buf))), written), block_cache_sync_all)

\* Inode::create on the root, of a name that it does not have; the new inode
\* is alloc_inode_id(d, e).
create(d, e, name) ==
    LET id == alloc_inode_id(d, e)
        root == inode_block(e, 0)
        looked == unlock(after_find(lock_mut(d, root), disk_inode(d, e, 0), name), root)
        initialized(v) == modify(v, inode_block(e, id), inode_offset(id), initialize(FALSE))
        appended(v) == inode_write_at(v, e, 0, disk_inode(v, e, 0).size, <<[name |-> name, inode |-> id]>>)
    IN  then(then(alloc_inode(looked, e), initialized), appended)

\* Inode::read_at
inode_read_at(d, e, id, offset, len) == read_at(d, disk_inode(d, e, id), offset, len)
after_inode_read_at(d, e, id, offset, len) ==
    LET b == inode_block(e, id) IN unlock(after_read_at(lock(d, b), disk_inode(d, e, id), offset, len), b)

\* Inode::clear
clear(d, e, id) ==
    LET freed(g) == IF Len(g.blocks) # total_blocks(disk_inode(d, e, id).size)
                    THEN panics(g, "blocks to free differ from blocks in use")
                    ELSE loop(LAMBDA v, b : dealloc_data(v, e, b), g, g.blocks)
    IN  then(closed(then(then(opened(d, e, id), clear_size), freed), e, id), block_cache_sync_all)
=============================================================================
