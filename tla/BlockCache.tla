------------------------------ MODULE BlockCache ------------------------------
(***************************************************************************)
(* The block cache of easy-fs/src/block_cache.rs as operators on a machine *)
(*   queue  the ids of the cached blocks, in the order of the VecDeque,    *)
(*   cache  the contents of the cached blocks, by id,                      *)
(*   dirty  those that are modified,                                       *)
(*   disk   what is on the block device, by id,                            *)
(*   held   the blocks whose Arc is held and locked by the running call,   *)
(*   kernel "running", or why the code has panicked.                       *)
(* A block is a partial function from positions; what is absent is zero.   *)
(***************************************************************************)
EXTENDS Integers, FiniteSets, Panic, TLC

CONSTANT BLOCK_CACHE_SIZE

ASSUME BlockCacheAssumption == BLOCK_CACHE_SIZE \in Nat \ {0}

ZeroBlock == <<>>

\* What readers see of the blocks: block b, and the entry at its position i.
block(d, b) == IF b \in DOMAIN d.cache THEN d.cache[b] ELSE IF b \in DOMAIN d.disk THEN d.disk[b] ELSE ZeroBlock
words(d) == [b \in Int, i \in Int |-> IF i \in DOMAIN block(d, b) THEN block(d, b)[i] ELSE 0]
word(d, b, i) == words(d)[b, i]

\* BlockCache::sync of the entries in ids.
sync(d, ids) ==
    [d EXCEPT !.disk = [b \in DOMAIN @ |-> IF b \in ids \cap d.dirty THEN d.cache[b] ELSE @[b]], !.dirty = @ \ ids]

\* The entry at idx is drained from the queue, and its drop writes it back.
dropped(d, idx) ==
    LET b == d.queue[idx]
    IN  [sync(d, {b}) EXCEPT !.queue = RemoveAt(@, idx), !.cache = [x \in DOMAIN @ \ {b} |-> @[x]]]

\* The substitution drops the first entry that nobody holds.
evict(d) ==
    LET free == {idx \in DOMAIN d.queue : d.queue[idx] \notin d.held}
    IN  IF free = {} THEN panics(d, "run out of block cache")
        ELSE dropped(d, CHOOSE idx \in free : \A other \in free : idx <= other)

\* A block is read from the device and its entry pushed back.
loaded(d, b) ==
    IF b \notin DOMAIN d.disk THEN panics(d, "no such block")
    ELSE [d EXCEPT !.queue = Append(@, b), !.cache = [x \in DOMAIN @ \cup {b} |-> IF x = b THEN d.disk[b] ELSE @[x]]]

get_block_cache(d, b) ==
    IF b \in DOMAIN d.cache THEN d
    ELSE then(IF Len(d.queue) = BLOCK_CACHE_SIZE THEN evict(d) ELSE d, LAMBDA v : loaded(v, b))

\* The guard of the block's spin lock is taken, and dropped.
lock(d, b) == IF b \in d.held THEN panics(d, "deadlock") ELSE [get_block_cache(d, b) EXCEPT !.held = @ \cup {b}]
unlock(d, b) == [d EXCEPT !.held = @ \ {b}]

\* A read through get_block_cache(b).lock(); its value is word(d, b, _).
touch(d, b) == unlock(lock(d, b), b)

\* get_mut of a block that is locked.
store(d, b, new) == IF b \in DOMAIN d.cache THEN [d EXCEPT !.cache[b] = new, !.dirty = @ \cup {b}] ELSE d

\* A lock for modify(_), which sets modified whatever is changed.
lock_mut(d, b) == store(lock(d, b), b, block(d, b))
touch_mut(d, b) == unlock(lock_mut(d, b), b)

\* get_block_cache(b).lock().modify(_): the whole block, or one entry of it.
overwrite(d, b, new) == unlock(store(lock(d, b), b, new), b)
modify(d, b, i, x) == overwrite(d, b, (i :> x) @@ block(d, b))

\* It locks every entry.
block_cache_sync_all(d) == IF d.held # {} THEN panics(d, "deadlock") ELSE sync(d, Range(d.queue))
=============================================================================
