--------------------------- MODULE BlockCacheProofs --------------------------
(***************************************************************************)
(* For every BLOCK_CACHE_SIZE, the block cache is transparent: whatever is *)
(* cached, evicted, written back or read again, readers see the blocks as  *)
(* they were last written; a lookup stops the code only if every entry is  *)
(* held or there is no such block; block_cache_sync_all makes everything   *)
(* durable.                                                                *)
(***************************************************************************)
EXTENDS BlockCache, DataStructureProofs, FiniteSetTheorems

CacheFields == {"queue", "cache", "dirty", "disk", "held", "kernel"}

\* The values the cache can have: no block is cached twice, an entry differs
\* from the disk only if it is marked as modified, and a block that is held is
\* cached.
CacheOK(d) ==
    /\ CacheFields \subseteq DOMAIN d
    /\ d.queue \in Seq(DOMAIN d.disk) /\ IsInjective(d.queue) /\ Len(d.queue) <= BLOCK_CACHE_SIZE
    /\ DOMAIN d.cache = Range(d.queue)
    /\ d.dirty \subseteq Range(d.queue)
    /\ d.held \subseteq Range(d.queue)
    /\ \A b \in Range(d.queue) \ d.dirty : d.cache[b] = d.disk[b]

\* The disk of e is that of d with some of the blocks that readers of d see
\* written back.
WritesBack(d, e) ==
    /\ DOMAIN e = DOMAIN d /\ DOMAIN e.disk = DOMAIN d.disk
    /\ \A b \in DOMAIN d.disk : e.disk[b] \in {d.disk[b], block(d, b)}

\* Readers of d and e see the same.
SameBlocks(d, e) == WritesBack(d, e) /\ \A b : block(e, b) = block(d, b)

\* The fields of the machine that are not of the cache, with the blocks held,
\* are the same.
CacheRest(d) == DOMAIN d \ {"queue", "cache", "dirty", "disk"}
SameRest(d, e) == \A f \in CacheRest(d) : e[f] = d[f]

\* Two steps that change nothing for readers change nothing for them together.
LEMMA SameTwice ==
    ASSUME NEW d, NEW v, NEW e, SameBlocks(d, v), SameBlocks(v, e)
    PROVE  SameBlocks(d, e)
<1>1. /\ DOMAIN e = DOMAIN d /\ DOMAIN e.disk = DOMAIN d.disk
      /\ \A b : block(e, b) = block(d, b)
  BY Zenon DEF SameBlocks, WritesBack
<1>2. ASSUME NEW b \in DOMAIN d.disk PROVE e.disk[b] \in {d.disk[b], block(d, b)}
  <2>1. v.disk[b] = d.disk[b] \/ v.disk[b] = block(d, b)
    BY <1>2, Zenon DEF SameBlocks, WritesBack
  <2>2. e.disk[b] = v.disk[b] \/ e.disk[b] = block(v, b)
    BY <1>2, Zenon DEF SameBlocks, WritesBack
  <2>3. block(v, b) = block(d, b)
    BY Zenon DEF SameBlocks
  <2>4. QED
    BY <2>1, <2>2, <2>3
<1>3. QED
  BY <1>1, <1>2, Zenon DEF SameBlocks, WritesBack

\* What sync does to the fields of the machine.
LEMMA SyncFields ==
    ASSUME NEW d, CacheFields \subseteq DOMAIN d, NEW ids
    PROVE  /\ DOMAIN sync(d, ids) = DOMAIN d
           /\ sync(d, ids).disk = [b \in DOMAIN d.disk |-> IF b \in ids \cap d.dirty THEN d.cache[b] ELSE d.disk[b]]
           /\ sync(d, ids).dirty = d.dirty \ ids
           /\ \A f \in DOMAIN d \ {"disk", "dirty"} : sync(d, ids)[f] = d[f]
<1>1. DOMAIN sync(d, ids) = DOMAIN d
  BY Zenon DEF CacheFields, sync
<1>2. sync(d, ids).disk = [b \in DOMAIN d.disk |-> IF b \in ids \cap d.dirty THEN d.cache[b] ELSE d.disk[b]]
  BY Zenon DEF CacheFields, sync
<1>3. sync(d, ids).dirty = d.dirty \ ids
  BY Zenon DEF CacheFields, sync
<1>4. \A f \in DOMAIN d \ {"disk", "dirty"} : sync(d, ids)[f] = d[f]
  BY Zenon DEF CacheFields, sync
<1>5. QED
  BY <1>1, <1>2, <1>3, <1>4

\* The same of dropped.
LEMMA DroppedFields ==
    ASSUME NEW d, CacheFields \subseteq DOMAIN d, NEW idx
    PROVE  LET b == d.queue[idx]
               e == dropped(d, idx)
           IN  /\ DOMAIN e = DOMAIN d
               /\ e.disk = [x \in DOMAIN d.disk |-> IF x \in {b} \cap d.dirty THEN d.cache[x] ELSE d.disk[x]]
               /\ e.dirty = d.dirty \ {b}
               /\ e.queue = RemoveAt(d.queue, idx)
               /\ e.cache = [x \in DOMAIN d.cache \ {b} |-> d.cache[x]]
               /\ SameRest(d, e)
<1> DEFINE b == d.queue[idx]
           s == sync(d, {b})
           e == dropped(d, idx)
<1>1. /\ DOMAIN s = DOMAIN d
      /\ s.disk = [x \in DOMAIN d.disk |-> IF x \in {b} \cap d.dirty THEN d.cache[x] ELSE d.disk[x]]
      /\ s.dirty = d.dirty \ {b}
      /\ \A f \in DOMAIN d \ {"disk", "dirty"} : s[f] = d[f]
  BY SyncFields
<1>2. e = [s EXCEPT !.queue = RemoveAt(@, idx), !.cache = [x \in DOMAIN @ \ {b} |-> @[x]]]
  BY Zenon DEF dropped
<1> HIDE DEF e, s
<1>3. s.queue = d.queue /\ s.cache = d.cache
  BY <1>1, Zenon DEF CacheFields
<1>4. DOMAIN e = DOMAIN d
  BY <1>1, <1>2, Zenon
<1>5. e.queue = RemoveAt(d.queue, idx)
  BY <1>1, <1>2, <1>3, Zenon DEF CacheFields
<1>6. e.cache = [x \in DOMAIN d.cache \ {b} |-> d.cache[x]]
  BY <1>1, <1>2, <1>3, Zenon DEF CacheFields
<1>7. \A f \in DOMAIN d \ {"queue", "cache"} : e[f] = s[f]
  BY <1>1, <1>2, Zenon
<1>8. e.disk = s.disk /\ e.dirty = s.dirty
  BY <1>7, Zenon DEF CacheFields
<1>9. SameRest(d, e)
  BY <1>1, <1>7, Zenon DEF SameRest, CacheRest
<1>10. QED
  BY <1>1, <1>4, <1>5, <1>6, <1>8, <1>9 DEF e

\* Dropping an entry that nobody holds changes nothing for readers: what was
\* modified is on the disk then.
LEMMA DropKeeps ==
    ASSUME NEW d, CacheOK(d), NEW idx \in DOMAIN d.queue, d.queue[idx] \notin d.held
    PROVE  LET e == dropped(d, idx)
           IN  /\ CacheOK(e) /\ SameBlocks(d, e) /\ SameRest(d, e)
               /\ Len(e.queue) = Len(d.queue) - 1
               /\ Range(e.queue) = Range(d.queue) \ {d.queue[idx]}
<1> DEFINE b == d.queue[idx]
           e == dropped(d, idx)
<1>1. /\ CacheFields \subseteq DOMAIN d
      /\ d.queue \in Seq(DOMAIN d.disk) /\ IsInjective(d.queue) /\ Len(d.queue) <= BLOCK_CACHE_SIZE
      /\ DOMAIN d.cache = Range(d.queue)
      /\ d.dirty \subseteq Range(d.queue)
      /\ d.held \subseteq Range(d.queue)
      /\ \A x \in Range(d.queue) \ d.dirty : d.cache[x] = d.disk[x]
  BY Zenon DEF CacheOK
<1>2. /\ DOMAIN e = DOMAIN d
      /\ e.disk = [x \in DOMAIN d.disk |-> IF x \in {b} \cap d.dirty THEN d.cache[x] ELSE d.disk[x]]
      /\ e.dirty = d.dirty \ {b}
      /\ e.queue = RemoveAt(d.queue, idx)
      /\ e.cache = [x \in DOMAIN d.cache \ {b} |-> d.cache[x]]
      /\ SameRest(d, e)
  BY <1>1, DroppedFields
<1> HIDE DEF e, b
<1>3. e.held = d.held
  BY <1>1, <1>2, Zenon DEF SameRest, CacheRest, CacheFields
<1>4. DOMAIN e.disk = DOMAIN d.disk /\ DOMAIN e.cache = Range(d.queue) \ {b}
  BY <1>1, <1>2
<1>5. /\ e.queue \in Seq(DOMAIN d.disk) /\ IsInjective(e.queue)
      /\ Range(e.queue) = Range(d.queue) \ {b} /\ Len(e.queue) = Len(d.queue) - 1
  <2> DEFINE q == d.queue
             S == DOMAIN d.disk
             r == SubSeq(q, 1, idx - 1) \o SubSeq(q, idx + 1, Len(q))
  <2>1. q \in Seq(S) /\ IsInjective(q) /\ idx \in 1 .. Len(q)
    BY <1>1
  <2>2. e.queue = r
    BY <1>2, Zenon DEF RemoveAt
  <2> HIDE DEF q, S
  <2>3. r \in Seq(S) /\ IsInjective(r) /\ Range(r) = Range(q) \ {q[idx]} /\ Len(r) = Len(q) - 1
    BY <2>1, RangeRemove
  <2>4. QED
    BY <2>2, <2>3, Zenon DEF b, q, S
<1>6. Len(e.queue) <= BLOCK_CACHE_SIZE
  BY <1>1, <1>5, BlockCacheAssumption
<1>7. \A x \in Range(e.queue) \ e.dirty : e.cache[x] = e.disk[x]
  <2> SUFFICES ASSUME NEW x \in Range(e.queue) \ e.dirty PROVE e.cache[x] = e.disk[x]
    OBVIOUS
  <2>1. x \in Range(d.queue) /\ x # b /\ x \notin d.dirty /\ x \in DOMAIN d.disk
    BY <1>1, <1>2, <1>5, RangeType
  <2>2. e.cache[x] = d.cache[x] /\ e.disk[x] = d.disk[x]
    BY <1>1, <1>2, <2>1
  <2>3. QED
    BY <1>1, <2>1, <2>2
<1>8. b \in Range(d.queue) /\ b \notin d.held
  BY DEF b, Range
<1>9. CacheOK(e)
  BY <1>1, <1>2, <1>3, <1>4, <1>5, <1>6, <1>7, <1>8 DEF CacheOK
<1>10. \A x : block(e, x) = block(d, x)
  <2> SUFFICES ASSUME NEW x PROVE block(e, x) = block(d, x)
    OBVIOUS
  <2>1. CASE x \in Range(d.queue) /\ x # b
    BY <1>1, <1>2, <1>4, <2>1 DEF block
  <2>2. CASE x = b
    <3>1. x \in DOMAIN d.disk
      BY <1>1, <1>8, <2>2, RangeType
    <3>2. e.disk[x] = d.cache[x]
      BY <1>1, <1>2, <1>8, <2>2, <3>1
    <3>3. QED
      BY <1>1, <1>4, <1>8, <2>2, <3>1, <3>2 DEF block
  <2>3. CASE x \notin Range(d.queue)
    <3>1. x \notin d.dirty
      BY <1>1, <2>3
    <3>2. x \in DOMAIN d.disk => e.disk[x] = d.disk[x]
      BY <1>2, <3>1
    <3>3. QED
      BY <1>1, <1>4, <2>3, <3>2 DEF block
  <2>4. QED
    BY <2>1, <2>2, <2>3
<1>11. WritesBack(d, e)
  <2> SUFFICES ASSUME NEW x \in DOMAIN d.disk PROVE e.disk[x] = d.disk[x] \/ e.disk[x] = block(d, x)
    BY <1>2, <1>4 DEF WritesBack
  <2>1. CASE x = b /\ x \in d.dirty
    BY <1>1, <1>2, <1>8, <2>1 DEF block
  <2>2. CASE ~(x = b /\ x \in d.dirty)
    BY <1>2, <2>2
  <2>3. QED
    BY <2>1, <2>2
<1>12. QED
  BY <1>2, <1>5, <1>9, <1>10, <1>11 DEF SameBlocks, e, b

\* A block that is read from the disk is cached as it is there.
LEMMA LoadKeeps ==
    ASSUME NEW d, CacheOK(d), NEW b \in DOMAIN d.disk, b \notin DOMAIN d.cache,
           Len(d.queue) < BLOCK_CACHE_SIZE
    PROVE  LET e == loaded(d, b)
           IN  /\ CacheOK(e) /\ SameBlocks(d, e) /\ SameRest(d, e)
               /\ DOMAIN e.cache = DOMAIN d.cache \cup {b}
<1> DEFINE e == loaded(d, b)
<1>1. /\ CacheFields \subseteq DOMAIN d
      /\ d.queue \in Seq(DOMAIN d.disk) /\ IsInjective(d.queue) /\ Len(d.queue) <= BLOCK_CACHE_SIZE
      /\ DOMAIN d.cache = Range(d.queue)
      /\ d.dirty \subseteq Range(d.queue)
      /\ d.held \subseteq Range(d.queue)
      /\ \A x \in Range(d.queue) \ d.dirty : d.cache[x] = d.disk[x]
  BY Zenon DEF CacheOK
<1>2. e = [d EXCEPT !.queue = Append(@, b),
                    !.cache = [x \in DOMAIN @ \cup {b} |-> IF x = b THEN d.disk[b] ELSE @[x]]]
  BY Zenon DEF loaded
<1> HIDE DEF e
<1>3. DOMAIN e = DOMAIN d
  BY <1>2, Zenon
<1>4. e.queue = Append(d.queue, b)
  BY <1>1, <1>2, Zenon DEF CacheFields
<1>5. e.cache = [x \in DOMAIN d.cache \cup {b} |-> IF x = b THEN d.disk[b] ELSE d.cache[x]]
  BY <1>1, <1>2, Zenon DEF CacheFields
<1>6. \A f \in DOMAIN d \ {"queue", "cache"} : e[f] = d[f]
  BY <1>2, Zenon
<1>7. e.disk = d.disk /\ e.dirty = d.dirty /\ e.held = d.held
  BY <1>1, <1>6, Zenon DEF CacheFields
<1>8. SameRest(d, e)
  BY <1>6, Zenon DEF SameRest, CacheRest
<1>9. e.queue \in Seq(DOMAIN d.disk) /\ IsInjective(e.queue) /\ Range(e.queue) = Range(d.queue) \cup {b}
  <2> DEFINE q == d.queue
             S == DOMAIN d.disk
  <2>1. q \in Seq(S) /\ IsInjective(q) /\ b \in S /\ b \notin Range(q)
    BY <1>1
  <2> HIDE DEF q, S
  <2>2. Append(q, b) \in Seq(S) /\ IsInjective(Append(q, b)) /\ Range(Append(q, b)) = Range(q) \cup {b}
    BY <2>1, RangeAppend
  <2>3. QED
    BY <1>4, <2>2, Zenon DEF q, S
<1>10. Len(e.queue) <= BLOCK_CACHE_SIZE
  BY <1>1, <1>4, BlockCacheAssumption
<1>11. DOMAIN e.cache = Range(d.queue) \cup {b}
  BY <1>1, <1>5
<1>12. e.cache[b] = d.disk[b] /\ \A x \in Range(d.queue) : e.cache[x] = d.cache[x]
  BY <1>1, <1>5
<1>13. \A x \in Range(e.queue) \ e.dirty : e.cache[x] = e.disk[x]
  BY <1>1, <1>7, <1>9, <1>12
<1>14. CacheOK(e)
  BY <1>1, <1>3, <1>7, <1>9, <1>10, <1>11, <1>13 DEF CacheOK
<1>15. \A x : block(e, x) = block(d, x)
  BY <1>1, <1>7, <1>11, <1>12 DEF block
<1>16. QED
  BY <1>1, <1>3, <1>7, <1>8, <1>11, <1>14, <1>15 DEF SameBlocks, WritesBack, e

\* A full cache of which a call holds fewer blocks than it has entries has an
\* entry to drop.
LEMMA EntryToDrop ==
    ASSUME NEW d, CacheOK(d), Len(d.queue) = BLOCK_CACHE_SIZE, Cardinality(d.held) < BLOCK_CACHE_SIZE
    PROVE  \E idx \in DOMAIN d.queue : d.queue[idx] \notin d.held
<1> DEFINE q == d.queue
           n == BLOCK_CACHE_SIZE
<1>1. /\ n \in Nat /\ q \in [1 .. n -> Range(q)] /\ DOMAIN q = 1 .. n
      /\ IsInjective(q) /\ d.held \subseteq Range(q) /\ Cardinality(d.held) < n
  BY BlockCacheAssumption DEF CacheOK, Range
<1> HIDE DEF q, n
<1>2. IsFiniteSet(1 .. n) /\ Cardinality(1 .. n) = n
  BY <1>1, FS_Interval
<1>3. IsFiniteSet(d.held)
  <2>1. q \in Surjection(1 .. n, Range(q))
    BY <1>1 DEF Surjection, Range
  <2>2. IsFiniteSet(Range(q))
    BY <1>2, <2>1, FS_Surjection
  <2>3. QED
    BY <1>1, <2>2, FS_Subset
<1>4. ASSUME \A idx \in 1 .. n : q[idx] \in d.held PROVE FALSE
  <2>1. q \in [1 .. n -> d.held]
    BY <1>1, <1>4
  <2>2. \E i, j \in 1 .. n : i # j /\ q[i] = q[j]
    BY <1>1, <1>2, <1>3, <2>1, FS_PigeonHole
  <2>3. QED
    BY <1>1, <2>2 DEF IsInjective
<1>5. QED
  BY <1>1, <1>4 DEF q

\* The substitution drops one such entry.
LEMMA EvictKeeps ==
    ASSUME NEW d, CacheOK(d), Len(d.queue) = BLOCK_CACHE_SIZE, Cardinality(d.held) < BLOCK_CACHE_SIZE
    PROVE  LET e == evict(d)
           IN  /\ CacheOK(e) /\ SameBlocks(d, e) /\ SameRest(d, e)
               /\ Len(e.queue) < BLOCK_CACHE_SIZE
               /\ DOMAIN e.cache \subseteq DOMAIN d.cache
<1> DEFINE free == {idx \in DOMAIN d.queue : d.queue[idx] \notin d.held}
           least == CHOOSE idx \in free : \A other \in free : idx <= other
<1>1. free \in SUBSET Nat /\ free # {}
  <2>1. DOMAIN d.queue \subseteq Nat
    BY DEF CacheOK
  <2>2. QED
    BY <2>1, EntryToDrop
<1>2. evict(d) = dropped(d, least)
  BY <1>1, Zenon DEF evict
<1>3. least \in free
  <2> HIDE DEF free
  <2>1. \E idx \in free : \A other \in free : idx <= other
    BY <1>1, LeastNat
  <2>2. QED
    BY <2>1, Zenon
<1> HIDE DEF least
<1> DEFINE e == dropped(d, least)
<1>4. /\ CacheOK(e) /\ SameBlocks(d, e) /\ SameRest(d, e)
      /\ Len(e.queue) = Len(d.queue) - 1
      /\ Range(e.queue) = Range(d.queue) \ {d.queue[least]}
  BY <1>3, DropKeeps
<1> HIDE DEF e
<1>5. Len(e.queue) < BLOCK_CACHE_SIZE
  BY <1>4, BlockCacheAssumption
<1>6. DOMAIN e.cache \subseteq DOMAIN d.cache
  BY <1>4, Zenon DEF CacheOK
<1>7. QED
  BY <1>2, <1>4, <1>5, <1>6 DEF e

\* get_block_cache changes nothing for readers, and it finds the block or room
\* for it as long as the running call holds fewer blocks than the cache has
\* entries; in particular it does not panic.
THEOREM CacheTransparent ==
    ASSUME NEW d, CacheOK(d), d.kernel = "running", NEW b \in DOMAIN d.disk,
           Cardinality(d.held) < BLOCK_CACHE_SIZE
    PROVE  LET e == get_block_cache(d, b)
           IN  CacheOK(e) /\ SameBlocks(d, e) /\ SameRest(d, e) /\ b \in DOMAIN e.cache
<1>1. CASE b \in DOMAIN d.cache
  <2>1. get_block_cache(d, b) = d
    BY <1>1, Zenon DEF get_block_cache
  <2>2. QED
    BY <1>1, <2>1 DEF SameBlocks, WritesBack, SameRest
<1>2. CASE b \notin DOMAIN d.cache
  <2> DEFINE v == IF Len(d.queue) = BLOCK_CACHE_SIZE THEN evict(d) ELSE d
             e == loaded(v, b)
  <2>1. /\ CacheOK(v) /\ SameBlocks(d, v) /\ SameRest(d, v)
        /\ Len(v.queue) < BLOCK_CACHE_SIZE /\ DOMAIN v.cache \subseteq DOMAIN d.cache
    <3>1. CASE Len(d.queue) = BLOCK_CACHE_SIZE
      BY <3>1, EvictKeeps
    <3>2. CASE Len(d.queue) # BLOCK_CACHE_SIZE
      <4>1. v = d
        BY <3>2
      <4>2. Len(d.queue) < BLOCK_CACHE_SIZE
        BY <3>2, BlockCacheAssumption DEF CacheOK
      <4>3. QED
        BY <4>1, <4>2 DEF SameBlocks, WritesBack, SameRest
    <3>3. QED
      BY <3>1, <3>2
  <2>2. get_block_cache(d, b) = CHOOSE r \in {IF w.kernel = "running" THEN loaded(w, b) ELSE w : w \in {v}} : TRUE
    BY <1>2, Zenon DEF get_block_cache, then
  <2> HIDE DEF v
  <2>3. v.kernel = "running"
    BY <2>1, Zenon DEF SameRest, CacheRest, CacheOK, CacheFields
  <2>4. get_block_cache(d, b) = e
    <3>1. {IF w.kernel = "running" THEN loaded(w, b) ELSE w : w \in {v}} = {e}
      BY <2>3, Zenon
    <3>2. QED
      BY <2>2, <3>1
  <2>5. CacheOK(e) /\ SameBlocks(v, e) /\ SameRest(v, e) /\ DOMAIN e.cache = DOMAIN v.cache \cup {b}
    <3>1. b \in DOMAIN v.disk /\ b \notin DOMAIN v.cache
      BY <1>2, <2>1 DEF SameBlocks, WritesBack
    <3>2. QED
      BY <2>1, <3>1, LoadKeeps
  <2> HIDE DEF e
  <2>6. SameBlocks(d, e)
    BY <2>1, <2>5, SameTwice
  <2>7. SameRest(d, e)
    BY <2>1, <2>5, Zenon DEF SameBlocks, WritesBack, SameRest, CacheRest
  <2>8. QED
    BY <2>4, <2>5, <2>6, <2>7, Zenon
<1>3. QED
  BY <1>1, <1>2

----------------------------------------------------------------------------
(* Locks, reads, writes *)

\* The machine with other blocks held.
LEMMA HeldKeeps ==
    ASSUME NEW d, CacheOK(d), NEW h, h \subseteq DOMAIN d.cache
    PROVE  LET e == [d EXCEPT !.held = h]
           IN  /\ CacheOK(e) /\ SameBlocks(d, e)
               /\ e.held = h /\ \A f \in DOMAIN d \ {"held"} : e[f] = d[f]
<1> DEFINE e == [d EXCEPT !.held = h]
<1>1. CacheFields \subseteq DOMAIN d
  BY DEF CacheOK
<1>2. DOMAIN e = DOMAIN d /\ \A f \in DOMAIN d \ {"held"} : e[f] = d[f]
  BY Zenon
<1>3. e.held = h
  BY <1>1, Zenon DEF CacheFields
<1> HIDE DEF e
<1>4. e.queue = d.queue /\ e.cache = d.cache /\ e.dirty = d.dirty /\ e.disk = d.disk
  BY <1>1, <1>2, Zenon DEF CacheFields
<1>5. CacheOK(e)
  BY <1>2, <1>3, <1>4 DEF CacheOK
<1>6. SameBlocks(d, e)
  BY <1>2, <1>4, Zenon DEF SameBlocks, WritesBack, block
<1>7. QED
  BY <1>2, <1>3, <1>5, <1>6 DEF e

\* A lock on a block that the call does not hold yet is granted.
LEMMA LockKeeps ==
    ASSUME NEW d, CacheOK(d), d.kernel = "running", NEW b \in DOMAIN d.disk, b \notin d.held,
           Cardinality(d.held) < BLOCK_CACHE_SIZE
    PROVE  LET e == lock(d, b)
           IN  /\ CacheOK(e) /\ SameBlocks(d, e)
               /\ e.held = d.held \cup {b} /\ b \in DOMAIN e.cache
               /\ \A f \in CacheRest(d) \ {"held"} : e[f] = d[f]
<1> DEFINE g == get_block_cache(d, b)
           e == [g EXCEPT !.held = d.held \cup {b}]
<1>1. CacheOK(g) /\ SameBlocks(d, g) /\ SameRest(d, g) /\ b \in DOMAIN g.cache
  BY CacheTransparent
<1>2. lock(d, b) = [g EXCEPT !.held = @ \cup {b}]
  BY Zenon DEF lock
<1> HIDE DEF g
<1>3. g.held = d.held
  BY <1>1, Zenon DEF SameRest, CacheRest, CacheOK, CacheFields
<1>4. lock(d, b) = e
  BY <1>2, <1>3, Zenon
<1>5. d.held \cup {b} \subseteq DOMAIN g.cache
  BY <1>1, <1>3 DEF CacheOK
<1>6. /\ CacheOK(e) /\ SameBlocks(g, e)
      /\ e.held = d.held \cup {b} /\ \A f \in DOMAIN g \ {"held"} : e[f] = g[f]
  BY <1>1, <1>5, HeldKeeps
<1> HIDE DEF e
<1>7. SameBlocks(d, e)
  BY <1>1, <1>6, SameTwice
<1>8. b \in DOMAIN e.cache
  BY <1>1, <1>6, Zenon DEF CacheOK, CacheFields
<1>9. \A f \in CacheRest(d) \ {"held"} : e[f] = d[f]
  BY <1>1, <1>6, Zenon DEF SameBlocks, WritesBack, SameRest, CacheRest
<1>10. QED
  BY <1>4, <1>6, <1>7, <1>8, <1>9, Zenon

\* A read through a lock that is dropped again leaves the machine as it was for
\* readers, and nothing held that was not.
THEOREM ReadChangesNothing ==
    ASSUME NEW d, CacheOK(d), d.kernel = "running", NEW b \in DOMAIN d.disk, b \notin d.held,
           Cardinality(d.held) < BLOCK_CACHE_SIZE
    PROVE  LET e == touch(d, b)
           IN  CacheOK(e) /\ SameBlocks(d, e) /\ SameRest(d, e)
<1> DEFINE l == lock(d, b)
           e == [l EXCEPT !.held = d.held]
<1>1. /\ CacheOK(l) /\ SameBlocks(d, l)
      /\ l.held = d.held \cup {b} /\ b \in DOMAIN l.cache
      /\ \A f \in CacheRest(d) \ {"held"} : l[f] = d[f]
  BY LockKeeps
<1>2. touch(d, b) = [l EXCEPT !.held = @ \ {b}]
  BY Zenon DEF touch, unlock
<1> HIDE DEF l
<1>3. l.held \ {b} = d.held
  BY <1>1
<1>4. touch(d, b) = e
  BY <1>2, <1>3, Zenon
<1>5. d.held \subseteq DOMAIN l.cache
  BY <1>1 DEF CacheOK
<1>6. /\ CacheOK(e) /\ SameBlocks(l, e)
      /\ e.held = d.held /\ \A f \in DOMAIN l \ {"held"} : e[f] = l[f]
  BY <1>1, <1>5, HeldKeeps
<1> HIDE DEF e
<1>7. SameBlocks(d, e)
  BY <1>1, <1>6, SameTwice
<1>8. SameRest(d, e)
  BY <1>1, <1>6, Zenon DEF SameBlocks, WritesBack, SameRest, CacheRest
<1>9. QED
  BY <1>4, <1>6, <1>7, <1>8, Zenon

\* A store changes the block it is for, in the cache, and marks it as modified.
LEMMA StoreKeeps ==
    ASSUME NEW d, CacheOK(d), NEW b \in DOMAIN d.cache, NEW new
    PROVE  LET e == store(d, b, new)
           IN  /\ CacheOK(e) /\ WritesBack(d, e)
               /\ block(e, b) = new /\ \A x : x # b => block(e, x) = block(d, x)
               /\ DOMAIN e.cache = DOMAIN d.cache /\ e.disk = d.disk
               /\ SameRest(d, e)
<1> DEFINE e == store(d, b, new)
<1>1. /\ CacheFields \subseteq DOMAIN d
      /\ DOMAIN d.cache = Range(d.queue)
      /\ \A x \in Range(d.queue) \ d.dirty : d.cache[x] = d.disk[x]
  BY Zenon DEF CacheOK
<1>2. e = [d EXCEPT !.cache[b] = new, !.dirty = @ \cup {b}]
  BY Zenon DEF store
<1> HIDE DEF e
<1>3. DOMAIN e = DOMAIN d
  BY <1>2, Zenon
<1>4. e.cache = [d.cache EXCEPT ![b] = new]
  BY <1>1, <1>2, Zenon DEF CacheFields
<1>5. e.dirty = d.dirty \cup {b}
  BY <1>1, <1>2, Zenon DEF CacheFields
<1>6. \A f \in DOMAIN d \ {"cache", "dirty"} : e[f] = d[f]
  BY <1>2, Zenon
<1>7. e.queue = d.queue /\ e.disk = d.disk /\ e.held = d.held
  BY <1>1, <1>6, Zenon DEF CacheFields
<1>8. /\ DOMAIN e.cache = DOMAIN d.cache
      /\ e.cache[b] = new /\ \A x \in DOMAIN d.cache \ {b} : e.cache[x] = d.cache[x]
  BY <1>4, Zenon
<1>9. \A x \in Range(e.queue) \ e.dirty : e.cache[x] = e.disk[x]
  BY <1>1, <1>5, <1>7, <1>8
<1>10. CacheOK(e)
  BY <1>1, <1>3, <1>5, <1>7, <1>8, <1>9 DEF CacheOK
<1>11. block(e, b) = new /\ \A x : x # b => block(e, x) = block(d, x)
  BY <1>7, <1>8 DEF block
<1>12. SameRest(d, e)
  BY <1>6, Zenon DEF SameRest, CacheRest
<1>13. QED
  BY <1>3, <1>7, <1>8, <1>10, <1>11, <1>12 DEF WritesBack, e

\* get_block_cache(b).lock().modify(_): readers see the new block b and the
\* other blocks as before, and nothing is held that was not.
THEOREM WriteReadsBack ==
    ASSUME NEW d, CacheOK(d), d.kernel = "running", NEW b \in DOMAIN d.disk, b \notin d.held,
           Cardinality(d.held) < BLOCK_CACHE_SIZE, NEW new
    PROVE  LET e == overwrite(d, b, new)
           IN  /\ CacheOK(e) /\ WritesBack(d, e)
               /\ block(e, b) = new /\ \A x : x # b => block(e, x) = block(d, x)
               /\ SameRest(d, e)
<1> DEFINE l == lock(d, b)
           s == store(l, b, new)
           e == [s EXCEPT !.held = d.held]
<1>1. /\ CacheOK(l) /\ SameBlocks(d, l)
      /\ l.held = d.held \cup {b} /\ b \in DOMAIN l.cache
      /\ \A f \in CacheRest(d) \ {"held"} : l[f] = d[f]
  BY LockKeeps
<1>2. overwrite(d, b, new) = [s EXCEPT !.held = @ \ {b}]
  BY Zenon DEF overwrite, unlock
<1> HIDE DEF l
<1>3. /\ CacheOK(s) /\ DOMAIN s = DOMAIN l /\ s.disk = l.disk
      /\ block(s, b) = new /\ \A x : x # b => block(s, x) = block(l, x)
      /\ DOMAIN s.cache = DOMAIN l.cache
      /\ SameRest(l, s)
  BY <1>1, StoreKeeps DEF WritesBack
<1> HIDE DEF s
<1>4. s.held = l.held
  BY <1>1, <1>3, Zenon DEF SameRest, CacheRest, CacheOK, CacheFields
<1>5. s.held \ {b} = d.held
  BY <1>1, <1>4
<1>6. overwrite(d, b, new) = e
  BY <1>2, <1>5, Zenon
<1>7. d.held \subseteq DOMAIN s.cache
  BY <1>1, <1>3 DEF CacheOK
<1>8. /\ CacheOK(e) /\ SameBlocks(s, e)
      /\ e.held = d.held /\ \A f \in DOMAIN s \ {"held"} : e[f] = s[f]
  BY <1>3, <1>7, HeldKeeps
<1> HIDE DEF e
<1>9. block(e, b) = new /\ \A x : x # b => block(e, x) = block(d, x)
  BY <1>1, <1>3, <1>8, Zenon DEF SameBlocks
<1>10. SameRest(d, e)
  <2>1. DOMAIN l = DOMAIN d
    BY <1>1 DEF SameBlocks, WritesBack
  <2>2. \A f \in CacheRest(d) \ {"held"} : e[f] = d[f]
    BY <1>1, <1>3, <1>8, <2>1, Zenon DEF SameRest, CacheRest
  <2>3. QED
    BY <1>8, <2>2, Zenon DEF SameRest
<1>11. WritesBack(d, e)
  <2>1. e.disk = l.disk
    BY <1>3, <1>8, Zenon DEF CacheOK, CacheFields
  <2>2. QED
    BY <1>1, <1>3, <1>8, <2>1, Zenon DEF SameBlocks, WritesBack
<1>12. QED
  BY <1>6, <1>8, <1>9, <1>10, <1>11, Zenon

\* block_cache_sync_all: what readers see is on the disk then, and nothing else
\* is; no entry is modified any more.
THEOREM SyncMakesDurable ==
    ASSUME NEW d, CacheOK(d), d.held = {}
    PROVE  LET e == block_cache_sync_all(d)
           IN  /\ CacheOK(e) /\ SameBlocks(d, e) /\ SameRest(d, e)
               /\ e.disk = [b \in DOMAIN d.disk |-> block(d, b)]
               /\ e.dirty = {}
<1> DEFINE e == sync(d, Range(d.queue))
<1>1. /\ CacheFields \subseteq DOMAIN d
      /\ d.queue \in Seq(DOMAIN d.disk)
      /\ DOMAIN d.cache = Range(d.queue)
      /\ d.dirty \subseteq Range(d.queue)
      /\ \A x \in Range(d.queue) \ d.dirty : d.cache[x] = d.disk[x]
  BY Zenon DEF CacheOK
<1>2. block_cache_sync_all(d) = e
  BY Zenon DEF block_cache_sync_all
<1>3. /\ DOMAIN e = DOMAIN d
      /\ e.disk = [b \in DOMAIN d.disk |-> IF b \in Range(d.queue) \cap d.dirty THEN d.cache[b] ELSE d.disk[b]]
      /\ e.dirty = d.dirty \ Range(d.queue)
      /\ \A f \in DOMAIN d \ {"disk", "dirty"} : e[f] = d[f]
  BY <1>1, SyncFields
<1> HIDE DEF e
<1>4. e.queue = d.queue /\ e.cache = d.cache /\ e.held = d.held
  BY <1>1, <1>3, Zenon DEF CacheFields
<1>5. e.dirty = {} /\ DOMAIN e.disk = DOMAIN d.disk
  BY <1>1, <1>3
<1>6. \A b \in DOMAIN d.disk : e.disk[b] = block(d, b)
  BY <1>1, <1>3 DEF block
<1>7. Range(d.queue) \subseteq DOMAIN d.disk
  BY <1>1, RangeType
<1>8. \A x \in Range(e.queue) \ e.dirty : e.cache[x] = e.disk[x]
  BY <1>1, <1>4, <1>6, <1>7 DEF block
<1>9. CacheOK(e)
  BY <1>3, <1>4, <1>5, <1>8 DEF CacheOK
<1>10. \A b : block(e, b) = block(d, b)
  BY <1>1, <1>4, <1>5, <1>6 DEF block
<1>11. SameRest(d, e)
  BY <1>3, Zenon DEF SameRest, CacheRest
<1>12. e.disk = [b \in DOMAIN d.disk |-> block(d, b)]
  BY <1>3, <1>5, <1>6
<1>13. QED
  BY <1>2, <1>3, <1>5, <1>6, <1>9, <1>10, <1>11, <1>12 DEF SameBlocks, WritesBack
=============================================================================
