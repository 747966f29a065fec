------------------------------- MODULE DiskInode ------------------------------
(***************************************************************************)
(* DiskInode of easy-fs/src/layout.rs: which blocks hold the words of a    *)
(* file, how they are added and taken away, and reading and writing.       *)
(*                                                                         *)
(* The operators that change an inode work on a machine of the module      *)
(* BlockCache with two more fields: ino, the inode, and blocks, the ids    *)
(* that new_blocks has left or that clear_size has collected.              *)
(***************************************************************************)
EXTENDS BlockCache

CONSTANTS
    BLOCK_SZ,               \* words in a block
    INODE_DIRECT_COUNT,
    INODE_INDIRECT1_COUNT   \* ids in an index block

ASSUME DiskInodeAssumption == {BLOCK_SZ, INODE_DIRECT_COUNT, INODE_INDIRECT1_COUNT} \subseteq Nat \ {0}

INDIRECT1_BOUND == INODE_DIRECT_COUNT + INODE_INDIRECT1_COUNT
INODE_INDIRECT2_COUNT == INODE_INDIRECT1_COUNT * INODE_INDIRECT1_COUNT

\* The numbers from a to b - 1, in order.
span(a, b) == [k \in 1 .. (IF b > a THEN b - a ELSE 0) |-> a + k - 1]
least(a, b) == IF a < b THEN a ELSE b
most(a, b) == IF a < b THEN b ELSE a

\* DiskInode::initialize
initialize(dir) ==
    [size |-> 0, direct |-> [k \in 0 .. (INODE_DIRECT_COUNT - 1) |-> 0], indirect1 |-> 0, indirect2 |-> 0, dir |-> dir]

data_blocks(size) == (size + BLOCK_SZ - 1) \div BLOCK_SZ


total_blocks(size) ==
    LET n == data_blocks(size)
    IN  n + (IF n > INODE_DIRECT_COUNT THEN 1 ELSE 0)
          + (IF n > INDIRECT1_BOUND
             THEN 1 + (n - INDIRECT1_BOUND + INODE_INDIRECT1_COUNT - 1) \div INODE_INDIRECT1_COUNT ELSE 0)

\* get_block_id, and the index blocks it reads on the way.
get_block_id(d, ino, n) ==
    LET last == n - INDIRECT1_BOUND
    IN  IF n < INODE_DIRECT_COUNT THEN ino.direct[n]
        ELSE IF n < INDIRECT1_BOUND THEN word(d, ino.indirect1, n - INODE_DIRECT_COUNT)
        ELSE word(d, word(d, ino.indirect2, last \div INODE_INDIRECT1_COUNT), last % INODE_INDIRECT1_COUNT)

index_touched(d, ino, n) ==
    LET last == n - INDIRECT1_BOUND
        index == IF last < 0 THEN <<ino.indirect1>>
                 ELSE <<ino.indirect2, word(d, ino.indirect2, last \div INODE_INDIRECT1_COUNT)>>
    IN  loop(touch, d, IF n < INODE_DIRECT_COUNT THEN <<>> ELSE index)

----------------------------------------------------------------------------
(* increase_size *)

\* new_blocks.next().unwrap(): its value, and the rest.
next_block(f) == IF f.blocks = <<>> THEN 0 ELSE Head(f.blocks)
rest(f) == IF f.blocks = <<>> THEN panics(f, "no new block") ELSE [f EXCEPT !.blocks = Tail(@)]

fill_direct(f, k) == [rest(f) EXCEPT !.ino.direct[k] = next_block(f)]
fill_index(f, b, k) == modify(rest(f), b, k, next_block(f))

\* Block n of those behind indirect2, which is locked; the first of its index
\* block brings the index block with it.
fill_indirect2(f, n) ==
    LET a == n \div INODE_INDIRECT1_COUNT
        b == n % INODE_INDIRECT1_COUNT
        top == f.ino.indirect2
        with_index == IF b = 0 THEN store(rest(f), top, (a :> next_block(f)) @@ block(f, top)) ELSE f
    IN  IF a >= INODE_INDIRECT1_COUNT THEN panics(f, "index out of bounds")
        ELSE then(with_index, LAMBDA g : fill_index(g, word(g, top, a), b))

increase_size(f, new_size) ==
    LET cur == data_blocks(f.ino.size)
        tot == data_blocks(new_size)
        fill_indirect1(g, n) == fill_index(g, g.ino.indirect1, n - INODE_DIRECT_COUNT)
        fill_doubly(g, n) == fill_indirect2(g, n - INDIRECT1_BOUND)
        direct(g) == loop(fill_direct, g, span(cur, least(tot, INODE_DIRECT_COUNT)))
        indirect1(g) == IF cur <= INODE_DIRECT_COUNT THEN [rest(g) EXCEPT !.ino.indirect1 = next_block(g)] ELSE g
        singly(g) == loop(fill_indirect1, touch_mut(g, g.ino.indirect1),
                          span(most(cur, INODE_DIRECT_COUNT), least(tot, INDIRECT1_BOUND)))
        indirect2(g) == IF cur <= INDIRECT1_BOUND THEN [rest(g) EXCEPT !.ino.indirect2 = next_block(g)] ELSE g
        doubly(g) == loop(fill_doubly, lock_mut(g, g.ino.indirect2), span(most(cur, INDIRECT1_BOUND), tot))
        to_indirect1(g) == IF tot <= INODE_DIRECT_COUNT THEN g ELSE then(indirect1(g), singly)
        to_indirect2(g) == IF tot <= INDIRECT1_BOUND THEN g
                           ELSE then(then(indirect2(g), doubly), LAMBDA v : unlock(v, v.ino.indirect2))
    IN  then(then(direct([f EXCEPT !.ino.size = new_size]), to_indirect1), to_indirect2)

----------------------------------------------------------------------------
(* clear_size *)

\* The first n ids in index block b are collected.
collect(f, b, n) ==
    [touch_mut(f, b) EXCEPT !.blocks = @ \o [k \in 1 .. n |-> word(f, b, k - 1)]]

\* Entry a of indirect2, whose index block has n ids.
collect_indirect2(f, a, n) ==
    LET b == word(f, f.ino.indirect2, a) IN collect([f EXCEPT !.blocks = Append(@, b)], b, n)

clear_size(f) ==
    LET n == data_blocks(f.ino.size)
        last == n - INDIRECT1_BOUND
        gone == 0 .. (least(n, INODE_DIRECT_COUNT) - 1)
        direct == [f EXCEPT !.blocks = [k \in 1 .. Cardinality(gone) |-> f.ino.direct[k - 1]], !.ino.size = 0,
                            !.ino.direct = [k \in DOMAIN @ |-> IF k \in gone THEN 0 ELSE @[k]]]
        singly(g) == collect([g EXCEPT !.blocks = Append(@, g.ino.indirect1), !.ino.indirect1 = 0], g.ino.indirect1,
                             least(n - INODE_DIRECT_COUNT, INODE_INDIRECT1_COUNT))
        ids_in(a) == least(last - a * INODE_INDIRECT1_COUNT, INODE_INDIRECT1_COUNT)
        doubly(g) == loop(LAMBDA v, a : collect_indirect2(v, a, ids_in(a)), lock_mut(g, g.ino.indirect2),
                          span(0, (last + INODE_INDIRECT1_COUNT - 1) \div INODE_INDIRECT1_COUNT))
        from_indirect1(g) == IF n <= INODE_DIRECT_COUNT THEN g ELSE singly(g)
        from_indirect2(g) ==
            IF last <= 0 THEN g
            ELSE IF last > INODE_INDIRECT2_COUNT THEN panics(g, "too many blocks")
            ELSE then(doubly([g EXCEPT !.blocks = Append(@, g.ino.indirect2)]),
                      LAMBDA v : [unlock(v, v.ino.indirect2) EXCEPT !.ino.indirect2 = 0])
    IN  then(from_indirect1(direct), from_indirect2)

----------------------------------------------------------------------------
(* read_at and write_at *)

\* The blocks that hold the words from start to end - 1.
block_span(start, end) == span(start \div BLOCK_SZ, (end - 1) \div BLOCK_SZ + 1)

\* The words read_at(offset, len) returns, and the machine after it.
read_at(d, ino, offset, len) ==
    LET end == least(offset + len, ino.size)
    IN  [k \in 1 .. most(end - offset, 0) |->
            word(d, get_block_id(d, ino, (offset + k - 1) \div BLOCK_SZ), (offset + k - 1) % BLOCK_SZ)]

after_read_at(d, ino, offset, len) ==
    LET end == least(offset + len, ino.size)
        read_block(v, n) == touch(index_touched(v, ino, n), get_block_id(v, ino, n))
    IN  IF offset >= end THEN d ELSE loop(read_block, d, block_span(offset, end))

\* The part of write_at in block n: the words of buf, which begins at offset,
\* that belong there.
write_block(d, ino, offset, buf, n) ==
    LET b == get_block_id(d, ino, n)
        end == least(offset + Len(buf), ino.size)
        here == {p \in offset .. (end - 1) : p \div BLOCK_SZ = n}
        new == [i \in {p % BLOCK_SZ : p \in here} |-> buf[n * BLOCK_SZ + i - offset + 1]] @@ block(d, b)
    IN  overwrite(index_touched(d, ino, n), b, new)

\* write_at of a buffer that is not empty.
write_at(d, ino, offset, buf) ==
    LET end == least(offset + Len(buf), ino.size)
    IN  IF offset > end THEN panics(d, "write beyond the end")
        ELSE loop(LAMBDA v, n : write_block(v, ino, offset, buf, n), d, block_span(offset, end))
=============================================================================
