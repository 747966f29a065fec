-------------------------------- MODULE Files ---------------------------------
(***************************************************************************)
(* Files as programs use them: open_file and OSInode of                    *)
(* os/src/fs/inode.rs behind sys_open, sys_read, sys_write and sys_close,  *)
(* the image that easy-fs-fuse/src/main.rs packs, and the loss of what is  *)
(* only in memory when the machine is restarted.                           *)
(***************************************************************************)
EXTENDS EasyFs

CONSTANTS
    Names, Apps,        \* file names, and those the packer puts on the disk
    Handles,            \* bound on the open files: the OSInodes
    NoFile, NoHandle,
    Words,              \* what is written
    Slices,             \* the sizes of the parts of a user buffer
    Flags,              \* the OpenFlags that programs open files with
    TotalBlocks, InodeBitmapBlocks,
    MaxCalls            \* bound on the number of calls

ASSUME FilesAssumption ==
    Range(Apps) \subseteq Names /\ MaxCalls \in Nat /\ Flags \subseteq SUBSET {"WRONLY", "RDWR", "CREATE", "TRUNC"}

VARIABLES
    fs,         \* the machine of BlockCache: cache and disk
    easy_fs,    \* the EasyFileSystem
    handles,    \* the OSInodes: inode, offset, readable, writable
    returned,   \* what the last call has returned
    calls       \* the number of calls so far

vars == <<fs, easy_fs, handles, returned, calls>>

\* OpenFlags::read_write
readable(flags) == flags = {} \/ "WRONLY" \notin flags
writable(flags) == flags # {}

----------------------------------------------------------------------------
(* The packer *)

\* The machine of the block cache when nothing is cached.
empty_cache(disk) == [queue |-> <<>>, cache |-> <<>>, dirty |-> {}, disk |-> disk, held |-> {}, kernel |-> "running"]

Super == areas(TotalBlocks, InodeBitmapBlocks)

\* An app is created and written.
pack(d, app) == inode_write_at(create(d, efs(Super), app), efs(Super), alloc_inode_id(d, efs(Super)), 0, <<7>>)

easy_fs_pack == loop(pack, create_fs(empty_cache([b \in 0 .. (TotalBlocks - 1) |-> ZeroBlock]), Super), Apps)

\* The machine starts with what is on the disk: EasyFileSystem::open.
mounted(disk) == touch(empty_cache(disk), 0)

Init ==
    /\ fs = mounted(easy_fs_pack.disk)
    /\ easy_fs = efs(word(fs, 0, 0))
    /\ handles = [h \in Handles |-> NoHandle]
    /\ returned = <<"reboot">> /\ calls = 0

----------------------------------------------------------------------------
(* The calls *)

\* A call has brought the machine to d, or has panicked on the way: then the
\* machine stops, and what the call has left behind is not looked at.
Returns(d, result) ==
    /\ calls < MaxCalls /\ fs.kernel = "running"
    /\ calls' = calls + 1
    /\ IF d.kernel = "running" THEN fs' = d /\ returned' = result
       ELSE fs' = [fs EXCEPT !.kernel = d.kernel] /\ UNCHANGED returned
    /\ UNCHANGED easy_fs

Opened(h, id, flags, d) ==
    handles' = IF d.kernel # "running" THEN handles
               ELSE [handles EXCEPT ![h] = [inode |-> id, offset |-> 0, readable |-> readable(flags), writable |-> writable(flags)]]

\* open_file with CREATE of a file that exists: it is cleared.
open_created(h, name, flags) ==
    LET id == find_id(fs, easy_fs, name)
        d == clear(find(fs, easy_fs, name), easy_fs, id)
    IN  /\ handles[h] = NoHandle /\ id # -1 /\ "CREATE" \in flags
        /\ Returns(d, <<"create">>)
        /\ Opened(h, id, flags, d)

\* open_file with CREATE of a new file.
open_new(h, name, flags) ==
    LET id == alloc_inode_id(fs, easy_fs)
        d == create(find(fs, easy_fs, name), easy_fs, name)
    IN  /\ handles[h] = NoHandle /\ find_id(fs, easy_fs, name) = -1 /\ "CREATE" \in flags
        /\ Returns(d, <<"create">>)
        /\ Opened(h, id, flags, d)

\* open_file without CREATE.
open_existing(h, name, flags) ==
    LET id == find_id(fs, easy_fs, name)
        d1 == find(fs, easy_fs, name)
        d == IF "TRUNC" \in flags THEN clear(d1, easy_fs, id) ELSE d1
    IN  /\ handles[h] = NoHandle /\ id # -1 /\ "CREATE" \notin flags
        /\ Returns(d, <<"open">>)
        /\ Opened(h, id, flags, d)

open_missing(name, flags) ==
    /\ find_id(fs, easy_fs, name) = -1 /\ "CREATE" \notin flags
    /\ Returns(find(fs, easy_fs, name), <<"fail">>)
    /\ UNCHANGED handles

\* One slice of OSInode::read; r has the machine, the offset and the words so
\* far, and more is FALSE once a slice has read nothing.
read_slice(r, id, len) ==
    LET got == inode_read_at(r.d, easy_fs, id, r.offset, len)
    IN  IF ~r.more THEN r
        ELSE [d |-> after_inode_read_at(r.d, easy_fs, id, r.offset, len), offset |-> r.offset + Len(got),
              got |-> r.got \o got, more |-> got # <<>>]

OSInode_read(d, id, offset, slices) ==
    FoldLeft(LAMBDA r, len : read_slice(r, id, len), [d |-> d, offset |-> offset, got |-> <<>>, more |-> TRUE], slices)

sys_read(h, slices) ==
    LET r == OSInode_read(fs, handles[h].inode, handles[h].offset, slices)
    IN  /\ handles[h] # NoHandle /\ handles[h].readable
        /\ Returns(r.d, <<"read", r.got>>)
        /\ handles' = IF r.d.kernel = "running" THEN [handles EXCEPT ![h].offset = r.offset] ELSE handles

\* OSInode::write, slice by slice.
OSInode_write(d, id, offset, slices, x) ==
    FoldLeft(LAMBDA r, len : IF r.d.kernel # "running" THEN r
                             ELSE [d |-> inode_write_at(r.d, easy_fs, id, r.offset, [k \in 1 .. len |-> x]), offset |-> r.offset + len],
             [d |-> d, offset |-> offset], slices)

sys_write(h, slices, x) ==
    LET r == OSInode_write(fs, handles[h].inode, handles[h].offset, slices, x)
    IN  /\ handles[h] # NoHandle /\ handles[h].writable
        /\ Returns(r.d, <<"write", r.offset - handles[h].offset>>)
        /\ handles' = IF r.d.kernel = "running" THEN [handles EXCEPT ![h].offset = r.offset] ELSE handles

\* sys_read and sys_write of a file that is not open for it.
refused(h) ==
    /\ handles[h] # NoHandle /\ ~(handles[h].readable /\ handles[h].writable)
    /\ Returns(fs, <<"fail">>)
    /\ UNCHANGED handles

sys_close(h) ==
    /\ handles[h] # NoHandle
    /\ Returns(fs, <<"close">>)
    /\ handles' = [handles EXCEPT ![h] = NoHandle]

\* sys_exec and INITPROC read a file to its end, block by block.
read_all(name) ==
    LET id == find_id(fs, easy_fs, name)
        n == data_blocks(disk_inode(fs, easy_fs, id).size) + 1
        r == OSInode_read(find(fs, easy_fs, name), id, 0, [k \in 1 .. n |-> BLOCK_SZ])
    IN  /\ id # -1
        /\ Returns(r.d, <<"load", r.got>>)
        /\ UNCHANGED handles

\* Inode::ls of the root.
list_apps ==
    LET root == disk_inode(fs, easy_fs, 0)
        d == lock(fs, inode_block(easy_fs, 0))
    IN  /\ Returns(unlock(loop(LAMBDA v, i : after_read_at(v, root, i, 1), d, span(0, root.size)), inode_block(easy_fs, 0)),
                   <<"list", [k \in 1 .. root.size |-> read_at(d, root, k - 1, 1)[1].name]>>)
        /\ UNCHANGED handles

\* Power is lost between two calls, and the machine is started again.
crash ==
    /\ calls < MaxCalls /\ calls' = calls + 1
    /\ fs.kernel = "running"
    /\ fs' = mounted(fs.disk)
    /\ easy_fs' = efs(word(mounted(fs.disk), 0, 0))
    /\ handles' = [h \in Handles |-> NoHandle]
    /\ returned' = <<"reboot">>

Next ==
    \/ \E h \in Handles, n \in Names, flags \in Flags :
           open_created(h, n, flags) \/ open_new(h, n, flags) \/ open_existing(h, n, flags)
    \/ \E n \in Names, flags \in Flags : open_missing(n, flags)
    \/ \E h \in Handles, s \in Slices : sys_read(h, s)
    \/ \E h \in Handles, s \in Slices, x \in Words : sys_write(h, s, x)
    \/ \E h \in Handles : refused(h) \/ sys_close(h)
    \/ \E n \in Names : read_all(n)
    \/ list_apps
    \/ crash

Spec == Init /\ [][Next]_vars

----------------------------------------------------------------------------
(* Properties *)

Root == disk_inode(fs, easy_fs, 0)
Entries == read_at(fs, Root, 0, Root.size)
Inodes == {0} \cup {Entries[k].inode : k \in DOMAIN Entries}

\* The blocks of an inode: data and index blocks.
BlocksOf(ino) ==
    LET n == data_blocks(ino.size)
        doubly == IF n > INDIRECT1_BOUND THEN (n - INDIRECT1_BOUND - 1) \div INODE_INDIRECT1_COUNT ELSE -1
    IN  [k \in 1 .. n |-> get_block_id(fs, ino, k - 1)]
        \o (IF n > INODE_DIRECT_COUNT THEN <<ino.indirect1>> ELSE <<>>)
        \o (IF n > INDIRECT1_BOUND THEN <<ino.indirect2>> ELSE <<>>)
        \o [k \in 1 .. (doubly + 1) |-> word(fs, ino.indirect2, k - 1)]

SetBits(start, n) == {k \in 0 .. (n * BLOCK_BITS - 1) : word(fs, start + k \div BLOCK_BITS, k % BLOCK_BITS) = 1}

\* The bitmaps say exactly what is in use: a data block belongs to one file,
\* once, or is free, and the inodes in use are the root and those that have
\* a name.
BitmapsExact ==
    LET blocks == [i \in Inodes |-> BlocksOf(disk_inode(fs, easy_fs, i))]
    IN  /\ \A i \in Inodes : IsInjective(blocks[i])
        /\ \A i, j \in Inodes : i # j => Range(blocks[i]) \cap Range(blocks[j]) = {}
        /\ {b - easy_fs.data_area_start : b \in UNION {Range(blocks[i]) : i \in Inodes}} =
               SetBits(easy_fs.data_bitmap_start, easy_fs.data_bitmap_blocks)
        /\ Inodes = SetBits(1, easy_fs.inode_bitmap_blocks)
        /\ \A j, k \in DOMAIN Entries : j # k => Entries[j].name # Entries[k].name /\ Entries[j].inode # Entries[k].inode

\* Between calls the cache has every block at most once, holds no lock, and
\* differs from the disk in nothing: what a call has changed is durable when
\* it returns.
CacheExact ==
    /\ Len(fs.queue) <= BLOCK_CACHE_SIZE /\ IsInjective(fs.queue) /\ Range(fs.queue) = DOMAIN fs.cache
    /\ fs.held = {}
    /\ fs.kernel = "running" => \A b \in DOMAIN fs.cache : fs.cache[b] = fs.disk[b]


NameOf(id) == (CHOOSE e \in Range(Entries) : e.inode = id).name

\* The contents of the files with the name n: one, or none.
ContentsOf(n) ==
    {inode_read_at(fs, easy_fs, e.inode, 0, disk_inode(fs, easy_fs, e.inode).size) : e \in {x \in Range(Entries) : x.name = n}}

\* The store as the calls see it.
Seen ==
    [files |-> [n \in Names |-> CHOOSE c \in ContentsOf(n) \cup {NoFile} : c = NoFile => ContentsOf(n) = {}],
     listing |-> [k \in DOMAIN Entries |-> Entries[k].name],
     handles |-> [h \in Handles |-> IF handles[h] = NoHandle THEN NoHandle
                                    ELSE [file |-> NameOf(handles[h].inode), offset |-> handles[h].offset,
                                          readable |-> handles[h].readable, writable |-> handles[h].writable]],
     returned |-> returned]

Promise == INSTANCE FileStore WITH state <- Seen

\* Blocks, index blocks, bitmaps, directory entries and cache together behave
\* as named sequences of words, over overwriting, gaps, truncation of a file
\* that is open elsewhere, reuse of blocks, and restarts.
ImplementsFileStore == Promise!Spec
=============================================================================
