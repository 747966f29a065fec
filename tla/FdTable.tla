------------------------------- MODULE FdTable --------------------------------
(***************************************************************************)
(* The fd_table of a process (os/src/task/process.rs) as operators on its  *)
(* value, a sequence of files in which None marks a closed descriptor; the *)
(* first descriptor is 0.                                                  *)
(***************************************************************************)
EXTENDS Integers, Sequences

None == <<"None">>

is_open(t, fd) == fd \in 0 .. (Len(t) - 1) /\ t[fd + 1] # None
file_of(t, fd) == IF is_open(t, fd) THEN t[fd + 1] ELSE None


\* alloc_fd: the lowest closed descriptor, or a new one.
alloc_fd(t) ==
    LET closed == {fd \in 0 .. (Len(t) - 1) : t[fd + 1] = None} \cup {Len(t)}
    IN  CHOOSE fd \in closed : \A other \in closed : fd <= other

\* alloc_fd, and the file is stored there.
with_fd(t, file) ==
    IF alloc_fd(t) = Len(t) THEN Append(t, file) ELSE [t EXCEPT ![alloc_fd(t) + 1] = file]

\* sys_close: the table after it; a descriptor that is not open changes nothing.
without_fd(t, fd) == IF is_open(t, fd) THEN [t EXCEPT ![fd + 1] = None] ELSE t
=============================================================================
