---------------------------- MODULE PrivateMemory -----------------------------
(***************************************************************************)
(* What address spaces promise to user programs: every process has memory  *)
(* of its own, fork copies it, exec replaces it by the program's image and *)
(* a fresh stack, and nothing else that happens in the system changes it.  *)
(***************************************************************************)
EXTENDS Integers

CONSTANTS
    Procs,
    Words,          \* what programs and the kernel store, 0 excepted
    Initial,        \* the memories of the programs that are started
    Stacks,         \* the sets of addresses that are stacks of threads
    Lens            \* how many words a call stores

VARIABLE view       \* view[p]: the words of p by address; <<>> without p

(* How the memory of one process may change, from m to n. *)

Exec(m, n) == m # <<>> /\ n \in Initial

\* A store, or a system call that fills a buffer.
Store(m, n) ==
    /\ m # <<>> /\ DOMAIN n = DOMAIN m
    /\ \E va \in DOMAIN m, len \in Lens \cup {1}, x \in Words :
           /\ va .. (va + len - 1) \subseteq DOMAIN m
           /\ \A a \in DOMAIN m : n[a] = IF a \in va .. (va + len - 1) THEN x ELSE m[a]

\* A thread starts on a stack of zeros.
Grow(m, n) ==
    \E stack \in Stacks :
        /\ m # <<>> /\ stack \cap DOMAIN m = {}
        /\ n = [a \in DOMAIN m \cup stack |-> IF a \in stack THEN 0 ELSE m[a]]

\* A thread ends, and its stack with it.
Shrink(m, n) ==
    \E stack \in Stacks : stack \subseteq DOMAIN m /\ n = [a \in DOMAIN m \ stack |-> m[a]]

Exit(m, n) == m # <<>> /\ n = <<>>

Changes(m, n) == Exec(m, n) \/ Store(m, n) \/ Grow(m, n) \/ Shrink(m, n) \/ Exit(m, n)

\* One process changes its memory, or forks another that has the same.
Step(was, now) ==
    \E p \in Procs :
        /\ \A q \in Procs \ {p} : now[q] = was[q]
        /\ \/ Changes(was[p], now[p])
           \/ was[p] = <<>> /\ \E q \in Procs : now[p] = was[q]

Init == \E p \in Procs, m \in Initial : view = [q \in Procs |-> IF q = p THEN m ELSE <<>>]

Next == Step(view, view')

Spec == Init /\ [][Next]_view
=============================================================================
