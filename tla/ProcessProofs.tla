---------------------------- MODULE ProcessProofs ----------------------------
(***************************************************************************)
(* For any number of processes, pids and PID2PCB stay exact, the lists of  *)
(* children stay a tree with INITPROC to adopt orphans, and the assertions *)
(* of waitpid, of the pid allocator and of exit never fail.                *)
(***************************************************************************)
EXTENDS Process, DataStructureProofs, FiniteSetTheorems

\* Where processes are: the processor and the ready queue hold only processes
\* that exist and have not ended, each once; INITPROC never ends; only zombies
\* are freed.
Placement ==
    /\ INITPROC \in LiveProcs
    /\ \A t \in freed : t \in Born /\ is_zombie[t]
    /\ \A t \in Threads : is_zombie[t] => t \in Born
    /\ IsInjective(ready_queue)
    /\ Range(ready_queue) \subseteq LiveProcs
    /\ current \notin Range(ready_queue)
    /\ current # NoThread => current \in LiveProcs

\* The inductive invariant.
ProcInv ==
    /\ TypeOK
    /\ AllocatorOK(pid_allocator)
    /\ kernel \in {"running", "already borrowed"}
    /\ Placement
    /\ PidsExact
    /\ OneParent

----------------------------------------------------------------------------

\* A process that runs exists, has not ended and is in PID2PCB.
LEMMA CurrentLives ==
    ASSUME ProcInv, NEW t \in Threads, current = t
    PROVE  /\ t \in LiveProcs /\ t \in Born
           /\ t \notin Range(ready_queue)
           /\ pid[t] \in DOMAIN pid2process
<1>1. t # NoThread
  BY NoThreadAssumption
<1>2. t \in LiveProcs /\ t \notin Range(ready_queue)
  BY <1>1 DEF ProcInv, Placement
<1>3. QED
  BY <1>2 DEF ProcInv, PidsExact, LiveProcs, Existing

\* A step that changes neither which processes exist nor their ids and
\* relations keeps everything said about them.
LEMMA SameProcesses ==
    ASSUME ProcInv, Born' = Born,
           UNCHANGED <<pid_allocator, pid, pid2process, parent, children, is_zombie, freed>>
    PROVE  /\ LiveProcs' = LiveProcs
           /\ AllocatorOK(pid_allocator)'
           /\ PidsExact'
           /\ OneParent'
           /\ (INITPROC \in LiveProcs)'
           /\ (\A t \in freed : t \in Born /\ is_zombie[t])'
           /\ (\A t \in Threads : is_zombie[t] => t \in Born)'
<1>1. Existing' = Existing
  BY DEF Existing
<1>2. LiveProcs' = LiveProcs
  BY <1>1 DEF LiveProcs
<1>3. AllocatorOK(pid_allocator)'
  BY DEF ProcInv
<1>4. PidsExact'
  <2>1. PidsExact
    BY DEF ProcInv
  <2>2. (InUse(pid_allocator) = {pid[t] : t \in Existing})'
    BY <1>1, <2>1 DEF PidsExact
  <2>3. (DOMAIN pid2process = {pid[t] : t \in LiveProcs})'
    BY <1>2, <2>1 DEF PidsExact
  <2>4. /\ (\A t, u \in Existing : pid[t] = pid[u] => t = u)'
        /\ (\A t \in LiveProcs : pid2process[pid[t]] = t)'
    BY <1>1, <1>2, <2>1 DEF PidsExact
  <2>5. QED
    BY <2>2, <2>3, <2>4 DEF PidsExact
<1>5. OneParent'
  BY <1>1, <1>2 DEF ProcInv, OneParent
<1>6. QED
  BY <1>2, <1>3, <1>4, <1>5 DEF ProcInv, Placement

\* The idle loop takes a process from the queue to the processor.
LEMMA IdleKeeps ==
    ASSUME ProcInv, idle PROVE ProcInv'
<1> DEFINE h == Head(ready_queue)
<1>1. /\ current = NoThread /\ ready_queue # <<>>
      /\ current' = h /\ ready_queue' = Tail(ready_queue)
      /\ task_status' = [task_status EXCEPT ![h] = "Running"]
      /\ UNCHANGED <<procVars, cont, kernel>>
  BY DEF idle, run_tasks
<1>2. TypeOK /\ Placement
  BY DEF ProcInv
<1>3. ready_queue \in Seq(Threads) /\ IsInjective(ready_queue) /\ Range(ready_queue) \subseteq LiveProcs
  BY <1>2 DEF TypeOK, SchedTypeOK, Placement
<1>4. /\ h \in Range(ready_queue)
      /\ Tail(ready_queue) \in Seq(Threads)
      /\ Range(Tail(ready_queue)) = Range(ready_queue) \ {h}
      /\ IsInjective(Tail(ready_queue))
  BY <1>1, <1>3, RangeTail
<1> HIDE DEF h
<1>5. h \in LiveProcs /\ h \in Born /\ h \in Threads
  BY <1>3, <1>4 DEF LiveProcs, Existing, Born
<1>6. TypeOK'
  BY <1>1, <1>2, <1>4, <1>5 DEF TypeOK, SchedTypeOK, procVars
<1>7. Born' = Born
  BY <1>1, <1>2, <1>5 DEF Born, TypeOK, SchedTypeOK
<1>8. UNCHANGED <<pid_allocator, pid, pid2process, parent, children, is_zombie, freed>>
  BY <1>1 DEF procVars
<1>9. /\ LiveProcs' = LiveProcs
      /\ AllocatorOK(pid_allocator)' /\ PidsExact' /\ OneParent'
      /\ (INITPROC \in LiveProcs)'
      /\ (\A t \in freed : t \in Born /\ is_zombie[t])'
      /\ (\A t \in Threads : is_zombie[t] => t \in Born)'
  BY <1>7, <1>8, SameProcesses
<1>10. Placement'
  BY <1>1, <1>3, <1>4, <1>5, <1>9 DEF Placement
<1>11. QED
  BY <1>1, <1>6, <1>9, <1>10 DEF ProcInv

\* A process that yields goes to the back of the queue.
LEMMA YieldKeeps ==
    ASSUME ProcInv, NEW t \in Threads, yields(t) PROVE ProcInv'
<1>1. /\ current = t
      /\ current' = NoThread /\ ready_queue' = Append(ready_queue, t)
      /\ task_status' = [task_status EXCEPT ![t] = "Ready"]
      /\ cont' = [cont EXCEPT ![t] = "trap"]
      /\ UNCHANGED <<procVars, kernel>>
  BY DEF yields, User, suspend_current_and_run_next, add_task, ToTrapEnd
<1>2. TypeOK /\ Placement
  BY DEF ProcInv
<1>3. ready_queue \in Seq(Threads) /\ IsInjective(ready_queue) /\ Range(ready_queue) \subseteq LiveProcs
  BY <1>2 DEF TypeOK, SchedTypeOK, Placement
<1>4. t \in LiveProcs /\ t \in Born /\ t \notin Range(ready_queue)
  BY <1>1, CurrentLives
<1>5. /\ ready_queue' \in Seq(Threads)
      /\ Range(ready_queue') = Range(ready_queue) \cup {t}
      /\ IsInjective(ready_queue')
  BY <1>1, <1>3, <1>4, RangeAppend
<1>6. TypeOK'
  BY <1>1, <1>2, <1>5 DEF TypeOK, SchedTypeOK, procVars
<1>7. Born' = Born
  BY <1>1, <1>2, <1>4 DEF Born, TypeOK, SchedTypeOK
<1>8. UNCHANGED <<pid_allocator, pid, pid2process, parent, children, is_zombie, freed>>
  BY <1>1 DEF procVars
<1>9. /\ LiveProcs' = LiveProcs
      /\ AllocatorOK(pid_allocator)' /\ PidsExact' /\ OneParent'
      /\ (INITPROC \in LiveProcs)'
      /\ (\A x \in freed : x \in Born /\ is_zombie[x])'
      /\ (\A x \in Threads : is_zombie[x] => x \in Born)'
  BY <1>7, <1>8, SameProcesses
<1>10. NoThread \notin Range(ready_queue')
  BY <1>5, RangeType, NoThreadAssumption
<1>11. Placement'
  BY <1>1, <1>3, <1>4, <1>5, <1>9, <1>10 DEF Placement
<1>12. QED
  BY <1>1, <1>6, <1>9, <1>11 DEF ProcInv

\* What leaves the processor, the queue and the relations of the processes
\* alone keeps the invariant: a trap without effect on them, a signal sent, a
\* panic of exit in INITPROC.
LEMMA StaysInPlace ==
    ASSUME ProcInv, TypeOK', kernel' \in {"running", "already borrowed"},
           UNCHANGED <<schedVars, pid_allocator, pid, pid2process, parent, children, is_zombie, freed>>
    PROVE  ProcInv'
<1>1. UNCHANGED <<current, ready_queue, task_status>>
  BY DEF schedVars
<1>2. Born' = Born
  BY <1>1 DEF Born
<1>3. UNCHANGED <<pid_allocator, pid, pid2process, parent, children, is_zombie, freed>>
  OBVIOUS
<1>4. /\ LiveProcs' = LiveProcs
      /\ AllocatorOK(pid_allocator)' /\ PidsExact' /\ OneParent'
      /\ (INITPROC \in LiveProcs)'
      /\ (\A x \in freed : x \in Born /\ is_zombie[x])'
      /\ (\A x \in Threads : is_zombie[x] => x \in Born)'
  BY <1>2, <1>3, SameProcesses
<1>5. Placement'
  BY <1>1, <1>4 DEF Placement, ProcInv
<1>6. QED
  BY <1>4, <1>5 DEF ProcInv

\* sys_kill, a fault and a waitpid that finds nothing.
LEMMA SignalKeeps ==
    ASSUME ProcInv, NEW t \in Threads,
           \/ fault(t)
           \/ \E p \in Pids, sig \in Signals : sys_kill(t, p, sig)
           \/ \E p \in Pids \cup {AnyChild} : waitpid_none(t, p)
    PROVE  ProcInv'
<1>1. TypeOK /\ kernel \in {"running", "already borrowed"}
  BY DEF ProcInv
<1>2. CASE fault(t)
  <2>1. /\ signals' = [signals EXCEPT ![t] = @ \cup {SIGSEGV}]
        /\ cont' = [cont EXCEPT ![t] = "trap"]
        /\ UNCHANGED <<schedVars, pid_allocator, pid, pid2process, parent, children, is_zombie, exit_code, freed, kernel>>
    BY <1>2 DEF fault, add_signal, ToTrapEnd
  <2>2. TypeOK'
    BY <1>1, <2>1 DEF TypeOK, SchedTypeOK, schedVars
  <2>3. QED
    BY <1>1, <2>1, <2>2, StaysInPlace
<1>3. ASSUME NEW p \in Pids, NEW sig \in Signals, sys_kill(t, p, sig) PROVE ProcInv'
  <2>1. /\ IF p \in DOMAIN pid2process
           THEN signals' = [signals EXCEPT ![pid2process[p]] = @ \cup {sig}]
           ELSE signals' = signals
        /\ cont' = [cont EXCEPT ![t] = "trap"]
        /\ UNCHANGED <<schedVars, pid_allocator, pid, pid2process, parent, children, is_zombie, exit_code, freed, kernel>>
    BY <1>3 DEF sys_kill, add_signal, ToTrapEnd
  <2>2. signals' \in [Threads -> SUBSET (Signals \cup {SIGSEGV})]
    <3>1. signals \in [Threads -> SUBSET (Signals \cup {SIGSEGV})] /\ Range(pid2process) \subseteq Threads
      BY <1>1 DEF TypeOK
    <3>2. p \in DOMAIN pid2process => pid2process[p] \in Threads
      BY <3>1 DEF Range
    <3>3. QED
      BY <2>1, <3>1, <3>2
  <2>3. TypeOK'
    BY <1>1, <2>1, <2>2 DEF TypeOK, SchedTypeOK, schedVars
  <2>4. QED
    BY <1>1, <2>1, <2>3, StaysInPlace
<1>4. ASSUME NEW p \in Pids \cup {AnyChild}, waitpid_none(t, p) PROVE ProcInv'
  <2>1. cont' = [cont EXCEPT ![t] = "trap"] /\ UNCHANGED <<schedVars, procVars, kernel>>
    BY <1>4 DEF waitpid_none, ToTrapEnd
  <2>2. TypeOK'
    BY <1>1, <2>1 DEF TypeOK, SchedTypeOK, schedVars, procVars
  <2>3. QED
    BY <1>1, <2>1, <2>2, StaysInPlace DEF procVars
<1>5. QED
  BY <1>2, <1>3, <1>4

\* fork adds one process, with a fresh pid, to the children of the caller.
LEMMA ForkKeeps ==
    ASSUME ProcInv, NEW t \in Threads, NEW u \in Threads, sys_fork(t, u) PROVE ProcInv'
<1> DEFINE p == alloc_id(pid_allocator)
<1>1. /\ current = t
      /\ task_status[u] = "None"
      /\ pid_allocator' = alloc(pid_allocator)
      /\ pid' = [pid EXCEPT ![u] = p]
      /\ parent' = [parent EXCEPT ![u] = t]
      /\ children' = [children EXCEPT ![t] = Append(@, u)]
      /\ pid2process' = [i \in DOMAIN pid2process \cup {p} |-> IF i = p THEN u ELSE pid2process[i]]
      /\ ready_queue' = Append(ready_queue, u)
      /\ task_status' = [task_status EXCEPT ![u] = "Ready"]
      /\ cont' = [cont EXCEPT ![t] = "trap"]
      /\ UNCHANGED <<current, is_zombie, exit_code, signals, freed, kernel>>
  BY DEF sys_fork, User, fork, spawn, add_task, ToTrapEnd
<1>2. TypeOK /\ AllocatorOK(pid_allocator) /\ Placement /\ PidsExact /\ OneParent
  BY DEF ProcInv
<1>3. /\ p \in Nat \ InUse(pid_allocator)
      /\ AllocatorOK(pid_allocator')
      /\ InUse(pid_allocator') = InUse(pid_allocator) \cup {p}
  BY <1>1, <1>2, AllocFresh
<1> HIDE DEF p
<1>4. t \in LiveProcs /\ t \in Born /\ t \in Existing
  BY <1>1, CurrentLives DEF LiveProcs
<1>5. /\ u \notin Born /\ u \notin Existing /\ u \notin LiveProcs
      /\ u \notin freed /\ ~is_zombie[u] /\ u # t /\ u # INITPROC
  BY <1>1, <1>2, <1>4 DEF Born, Existing, LiveProcs, Placement
<1>6. Born' = Born \cup {u}
  BY <1>1, <1>2 DEF Born, TypeOK, SchedTypeOK
<1>7. Existing' = Existing \cup {u}
  BY <1>1, <1>5, <1>6 DEF Existing
<1>8. LiveProcs' = LiveProcs \cup {u}
  BY <1>1, <1>5, <1>7 DEF LiveProcs
<1>9. /\ ready_queue \in Seq(Threads) /\ IsInjective(ready_queue)
      /\ Range(ready_queue) \subseteq LiveProcs /\ children[t] \in Seq(Threads)
  BY <1>2 DEF TypeOK, SchedTypeOK, Placement
<1>10. /\ ready_queue' \in Seq(Threads)
       /\ Range(ready_queue') = Range(ready_queue) \cup {u}
       /\ IsInjective(ready_queue')
  BY <1>1, <1>5, <1>9, RangeAppend
<1>11. \A x \in Threads : u \notin Range(children[x]) /\ IsInjective(children[x])
  BY <1>2, <1>5 DEF OneParent
<1>12. /\ Append(children[t], u) \in Seq(Threads)
       /\ Range(Append(children[t], u)) = Range(children[t]) \cup {u}
       /\ IsInjective(Append(children[t], u))
  BY <1>9, <1>11, RangeAppend
<1>13. \A x \in Threads : children'[x] = IF x = t THEN Append(children[t], u) ELSE children[x]
  BY <1>1, <1>2 DEF TypeOK
<1>14. \A x \in Threads : pid'[x] = IF x = u THEN p ELSE pid[x]
  BY <1>1, <1>2 DEF TypeOK
<1>15. \A x \in Threads : parent'[x] = IF x = u THEN t ELSE parent[x]
  BY <1>1, <1>2 DEF TypeOK
<1>16. TypeOK'
  <2>1. DOMAIN pid2process' \subseteq Nat /\ Range(pid2process') \subseteq Threads
    BY <1>1, <1>2, <1>3 DEF TypeOK, Range
  <2>2. SchedTypeOK'
    BY <1>1, <1>2, <1>10 DEF TypeOK, SchedTypeOK
  <2>3. pid_allocator' \in [current : Nat, recycled : Seq(Nat)]
    BY <1>3 DEF AllocatorOK
  <2>4. pid' \in [Threads -> Nat \cup {NoPid}] /\ parent' \in [Threads -> Threads \cup {NoThread}]
    BY <1>1, <1>2, <1>3 DEF TypeOK
  <2>5. children' \in [Threads -> Seq(Threads)]
    BY <1>1, <1>2, <1>12 DEF TypeOK
  <2>6. cont' \in [Threads -> {"user", "trap"}]
    BY <1>1, <1>2 DEF TypeOK
  <2>7. QED
    BY <1>1, <1>2, <2>1, <2>2, <2>3, <2>4, <2>5, <2>6 DEF TypeOK
<1>17. PidsExact'
  <2>1. \A x \in Existing : x # u /\ x \in Threads /\ pid'[x] = pid[x] /\ pid[x] \in InUse(pid_allocator) /\ pid[x] # p
    BY <1>2, <1>3, <1>5, <1>14 DEF PidsExact, Existing, Born
  <2>2. pid'[u] = p
    BY <1>14
  <2>3. InUse(pid_allocator') = {pid'[x] : x \in Existing'}
    BY <1>2, <1>3, <1>7, <2>1, <2>2 DEF PidsExact
  <2>4. \A x, y \in Existing' : pid'[x] = pid'[y] => x = y
    BY <1>2, <1>7, <2>1, <2>2 DEF PidsExact
  <2>5. LiveProcs \subseteq Existing
    BY DEF LiveProcs
  <2>6. DOMAIN pid2process' = {pid'[x] : x \in LiveProcs'}
    <3>1. DOMAIN pid2process' = DOMAIN pid2process \cup {p}
      BY <1>1
    <3>2. QED
      BY <1>2, <1>8, <2>1, <2>2, <2>5, <3>1 DEF PidsExact
  <2>7. \A x \in LiveProcs' : pid2process'[pid'[x]] = x
    <3>1. pid2process'[p] = u
      BY <1>1
    <3>2. ASSUME NEW x \in LiveProcs PROVE pid2process'[pid'[x]] = x
      <4>1. pid[x] \in DOMAIN pid2process /\ pid2process[pid[x]] = x /\ pid[x] # p /\ pid'[x] = pid[x]
        BY <1>2, <2>1, <2>5 DEF PidsExact
      <4>2. QED
        BY <1>1, <4>1
    <3>3. QED
      BY <1>8, <2>2, <3>1, <3>2
  <2>8. QED
    BY <2>3, <2>4, <2>6, <2>7 DEF PidsExact
<1>18. OneParent'
  <2>1. \A x \in Threads : IsInjective(children'[x])
    BY <1>11, <1>12, <1>13
  <2>2. \A x, y \in Threads : y \in Range(children'[x]) <=> y \in Existing' \ {INITPROC} /\ parent'[y] = x
    <3> SUFFICES ASSUME NEW x \in Threads, NEW y \in Threads
                 PROVE  y \in Range(children'[x]) <=> y \in Existing' \ {INITPROC} /\ parent'[y] = x
      OBVIOUS
    <3>1. y \in Range(children[x]) <=> y \in Existing \ {INITPROC} /\ parent[y] = x
      BY <1>2 DEF OneParent
    <3>2. y \in Range(children'[x]) <=> y \in Range(children[x]) \/ (x = t /\ y = u)
      BY <1>12, <1>13
    <3>3. QED
      BY <1>5, <1>7, <1>15, <3>1, <3>2
  <2>3. \A y \in Existing' \ {INITPROC} : parent'[y] \in LiveProcs'
    BY <1>2, <1>4, <1>7, <1>8, <1>15 DEF OneParent, Existing, Born
  <2>4. QED
    BY <2>1, <2>2, <2>3 DEF OneParent
<1>19. Placement'
  BY <1>1, <1>2, <1>5, <1>6, <1>8, <1>10, <1>4 DEF Placement
<1>20. QED
  BY <1>1, <1>3, <1>16, <1>17, <1>18, <1>19 DEF ProcInv

\* exit finds the process in PID2PCB, takes it out of there, makes it a zombie
\* and hands its children to INITPROC.
LEMMA ExitKeeps ==
    ASSUME ProcInv, NEW t \in Threads, current = t, kernel = "running",
           NEW code \in Int, exit_current_and_run_next(t, code)
    PROVE  ProcInv'
<1>1. TypeOK /\ AllocatorOK(pid_allocator) /\ Placement /\ PidsExact /\ OneParent
  BY DEF ProcInv
<1>2. t \in LiveProcs /\ t \in Born /\ t \notin Range(ready_queue) /\ pid[t] \in DOMAIN pid2process
  BY CurrentLives
<1>3. CASE t = INITPROC
  <2>1. kernel' = "already borrowed" /\ UNCHANGED <<schedVars, procVars, cont>>
    BY <1>2, <1>3 DEF exit_current_and_run_next, panic
  <2>2. TypeOK'
    BY <1>1, <2>1 DEF TypeOK, SchedTypeOK, schedVars, procVars, Panics
  <2>3. QED
    BY <2>1, <2>2, StaysInPlace DEF procVars
<1>4. CASE t # INITPROC
  <2>1. /\ pid2process' = [i \in DOMAIN pid2process \ {pid[t]} |-> pid2process[i]]
        /\ is_zombie' = [is_zombie EXCEPT ![t] = TRUE]
        /\ exit_code' = [exit_code EXCEPT ![t] = code]
        /\ parent' = [u \in Threads |-> IF u \in Range(children[t]) THEN INITPROC ELSE parent[u]]
        /\ children' = [children EXCEPT ![INITPROC] = @ \o children[t], ![t] = <<>>]
        /\ current' = NoThread
        /\ UNCHANGED <<ready_queue, task_status, pid_allocator, pid, signals, freed, cont, kernel>>
    BY <1>2, <1>4 DEF exit_current_and_run_next, remove_from_pid2process, adopt_parent,
                      adopt_children, exit_leaves_processor
  <2>2. INITPROC \in Threads /\ INITPROC \in LiveProcs
    BY <1>1, ProcessAssumption DEF Placement
  <2>3. Born' = Born /\ Existing' = Existing
    BY <2>1 DEF Born, Existing
  <2>4. \A x \in Threads : is_zombie'[x] <=> x = t \/ is_zombie[x]
    BY <1>1, <2>1 DEF TypeOK
  <2>5. LiveProcs' = LiveProcs \ {t} /\ LiveProcs \subseteq Existing /\ Existing \subseteq Threads
    BY <2>3, <2>4 DEF LiveProcs, Existing, Born
  <2>6. \A x \in Threads : children[x] \in Seq(Threads) /\ IsInjective(children[x])
    BY <1>1 DEF TypeOK, OneParent
  <2>7. /\ children[INITPROC] \o children[t] \in Seq(Threads)
        /\ Range(children[INITPROC] \o children[t]) = Range(children[INITPROC]) \cup Range(children[t])
        /\ IsInjective(children[INITPROC] \o children[t])
    <3>1. Range(children[INITPROC]) \cap Range(children[t]) = {}
      <4>1. Range(children[t]) \subseteq Threads
        BY <2>6, RangeType
      <4>2. QED
        BY <1>1, <1>4, <2>2, <4>1 DEF OneParent
    <3>2. QED
      BY <2>2, <2>6, <3>1, RangeConcat
  <2>8. \A x \in Threads : children'[x] = IF x = t THEN <<>>
                                          ELSE IF x = INITPROC THEN children[INITPROC] \o children[t]
                                          ELSE children[x]
    BY <1>1, <1>4, <2>1, <2>2 DEF TypeOK
  <2>9. TypeOK'
    <3>1. DOMAIN pid2process' \subseteq Nat /\ Range(pid2process') \subseteq Threads
      BY <1>1, <2>1 DEF TypeOK, Range
    <3>2. SchedTypeOK'
      BY <1>1, <2>1 DEF TypeOK, SchedTypeOK
    <3>3. children' \in [Threads -> Seq(Threads)]
      <4>1. <<>> \in Seq(Threads)
        OBVIOUS
      <4>2. \A x \in Threads : children'[x] \in Seq(Threads)
        BY <2>6, <2>7, <2>8, <4>1
      <4>3. children' = [x \in Threads |-> children'[x]]
        BY <1>1, <2>1 DEF TypeOK
      <4>4. QED
        BY <4>2, <4>3
    <3>4. parent' \in [Threads -> Threads \cup {NoThread}]
      BY <1>1, <2>1, <2>2 DEF TypeOK
    <3>5. is_zombie' \in [Threads -> BOOLEAN] /\ exit_code' \in [Threads -> Int]
      BY <1>1, <2>1 DEF TypeOK
    <3>6. QED
      BY <1>1, <2>1, <3>1, <3>2, <3>3, <3>4, <3>5 DEF TypeOK
  <2>10. PidsExact'
    <3>1. \A x, y \in Existing : pid[x] = pid[y] => x = y
      BY <1>1 DEF PidsExact
    <3>2. InUse(pid_allocator') = {pid'[x] : x \in Existing'}
      BY <1>1, <2>1, <2>3 DEF PidsExact
    <3>3. DOMAIN pid2process' = DOMAIN pid2process \ {pid[t]}
      BY <2>1
    <3>4. DOMAIN pid2process' = {pid'[x] : x \in LiveProcs'}
      BY <1>1, <1>2, <2>1, <2>5, <3>1, <3>3 DEF PidsExact
    <3>5. ASSUME NEW x \in LiveProcs' PROVE pid2process'[pid'[x]] = x
      <4>1. x \in LiveProcs /\ pid[x] # pid[t] /\ pid[x] \in DOMAIN pid2process /\ pid2process[pid[x]] = x
        BY <1>1, <1>2, <2>5, <3>1 DEF PidsExact
      <4>2. QED
        BY <2>1, <4>1
    <3>6. QED
      BY <2>1, <2>3, <3>1, <3>2, <3>4, <3>5 DEF PidsExact
  <2>11. OneParent'
    <3>1. \A x \in Threads : IsInjective(children'[x])
      BY <2>6, <2>7, <2>8, RangeEmpty
    <3>2. ASSUME NEW x \in Threads, NEW y \in Threads
          PROVE  y \in Range(children'[x]) <=> y \in Existing' \ {INITPROC} /\ parent'[y] = x
      <4>1. \A z \in Threads : y \in Range(children[z]) <=> y \in Existing \ {INITPROC} /\ parent[y] = z
        BY <1>1 DEF OneParent
      <4>2. parent'[y] = IF y \in Range(children[t]) THEN INITPROC ELSE parent[y]
        BY <2>1
      <4>3. CASE x = t
        <5>1. y \notin Range(children'[x])
          BY <2>8, <4>3, RangeEmpty
        <5>2. QED
          BY <1>4, <2>3, <4>1, <4>2, <4>3, <5>1
      <4>4. CASE x = INITPROC
        <5>1. y \in Range(children'[x]) <=> y \in Range(children[INITPROC]) \/ y \in Range(children[t])
          BY <1>4, <2>7, <2>8, <4>4
        <5>2. QED
          BY <2>2, <2>3, <4>1, <4>2, <4>4, <5>1
      <4>5. CASE x # t /\ x # INITPROC
        <5>1. children'[x] = children[x]
          BY <2>8, <4>5
        <5>2. QED
          BY <2>3, <4>1, <4>2, <4>5, <5>1
      <4>6. QED
        BY <4>3, <4>4, <4>5
    <3>3. ASSUME NEW y \in Existing' \ {INITPROC} PROVE parent'[y] \in LiveProcs'
      <4>1. y \in Threads /\ y \in Existing /\ parent[y] \in LiveProcs
        BY <1>1, <2>3, <2>5 DEF OneParent
      <4>2. y \notin Range(children[t]) => parent[y] # t
        BY <1>1, <4>1 DEF OneParent
      <4>3. QED
        BY <1>4, <2>1, <2>2, <2>5, <4>1, <4>2
    <3>4. QED
      BY <3>1, <3>2, <3>3 DEF OneParent
  <2>12. Placement'
    <3>1. NoThread \notin Range(ready_queue)
      BY <1>1, <2>5, NoThreadAssumption DEF Placement
    <3>2. \A x \in freed : x \in Threads
      BY <1>1 DEF TypeOK
    <3>3. QED
      BY <1>1, <1>2, <1>4, <2>1, <2>3, <2>4, <2>5, <3>1, <3>2 DEF Placement
  <2>13. QED
    BY <1>1, <2>1, <2>9, <2>10, <2>11, <2>12 DEF ProcInv
<1>5. QED
  BY <1>3, <1>4

\* The end of a trap: exit with the smallest signal, or back to the user.
LEMMA TrapEndKeeps ==
    ASSUME ProcInv, NEW t \in Threads, trap_end(t) PROVE ProcInv'
<1>1. TypeOK /\ kernel = "running" /\ current = t
  BY DEF ProcInv, trap_end
<1>2. CASE signals[t] # {}
  <2>1. signals[t] \in SUBSET Nat
    BY <1>1, ProcessAssumption DEF TypeOK
  <2>2. \E s \in signals[t] : \A r \in signals[t] : s <= r
    BY <1>2, <2>1, LeastNat
  <2> DEFINE s == CHOOSE s \in signals[t] : \A r \in signals[t] : s <= r
  <2>3. s \in signals[t]
    BY <2>2, Zenon
  <2>4. check_error(t) = -s
    BY Zenon DEF check_error
  <2> HIDE DEF s
  <2>5. check_error(t) \in Int
    BY <2>1, <2>3, <2>4
  <2>6. exit_current_and_run_next(t, check_error(t))
    BY <1>2 DEF trap_end
  <2>7. QED
    BY <1>1, <2>5, <2>6, ExitKeeps
<1>3. CASE signals[t] = {}
  <2>1. cont' = [cont EXCEPT ![t] = "user"] /\ UNCHANGED <<schedVars, procVars, kernel>>
    BY <1>3 DEF trap_end
  <2>2. TypeOK'
    BY <1>1, <2>1 DEF TypeOK, SchedTypeOK, schedVars, procVars
  <2>3. QED
    BY <1>1, <2>1, <2>2, StaysInPlace DEF procVars
<1>4. QED
  BY <1>2, <1>3

\* A zombie child that waitpid has found is referred to by nobody else.
LEMMA OnlyReference ==
    ASSUME ProcInv, NEW t \in Threads, NEW idx \in DOMAIN children[t], is_zombie[children[t][idx]]
    PROVE  strong_count(children[t][idx], t, idx) = 1
<1> DEFINE u == children[t][idx]
           lists == {r \in Threads \X (1 .. Cardinality(Threads)) :
                        /\ r[2] \in DOMAIN children[r[1]]
                        /\ children[r[1]][r[2]] = u
                        /\ r # <<t, idx>>}
           table == {i \in DOMAIN pid2process : pid2process[i] = u}
<1>1. TypeOK /\ PidsExact /\ OneParent
  BY DEF ProcInv
<1>2. u \in Range(children[t])
  BY DEF Range
<1>3. lists = {}
  <2> SUFFICES ASSUME NEW x \in Threads, NEW i \in DOMAIN children[x], children[x][i] = u
               PROVE  x = t /\ i = idx
    OBVIOUS
  <2>1. u \in Range(children[x])
    BY DEF Range
  <2>2. u \in Threads
    BY <1>1, <1>2, RangeType DEF TypeOK
  <2>3. x = t
    <3>1. \A y \in Threads : u \in Range(children[y]) => parent[u] = y
      BY <1>1, <2>2, Zenon DEF OneParent
    <3>2. QED
      BY <1>2, <2>1, <3>1
  <2>4. IsInjective(children[t])
    BY <1>1 DEF OneParent
  <2>5. QED
    BY <2>3, <2>4 DEF IsInjective
<1>4. table = {}
  <2> SUFFICES ASSUME NEW i \in DOMAIN pid2process, pid2process[i] = u PROVE FALSE
    OBVIOUS
  <2>1. PICK x \in LiveProcs : i = pid[x]
    BY <1>1 DEF PidsExact
  <2>2. pid2process[i] = x
    BY <1>1, <2>1 DEF PidsExact
  <2>3. QED
    BY <2>2 DEF LiveProcs
<1>5. strong_count(u, t, idx) = 1 + Cardinality(lists) + Cardinality(table)
  BY Zenon DEF strong_count
<1>6. Cardinality({}) = 0
  BY FS_EmptySet
<1> HIDE DEF lists, table, u
<1>7. QED
  BY <1>3, <1>4, <1>5, <1>6 DEF u

\* waitpid reaps a zombie: its assertion holds, the pid allocator takes the pid
\* back, and the child leaves the list of its parent.
LEMMA ReapKeeps ==
    ASSUME ProcInv, NEW t \in Threads, NEW p, waitpid_reaps(t, p) PROVE ProcInv'
<1> DEFINE idx == CHOOSE i \in found(t, p) : \A j \in found(t, p) : i <= j
           u == children[t][idx]
<1>1. TypeOK /\ AllocatorOK(pid_allocator) /\ Placement /\ PidsExact /\ OneParent
  BY DEF ProcInv
<1>2. children[t] \in Seq(Threads) /\ IsInjective(children[t])
  BY <1>1 DEF TypeOK, OneParent
<1>3. idx \in found(t, p)
  <2>1. found(t, p) \in SUBSET Nat
    BY <1>2 DEF found
  <2>2. found(t, p) # {}
    BY DEF waitpid_reaps
  <2>3. \E i \in found(t, p) : \A j \in found(t, p) : i <= j
    BY <2>1, <2>2, LeastNat
  <2>4. QED
    BY <2>3, Zenon
<1>4. /\ kernel = "running" /\ current = t
      /\ IF strong_count(u, t, idx) # 1 THEN panic("strong_count")
         ELSE IF ~dealloc_asserts(pid_allocator, pid[u]) THEN panic("dealloc")
         ELSE /\ children' = reaped(t, idx)
              /\ pid_allocator' = dealloc(pid_allocator, pid[u])
              /\ freed' = freed \cup {u}
              /\ ToTrapEnd(t)
              /\ UNCHANGED <<schedVars, pid, pid2process, parent, is_zombie, exit_code, signals, kernel>>
  BY Zenon DEF waitpid_reaps, User
<1> HIDE DEF idx
<1>5. idx \in DOMAIN children[t] /\ is_zombie[u] /\ idx \in 1 .. Len(children[t])
  BY <1>2, <1>3 DEF found
<1>6. u \in Range(children[t]) /\ u \in Threads
  BY <1>2, <1>5, RangeType
<1>7. u \in Existing /\ u # INITPROC /\ u \notin LiveProcs /\ u \notin freed /\ u \in Born
  BY <1>1, <1>5, <1>6 DEF OneParent, LiveProcs, Existing
<1>8. strong_count(u, t, idx) = 1
  BY <1>5, OnlyReference
<1>9. pid[u] \in InUse(pid_allocator)
  BY <1>1, <1>7 DEF PidsExact
<1> HIDE DEF u
<1>10. /\ dealloc_asserts(pid_allocator, pid[u])
       /\ AllocatorOK(dealloc(pid_allocator, pid[u]))
       /\ InUse(dealloc(pid_allocator, pid[u])) = InUse(pid_allocator) \ {pid[u]}
  BY <1>1, <1>9, DeallocTakesBack
<1>11. /\ children' = [children EXCEPT ![t] = Without(@, idx)]
       /\ pid_allocator' = dealloc(pid_allocator, pid[u])
       /\ freed' = freed \cup {u}
       /\ cont' = [cont EXCEPT ![t] = "trap"]
       /\ UNCHANGED <<current, ready_queue, task_status, pid, pid2process, parent, is_zombie, exit_code, signals, kernel>>
  BY <1>4, <1>8, <1>10 DEF reaped, ToTrapEnd, schedVars
<1>12. /\ Without(children[t], idx) \in Seq(Threads)
       /\ Range(Without(children[t], idx)) = Range(children[t]) \ {u}
       /\ IsInjective(Without(children[t], idx))
  BY <1>2, <1>5, RangeRemove DEF Without, u
<1>13. \A x \in Threads : children'[x] = IF x = t THEN Without(children[t], idx) ELSE children[x]
  BY <1>1, <1>11 DEF TypeOK
<1>14. Born' = Born /\ Existing' = Existing \ {u} /\ LiveProcs' = LiveProcs
  <2>1. Born' = Born
    BY <1>11 DEF Born
  <2>2. Existing' = Existing \ {u}
    BY <1>11, <2>1 DEF Existing
  <2>3. QED
    BY <1>7, <1>11, <2>1, <2>2 DEF LiveProcs
<1>15. TypeOK'
  <2>1. SchedTypeOK'
    BY <1>1, <1>11 DEF TypeOK, SchedTypeOK
  <2>2. pid_allocator' \in [current : Nat, recycled : Seq(Nat)]
    BY <1>10, <1>11 DEF AllocatorOK
  <2>3. children' \in [Threads -> Seq(Threads)]
    BY <1>1, <1>11, <1>12 DEF TypeOK
  <2>4. freed' \subseteq Threads /\ cont' \in [Threads -> {"user", "trap"}]
    BY <1>1, <1>6, <1>11 DEF TypeOK
  <2>5. QED
    BY <1>1, <1>11, <2>1, <2>2, <2>3, <2>4 DEF TypeOK
<1>16. PidsExact'
  <2>1. \A x, y \in Existing : pid[x] = pid[y] => x = y
    BY <1>1 DEF PidsExact
  <2>2. InUse(pid_allocator') = {pid'[x] : x \in Existing'}
    <3>1. InUse(pid_allocator') = {pid[x] : x \in Existing} \ {pid[u]}
      BY <1>1, <1>10, <1>11 DEF PidsExact
    <3>2. {pid[x] : x \in Existing} \ {pid[u]} = {pid[x] : x \in Existing \ {u}}
      BY <1>7, <2>1
    <3>3. QED
      BY <1>11, <1>14, <3>1, <3>2
  <2>3. /\ DOMAIN pid2process' = {pid'[x] : x \in LiveProcs'}
        /\ \A x \in LiveProcs' : pid2process'[pid'[x]] = x
    BY <1>1, <1>11, <1>14 DEF PidsExact
  <2>4. \A x, y \in Existing' : pid'[x] = pid'[y] => x = y
    BY <1>11, <1>14, <2>1
  <2>5. QED
    BY <2>2, <2>3, <2>4 DEF PidsExact
<1>17. OneParent'
  <2>1. \A x \in Threads : IsInjective(children'[x])
    BY <1>1, <1>12, <1>13 DEF OneParent
  <2>2. ASSUME NEW x \in Threads, NEW y \in Threads
        PROVE  y \in Range(children'[x]) <=> y \in Existing' \ {INITPROC} /\ parent'[y] = x
    <3>1. \A z \in Threads : /\ y \in Range(children[z]) <=> y \in Existing \ {INITPROC} /\ parent[y] = z
                             /\ u \in Range(children[z]) <=> u \in Existing \ {INITPROC} /\ parent[u] = z
      BY <1>1, <1>6 DEF OneParent
    <3>2. y \in Range(children'[x]) <=> y \in Range(children[x]) /\ y # u
      <4>1. CASE x = t
        BY <1>12, <1>13, <4>1
      <4>2. CASE x # t
        BY <1>6, <1>13, <3>1, <4>2
      <4>3. QED
        BY <4>1, <4>2
    <3>3. QED
      BY <1>11, <1>14, <3>1, <3>2
  <2>3. \A y \in Existing' \ {INITPROC} : parent'[y] \in LiveProcs'
    BY <1>1, <1>11, <1>14 DEF OneParent
  <2>4. QED
    BY <2>1, <2>2, <2>3 DEF OneParent
<1>18. Placement'
  BY <1>1, <1>5, <1>7, <1>11, <1>14 DEF Placement, u
<1>19. QED
  BY <1>4, <1>10, <1>11, <1>15, <1>16, <1>17, <1>18 DEF ProcInv

\* INITPROC starts alone, with the first pid.
LEMMA InitProc == Init => ProcInv
<1> SUFFICES ASSUME Init PROVE ProcInv
  OBVIOUS
<1> DEFINE p == alloc_id(new_allocator)
<1>1. INITPROC \in Threads /\ INITPROC # NoThread /\ current = NoThread
  BY ProcessAssumption, NoThreadAssumption DEF Init
<1>2. /\ AllocatorOK(alloc(new_allocator))
      /\ p \in Nat
      /\ InUse(alloc(new_allocator)) = {p}
  BY NewAllocator, AllocFresh
<1> HIDE DEF p
<1>3. Born = {INITPROC} /\ Existing = {INITPROC} /\ LiveProcs = {INITPROC}
  <2>1. Born = {INITPROC}
    BY <1>1 DEF Init, Born
  <2>2. Existing = {INITPROC}
    BY <2>1 DEF Init, Existing
  <2>3. QED
    BY <1>1, <2>1, <2>2 DEF Init, LiveProcs
<1>4. <<INITPROC>> \in Seq(Threads) /\ Range(<<INITPROC>>) = {INITPROC} /\ IsInjective(<<INITPROC>>)
  BY <1>1 DEF Range, IsInjective
<1>5. pid[INITPROC] = p /\ pid2process = [i \in {p} |-> INITPROC]
  BY <1>1 DEF Init, p
<1>6. TypeOK
  <2>1. SchedTypeOK
    BY <1>1, <1>4 DEF Init, SchedTypeOK
  <2>2. pid_allocator \in [current : Nat, recycled : Seq(Nat)]
    BY <1>2 DEF Init, AllocatorOK
  <2>3. pid \in [Threads -> Nat \cup {NoPid}]
    BY <1>2 DEF Init, p
  <2>4. DOMAIN pid2process \subseteq Nat /\ Range(pid2process) \subseteq Threads
    BY <1>1, <1>2, <1>5 DEF Range
  <2>5. children \in [Threads -> Seq(Threads)]
    BY DEF Init
  <2>6. QED
    BY <2>1, <2>2, <2>3, <2>4, <2>5 DEF Init, TypeOK
<1>7. PidsExact
  <2>1. InUse(pid_allocator) = {pid[x] : x \in Existing}
    BY <1>2, <1>3, <1>5 DEF Init
  <2>2. QED
    BY <1>3, <1>5, <2>1 DEF PidsExact
<1>8. OneParent
  BY <1>3, RangeEmpty DEF Init, OneParent
<1>9. Placement
  BY <1>1, <1>3, <1>4 DEF Init, Placement
<1>10. AllocatorOK(pid_allocator)
  BY <1>2 DEF Init
<1>11. QED
  BY <1>6, <1>7, <1>8, <1>9, <1>10 DEF Init, ProcInv

\* Every system call, trap and step of the scheduler keeps the invariant.
LEMMA NextProc == ProcInv /\ [Next]_vars => ProcInv'
<1> SUFFICES ASSUME ProcInv, [Next]_vars PROVE ProcInv'
  OBVIOUS
<1>1. CASE UNCHANGED vars
  <2>1. TypeOK' /\ kernel' \in {"running", "already borrowed"}
    BY <1>1 DEF ProcInv, TypeOK, SchedTypeOK, vars, schedVars, procVars
  <2>2. QED
    BY <1>1, <2>1, StaysInPlace DEF vars, procVars
<1>2. CASE idle
  BY <1>2, IdleKeeps
<1>3. ASSUME NEW t \in Threads, trap_end(t) PROVE ProcInv'
  BY <1>3, TrapEndKeeps
<1>4. ASSUME NEW t \in Threads, yields(t) PROVE ProcInv'
  BY <1>4, YieldKeeps
<1>5. ASSUME NEW t \in Threads,
             \/ fault(t)
             \/ \E p \in Pids, sig \in Signals : sys_kill(t, p, sig)
             \/ \E p \in Pids \cup {AnyChild} : waitpid_none(t, p)
      PROVE  ProcInv'
  BY <1>5, SignalKeeps
<1>6. ASSUME NEW t \in Threads, NEW u \in Threads, sys_fork(t, u) PROVE ProcInv'
  BY <1>6, ForkKeeps
<1>7. ASSUME NEW t \in Threads, NEW code \in Codes, sys_exit(t, code) PROVE ProcInv'
  BY <1>7, ExitKeeps, ProcessAssumption DEF sys_exit, Client, User
<1>8. ASSUME NEW t \in Threads, NEW p \in Pids \cup {AnyChild}, waitpid_reaps(t, p) PROVE ProcInv'
  BY <1>8, ReapKeeps
<1>9. QED
  BY <1>1, <1>2, <1>3, <1>4, <1>5, <1>6, <1>7, <1>8 DEF Next

\* The invariant holds in every state the processes can reach.
LEMMA ProcInvariant == Spec => []ProcInv
<1>1. QED
  BY InitProc, NextProc, PTL DEF Spec

\* Every component keeps the values its Rust type allows.
THEOREM ProcessTypes == Spec => []TypeOK
<1>1. ProcInv => TypeOK
  BY DEF ProcInv
<1>2. QED
  BY <1>1, ProcInvariant, PTL

\* Whatever forks, exits, kills and waits happen and however pids are recycled,
\* the pids in use are those of the processes that exist, no two alike, and
\* PID2PCB finds exactly the processes that have not exited.
THEOREM PidsStayExact == Spec => []PidsExact
<1>1. ProcInv => PidsExact
  BY DEF ProcInv
<1>2. QED
  BY <1>1, ProcInvariant, PTL

\* Every process but INITPROC is once in the list of exactly one parent that
\* has not ended, also after its own parent has exited: no zombie is lost and
\* none is reaped twice.
THEOREM OneLiveParent == Spec => []OneParent
<1>1. ProcInv => OneParent
  BY DEF ProcInv
<1>2. QED
  BY <1>1, ProcInvariant, PTL

\* The assertion of waitpid on the reference count of the child it reaps, the
\* assertions of the pid allocator and the lookup of an exiting process in
\* PID2PCB never fail.
THEOREM AssertionsNeverFail == Spec => []ChecksHold
<1>1. ProcInv => ChecksHold
  BY DEF ProcInv, ChecksHold
<1>2. QED
  BY <1>1, ProcInvariant, PTL

=============================================================================
