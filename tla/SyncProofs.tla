----------------------------- MODULE SyncProofs ------------------------------
(***************************************************************************)
(* Proofs about Sync for any threads, mutexes, semaphores and condition    *)
(* variables: types, where a thread is, whom the timer wakes, and what     *)
(* mutexes and semaphores promise.                                         *)
(***************************************************************************)
EXTENDS Sync, DataStructureProofs, FiniteSetTheorems

(***************************************************************************)
(* Type correctness needs that the heap of timers stays finite: only then  *)
(* is the order in which check_timer pops it a sequence.                   *)
(***************************************************************************)
TypeInv == TypeOK /\ IsFiniteSet(timers)

\* The orders of the popped timers are sequences of distinct threads.
LEMMA PopOrders ==
    ASSUME NEW P, P \subseteq timers, TypeInv,
           NEW s \in pop_orders(P)
    PROVE  LET r == [i \in DOMAIN s |-> s[i].task]
           IN  /\ r \in Seq(Threads)
               /\ Range(r) = {x.task : x \in P}
               /\ (\A x, y \in timers : x.task = y.task => x = y) => IsInjective(r)
<1> DEFINE n == Cardinality(P)
           r == [i \in DOMAIN s |-> s[i].task]
<1>1. IsFiniteSet(P)
  BY FS_Subset DEF TypeInv
<1>2. n \in Nat
  BY <1>1, FS_CardinalityType
<1>3. /\ s \in [1 .. n -> P]
      /\ \A i, j \in 1 .. n : s[i] = s[j] => i = j
      /\ \A x \in P : \E i \in 1 .. n : s[i] = x
  BY DEF pop_orders, Bijection, Injection, Surjection, IsInjective
<1>4. \A x \in P : x.task \in Threads
  BY DEF TypeInv, TypeOK
<1> HIDE DEF n
<1>5. r \in [1 .. n -> Threads] /\ DOMAIN r = 1 .. n
  BY <1>3, <1>4
<1>6. r \in Seq(Threads)
  BY <1>2, <1>5
<1>7. Range(r) = {x.task : x \in P}
  <2>1. \A i \in 1 .. n : r[i] \in {x.task : x \in P}
    BY <1>3
  <2>2. \A x \in P : \E i \in 1 .. n : r[i] = x.task
    BY <1>3
  <2>3. QED
    BY <1>5, <2>1, <2>2, Zenon DEF Range
<1>8. ASSUME \A x, y \in timers : x.task = y.task => x = y
      PROVE  IsInjective(r)
  BY <1>3, <1>5, <1>8 DEF IsInjective
<1>9. QED
  BY <1>6, <1>7, <1>8

\* Waking the first waiter of an object leaves queues of threads.
LEMMA WakeType ==
    ASSUME TypeOK, NEW o \in Objects
    PROVE  /\ wake_first(o) \in Seq(Threads)
           /\ pop_front(o) \in [Objects -> Seq(Threads)]
<1>1. CASE wait_queue[o] = <<>>
  BY <1>1 DEF TypeOK, SchedTypeOK, wake_first, pop_front
<1>2. CASE wait_queue[o] # <<>>
  <2>1. Head(wait_queue[o]) \in Threads /\ Tail(wait_queue[o]) \in Seq(Threads)
    BY <1>2 DEF TypeOK
  <2>2. QED
    BY <1>2, <2>1 DEF TypeOK, SchedTypeOK, wake_first, pop_front, add_task
<1>3. QED
  BY <1>1, <1>2

\* Init establishes the types.
LEMMA InitType == Init => TypeInv
<1> SUFFICES ASSUME Init PROVE TypeInv
  OBVIOUS
<1> DEFINE S == {Main} \cup Spinners
           n == Cardinality(S)
<1>1. IsFiniteSet(Threads)
  BY SyncAssumption
<1>2. S \subseteq Threads
  BY SyncAssumption, Zenon
<1>3. n \in Nat
  BY <1>1, <1>2, FS_Subset, FS_CardinalityType
<1>4. ready_queue \in Seq(Threads)
  <2>1. ready_queue \in [1 .. n -> Threads]
    BY <1>2, Zenon DEF Init, Bijection, Injection
  <2> HIDE DEF n
  <2>2. QED
    BY <1>3, <2>1
<1>5. SchedTypeOK
  BY <1>4 DEF Init, SchedTypeOK
<1>6. cont \in [Threads -> Conts] /\ wait_queue \in [Objects -> Seq(Threads)]
  BY DEF Init, Conts, InUser
<1>7. IsFiniteSet(timers)
  BY FS_EmptySet DEF Init
<1>8. count \in [Sems -> Int]
  <2>1. InitCount \in [Sems -> Nat]
    BY SyncAssumption
  <2>2. QED
    BY <2>1 DEF Init
<1>9. /\ locked \in [Mutexes -> BOOLEAN]
      /\ timers \subseteq [expire_ms : 0 .. (WordMod - 1), task : Threads]
      /\ now \in Nat
      /\ exited \subseteq Threads
      /\ panicked \in BOOLEAN
      /\ owns \in [Threads -> SUBSET Mutexes]
  BY Zenon DEF Init
<1>10. QED
  BY <1>5, <1>6, <1>7, <1>8, <1>9 DEF TypeInv, TypeOK

\* lock() in all its three outcomes keeps the types.
LEMMA LockType ==
    ASSUME TypeInv, NEW t \in Threads, NEW m \in Mutexes, lock(t, m)
    PROVE  /\ SchedTypeOK'
           /\ (cont \in [Threads -> Conts])'
           /\ (locked \in [Mutexes -> BOOLEAN])'
           /\ (wait_queue \in [Objects -> Seq(Threads)])'
           /\ (owns \in [Threads -> SUBSET Mutexes])'
<1> USE DEF TypeInv, TypeOK, SchedTypeOK
<1>1. m \in Objects
  BY DEF Objects
<1>2. CASE lock_free(t, m)
  BY <1>2 DEF lock_free, KeepRunning, Conts, InUser
<1>3. CASE lock_spins(t, m)
  BY <1>3 DEF lock_spins, suspend_current_and_run_next, add_task, Conts, Spinning
<1>4. CASE lock_blocks(t, m)
  BY <1>1, <1>4 DEF lock_blocks, block_current_and_run_next, Conts, Granted
<1>5. QED
  BY <1>2, <1>3, <1>4 DEF lock

\* Every step keeps the types.
LEMMA NextType == TypeInv /\ [Next]_vars => TypeInv'
<1> SUFFICES ASSUME TypeInv, [Next]_vars PROVE TypeInv'
  OBVIOUS
<1> USE DEF TypeInv
<1>1. CASE idle
  <2>1. Head(ready_queue) \in Threads /\ Tail(ready_queue) \in Seq(Threads)
    BY <1>1 DEF idle, run_tasks, TypeOK, SchedTypeOK
  <2>2. QED
    BY <1>1, <2>1 DEF idle, run_tasks, syncVars, TypeOK, SchedTypeOK
<1>2. CASE idle_empty
  BY <1>2 DEF idle_empty, run_tasks_idle, schedVars, syncVars, TypeOK, SchedTypeOK
<1>3. CASE tick
  BY <1>3 DEF tick, schedVars, TypeOK, SchedTypeOK
<1>4. ASSUME NEW t \in Threads, resume_locks(t)
      PROVE  TypeInv'
  <2>1. cont[t].m \in Mutexes
    BY <1>4 DEF resume_locks, TypeOK, Conts, InUser
  <2>2. QED
    BY <1>4, <2>1, LockType DEF resume_locks, TypeOK
<1>5. ASSUME NEW t \in Threads, resume_granted(t)
      PROVE  TypeInv'
  <2>1. cont[t].m \in Mutexes
    BY <1>5 DEF resume_granted, TypeOK, Conts, InUser
  <2>2. QED
    BY <1>5, <2>1 DEF resume_granted, KeepRunning, TypeOK, SchedTypeOK, Conts
<1>6. ASSUME NEW t \in Threads, timer_interrupt(t)
      PROVE  TypeInv'
  <2>1. check_timer(now) \subseteq timers
    BY DEF check_timer
  <2>2. PICK s \in pop_orders(check_timer(now)) :
          suspend_current_and_run_next(t, ready_queue \o [i \in DOMAIN s |-> s[i].task])
    BY <1>6, Zenon DEF timer_interrupt
  <2> DEFINE r == [i \in DOMAIN s |-> s[i].task]
  <2>3. r \in Seq(Threads)
    BY <2>1, PopOrders
  <2> HIDE DEF r
  <2>4. SchedTypeOK'
    BY <2>2, <2>3 DEF r, suspend_current_and_run_next, add_task, TypeOK, SchedTypeOK
  <2>5. timers' \subseteq timers /\ IsFiniteSet(timers')
    BY <1>6, FS_Subset DEF timer_interrupt
  <2>6. QED
    BY <1>6, <2>4, <2>5 DEF timer_interrupt, TypeOK
<1>7. ASSUME NEW t \in Threads, sys_yield(t)
      PROVE  TypeInv'
  BY <1>7 DEF sys_yield, suspend_current_and_run_next, add_task, syncVars, TypeOK, SchedTypeOK
<1>8. ASSUME NEW t \in Threads, sys_exit(t)
      PROVE  TypeInv'
  BY <1>8 DEF sys_exit, exit_leaves_processor, TypeOK, SchedTypeOK
<1>9. ASSUME NEW t \in Threads, NEW u \in Threads, sys_thread_create(t, u)
      PROVE  TypeInv'
  BY <1>9 DEF sys_thread_create, spawn, add_task, syncVars, TypeOK, SchedTypeOK
<1>10. ASSUME NEW t \in Threads, NEW ms \in Delays, sys_sleep(t, ms)
       PROVE  TypeInv'
  <2>1. ms \in Nat /\ WordMod \in Nat \ {0}
    BY SyncAssumption
  <2>2. (now + ms) % WordMod \in 0 .. (WordMod - 1)
    BY <2>1 DEF TypeOK
  <2>3. IsFiniteSet(timers')
    BY <1>10, FS_AddElement, Zenon DEF sys_sleep
  <2>4. QED
    BY <1>10, <2>2, <2>3 DEF sys_sleep, block_current_and_run_next, TypeOK, SchedTypeOK
<1>11. ASSUME NEW t \in Threads, NEW m \in Mutexes, sys_mutex_lock(t, m)
       PROVE  TypeInv'
  BY <1>11, LockType DEF sys_mutex_lock, TypeOK
<1>12. ASSUME NEW t \in Threads, NEW m \in Mutexes, sys_mutex_unlock(t, m)
       PROVE  TypeInv'
  <2>1. wake_first(m) \in Seq(Threads) /\ pop_front(m) \in [Objects -> Seq(Threads)]
    BY WakeType, Zenon DEF Objects
  <2>2. QED
    BY <1>12, <2>1 DEF sys_mutex_unlock, unlock, KeepRunning, TypeOK, SchedTypeOK
<1>13. ASSUME NEW t \in Threads, NEW m \in Mutexes, unlock_panics(t, m)
       PROVE  TypeInv'
  BY <1>13 DEF unlock_panics, schedVars, TypeOK, SchedTypeOK
<1>14. ASSUME NEW t \in Threads, NEW s \in Sems, sys_semaphore_up(t, s)
       PROVE  TypeInv'
  <2>1. wake_first(s) \in Seq(Threads) /\ pop_front(s) \in [Objects -> Seq(Threads)]
    BY WakeType, Zenon DEF Objects
  <2>2. QED
    BY <1>14, <2>1 DEF sys_semaphore_up, KeepRunning, TypeOK, SchedTypeOK
<1>15. ASSUME NEW t \in Threads, NEW s \in Sems, sys_semaphore_down(t, s)
       PROVE  TypeInv'
  <2>1. count' \in [Sems -> Int]
    BY <1>15 DEF sys_semaphore_down, TypeOK
  <2>2. SchedTypeOK' /\ (wait_queue \in [Objects -> Seq(Threads)])'
    <3>1. CASE count'[s] < 0
      <4>1. /\ wait_queue' = [wait_queue EXCEPT ![s] = Append(@, t)]
            /\ block_current_and_run_next(t, ready_queue)
        BY <1>15, <3>1 DEF sys_semaphore_down
      <4>2. s \in Objects /\ Append(wait_queue[s], t) \in Seq(Threads)
        BY DEF Objects, TypeOK
      <4>3. QED
        BY <4>1, <4>2 DEF block_current_and_run_next, TypeOK, SchedTypeOK
    <3>2. CASE ~(count'[s] < 0)
      BY <1>15, <3>2 DEF sys_semaphore_down, KeepRunning, TypeOK, SchedTypeOK
    <3>3. QED
      BY <3>1, <3>2
  <2>3. QED
    BY <1>15, <2>1, <2>2 DEF sys_semaphore_down, TypeOK
<1>16. ASSUME NEW t \in Threads, NEW c \in Condvars, sys_condvar_signal(t, c)
       PROVE  TypeInv'
  <2>1. wake_first(c) \in Seq(Threads) /\ pop_front(c) \in [Objects -> Seq(Threads)]
    BY WakeType, Zenon DEF Objects
  <2>2. QED
    BY <1>16, <2>1 DEF sys_condvar_signal, KeepRunning, TypeOK, SchedTypeOK
<1>17. ASSUME NEW t \in Threads, NEW c \in Condvars, NEW m \in Mutexes,
              sys_condvar_wait(t, c, m)
       PROVE  TypeInv'
  <2>1. wake_first(m) \in Seq(Threads) /\ pop_front(m) \in [Objects -> Seq(Threads)]
    BY WakeType, Zenon DEF Objects
  <2>2. wait_queue' \in [Objects -> Seq(Threads)]
    BY <1>17, <2>1 DEF sys_condvar_wait, Objects
  <2>3. QED
    BY <1>17, <2>1, <2>2 DEF sys_condvar_wait, block_current_and_run_next, unlock,
                             Conts, Relock, TypeOK, SchedTypeOK
<1>18. CASE UNCHANGED vars
  BY <1>18 DEF vars, syncVars, TypeOK, SchedTypeOK
<1>19. QED
  BY <1>1, <1>2, <1>3, <1>4, <1>5, <1>6, <1>7, <1>8, <1>9, <1>10, <1>11, <1>12,
     <1>13, <1>14, <1>15, <1>16, <1>17, <1>18 DEF Next, resume

\* Type correctness: the kernel's scheduling structures always have the
\* values that Init and the system calls are meant to give them.
THEOREM TypeCorrect == Spec => []TypeOK
<1>1. TypeInv => TypeOK
  BY DEF TypeInv
<1>2. QED
  BY <1>1, InitType, NextType, PTL DEF Spec

(***************************************************************************)
(* One place per thread.  Each of the following lemmas is about one way to *)
(* move a thread; the actions compose them.                                *)
(***************************************************************************)

\* run_tasks moves the head of the ready queue to the processor.
LEMMA MoveRun ==
    ASSUME NEW rq \in Seq(Threads), NEW wq, NEW tm, NEW ex, NEW none, rq # <<>>,
           Placed(NoThread, rq, wq, tm, ex, none)
    PROVE  Placed(Head(rq), Tail(rq), wq, tm, ex, none)
<1>1. IsInjective(rq)
  BY DEF Placed
<1>2. /\ Head(rq) \in Range(rq)
      /\ Range(Tail(rq)) = Range(rq) \ {Head(rq)}
      /\ IsInjective(Tail(rq))
  BY <1>1, RangeTail
<1>3. Range(rq) \subseteq Threads
  BY RangeType
<1>4. QED
  BY <1>2, <1>3, NoThreadAssumption, Zenon DEF Placed

\* suspend_current_and_run_next moves the running thread to the ready queue.
LEMMA MoveSuspend ==
    ASSUME NEW t \in Threads, NEW rq \in Seq(Threads), NEW wq, NEW tm, NEW ex, NEW none,
           Placed(t, rq, wq, tm, ex, none)
    PROVE  Placed(NoThread, Append(rq, t), wq, tm, ex, none)
<1>1. IsInjective(rq) /\ t \notin Range(rq)
  BY DEF Placed
<1>2. /\ Range(Append(rq, t)) = Range(rq) \cup {t}
      /\ IsInjective(Append(rq, t))
  BY <1>1, RangeAppend
<1>3. QED
  BY <1>2, NoThreadAssumption, Zenon DEF Placed

\* A wake-up moves the head of a wait queue to the ready queue.
LEMMA MoveWake ==
    ASSUME NEW cur, NEW rq \in Seq(Threads), NEW wq \in [Objects -> Seq(Threads)],
           NEW tm, NEW ex, NEW none, NEW o \in Objects, wq[o] # <<>>,
           Placed(cur, rq, wq, tm, ex, none)
    PROVE  Placed(cur, Append(rq, Head(wq[o])), [wq EXCEPT ![o] = Tail(@)], tm, ex, none)
<1> DEFINE h == Head(wq[o])
           wr == [wq EXCEPT ![o] = Tail(@)]
<1>1. IsInjective(wq[o]) /\ IsInjective(rq)
  BY DEF Placed
<1>2. /\ h \in Range(wq[o])
      /\ Range(wr[o]) = Range(wq[o]) \ {h}
      /\ IsInjective(wr[o])
  BY <1>1, RangeTail
<1>3. h \in Threads
  BY <1>2, RangeType
<1>4. \A p \in Objects : p # o => wr[p] = wq[p]
  OBVIOUS
<1>5. h # cur /\ h \notin Range(rq) /\ ~(\E x \in tm : x.task = h) /\ h \notin ex /\ h \notin none
  BY <1>2, <1>3 DEF Placed
<1>6. /\ Range(Append(rq, h)) = Range(rq) \cup {h}
      /\ IsInjective(Append(rq, h))
  BY <1>1, <1>3, <1>5, RangeAppend
<1>7. \A p \in Objects : p # o => h \notin Range(wq[p])
  BY <1>2 DEF Placed
<1>8. \A p \in Objects, t \in Threads : t \in Range(wr[p]) <=> (t \in Range(wq[p]) /\ t # h)
  BY <1>2, <1>4, <1>7
<1>9. \A p, q \in Objects : p # q => Range(wr[p]) \cap Range(wr[q]) = {}
  <2>1. \A p \in Objects : Range(wr[p]) \subseteq Range(wq[p])
    BY <1>2, <1>4
  <2>2. \A p, q \in Objects : p # q => Range(wq[p]) \cap Range(wq[q]) = {}
    BY DEF Placed
  <2>3. QED
    BY <2>1, <2>2
<1>10. \A p \in Objects : IsInjective(wr[p])
  BY <1>2, <1>4 DEF Placed
<1> HIDE DEF h, wr
<1>11. Placed(cur, Append(rq, h), wr, tm, ex, none)
  BY <1>2, <1>3, <1>5, <1>6, <1>8, <1>9, <1>10, Zenon DEF Placed
<1>12. QED
  BY <1>11 DEF h, wr

\* A thread that blocks on o moves from the processor to o's wait queue.
LEMMA MoveBlock ==
    ASSUME NEW t \in Threads, NEW rq, NEW wq \in [Objects -> Seq(Threads)],
           NEW tm, NEW ex, NEW none, NEW o \in Objects,
           Placed(t, rq, wq, tm, ex, none)
    PROVE  Placed(NoThread, rq, [wq EXCEPT ![o] = Append(@, t)], tm, ex, none)
<1> DEFINE wr == [wq EXCEPT ![o] = Append(@, t)]
<1>1. IsInjective(wq[o]) /\ \A p \in Objects : t \notin Range(wq[p])
  BY DEF Placed
<1>2. Range(wr[o]) = Range(wq[o]) \cup {t} /\ IsInjective(wr[o])
  BY <1>1, RangeAppend
<1>3. \A p \in Objects : p # o => wr[p] = wq[p]
  OBVIOUS
<1>4. \A p \in Objects, u \in Threads :
        u \in Range(wr[p]) <=> (u \in Range(wq[p]) \/ (p = o /\ u = t))
  BY <1>2, <1>3
<1>5. \A p, q \in Objects : p # q => Range(wr[p]) \cap Range(wr[q]) = {}
  <2>1. \A p, q \in Objects : p # q => Range(wq[p]) \cap Range(wq[q]) = {}
    BY DEF Placed
  <2>2. QED
    BY <1>1, <1>2, <1>3, <2>1
<1>6. \A p \in Objects : IsInjective(wr[p])
  BY <1>2, <1>3 DEF Placed
<1> HIDE DEF wr
<1>7. Placed(NoThread, rq, wr, tm, ex, none)
  BY <1>4, <1>5, <1>6, NoThreadAssumption, Zenon DEF Placed
<1>8. QED
  BY <1>7 DEF wr

\* sys_sleep moves the running thread to the timer heap.
LEMMA MoveSleep ==
    ASSUME NEW t \in Threads, NEW rq, NEW wq, NEW tm, NEW ex, NEW none, NEW ms,
           Placed(t, rq, wq, tm, ex, none)
    PROVE  Placed(NoThread, rq, wq, tm \cup {[expire_ms |-> ms, task |-> t]}, ex, none)
<1> DEFINE e == [expire_ms |-> ms, task |-> t]
<1>1. e.task = t
  OBVIOUS
<1> HIDE DEF e
<1>2. \A x \in tm : x.task # t
  BY DEF Placed
<1>3. \A u \in Threads : (\E x \in tm \cup {e} : x.task = u) <=> (u = t \/ \E x \in tm : x.task = u)
  BY <1>1
<1>4. Placed(NoThread, rq, wq, tm \cup {e}, ex, none)
  BY <1>1, <1>2, <1>3, NoThreadAssumption DEF Placed
<1>5. QED
  BY <1>4 DEF e

\* check_timer moves the threads of the popped timers to the ready queue.
LEMMA MoveTimers ==
    ASSUME NEW cur, NEW rq \in Seq(Threads), NEW wq, NEW tm, NEW ex, NEW none,
           NEW P \in SUBSET tm, NEW r \in Seq(Threads),
           Range(r) = {x.task : x \in P}, IsInjective(r),
           Placed(cur, rq, wq, tm, ex, none)
    PROVE  Placed(cur, rq \o r, wq, tm \ P, ex, none)
<1>1. Range(r) \subseteq Threads
  BY RangeType
<1>2. \A t \in Range(r) : \E x \in tm : x.task = t
  OBVIOUS
<1>3. Range(rq) \cap Range(r) = {} /\ IsInjective(rq)
  BY <1>1, <1>2 DEF Placed
<1>4. /\ Range(rq \o r) = Range(rq) \cup Range(r)
      /\ IsInjective(rq \o r)
  BY <1>3, RangeConcat
<1>5. \A t \in Threads : (\E x \in tm \ P : x.task = t) <=> ((\E x \in tm : x.task = t) /\ t \notin Range(r))
  <2>1. \A x, y \in tm : x.task = y.task => x = y
    BY DEF Placed
  <2>2. QED
    BY <2>1
<1>6. QED
  BY <1>1, <1>2, <1>4, <1>5, Zenon DEF Placed

\* exit_current_and_run_next takes the running thread out for good.
LEMMA MoveExit ==
    ASSUME NEW t \in Threads, NEW rq, NEW wq, NEW tm, NEW ex, NEW none,
           Placed(t, rq, wq, tm, ex, none)
    PROVE  Placed(NoThread, rq, wq, tm, ex \cup {t}, none)
  BY NoThreadAssumption DEF Placed

\* sys_thread_create moves a new thread to the ready queue.
LEMMA MoveSpawn ==
    ASSUME NEW cur, NEW rq \in Seq(Threads), NEW wq, NEW tm, NEW ex, NEW none,
           NEW u \in Threads, u \in none,
           Placed(cur, rq, wq, tm, ex, none)
    PROVE  Placed(cur, Append(rq, u), wq, tm, ex, none \ {u})
<1>1. IsInjective(rq) /\ u \notin Range(rq)
  BY DEF Placed
<1>2. /\ Range(Append(rq, u)) = Range(rq) \cup {u}
      /\ IsInjective(Append(rq, u))
  BY <1>1, RangeAppend
<1>3. QED
  BY <1>2, Zenon DEF Placed

\* Waking the first waiter of an object, or nobody if there is none.
LEMMA MoveWakeFirst ==
    ASSUME TypeInv, OnePlace, NEW o \in Objects
    PROVE  Placed(current, wake_first(o), pop_front(o), timers, exited, Unborn)
<1>1. CASE wait_queue[o] = <<>>
  <2>1. wake_first(o) = ready_queue /\ pop_front(o) = wait_queue
    BY <1>1 DEF wake_first, pop_front, TypeInv, TypeOK
  <2>2. QED
    BY <2>1 DEF OnePlace
<1>2. CASE wait_queue[o] # <<>>
  <2>1. /\ wake_first(o) = Append(ready_queue, Head(wait_queue[o]))
        /\ pop_front(o) = [wait_queue EXCEPT ![o] = Tail(@)]
    BY <1>2 DEF wake_first, pop_front, add_task
  <2>2. ready_queue \in Seq(Threads) /\ wait_queue \in [Objects -> Seq(Threads)]
    BY DEF TypeInv, TypeOK, SchedTypeOK
  <2>3. Placed(current, ready_queue, wait_queue, timers, exited, Unborn)
    BY DEF OnePlace
  <2>4. Placed(current, Append(ready_queue, Head(wait_queue[o])),
               [wait_queue EXCEPT ![o] = Tail(@)], timers, exited, Unborn)
    BY <1>2, <2>2, <2>3, MoveWake, Zenon
  <2>5. QED
    BY <2>1, <2>4
<1>3. QED
  BY <1>1, <1>2

\* Init puts the first threads into the ready queue and all others nowhere.
LEMMA InitOnePlace == Init => OnePlace
<1> SUFFICES ASSUME Init PROVE OnePlace
  OBVIOUS
<1> DEFINE S == {Main} \cup Spinners
           n == Cardinality(S)
<1>1. ready_queue \in [1 .. n -> S] /\ IsInjective(ready_queue)
      /\ \A t \in S : \E i \in 1 .. n : ready_queue[i] = t
  BY Zenon DEF Init, Bijection, Injection, Surjection
<1>2. Range(ready_queue) = S
  BY <1>1, Zenon DEF Range
<1>3. Unborn = Threads \ S
  BY Zenon DEF Init, Unborn
<1>4. \A o \in Objects : Range(wait_queue[o]) = {} /\ IsInjective(wait_queue[o])
  BY RangeEmpty DEF Init
<1>5. timers = {} /\ exited = {} /\ current = NoThread
  BY DEF Init
<1> HIDE DEF S
<1>6. QED
  BY <1>1, <1>2, <1>3, <1>4, <1>5, NoThreadAssumption, Zenon DEF OnePlace, Placed

\* lock() leaves the thread where it is or moves it to one queue.
LEMMA LockOnePlace ==
    ASSUME TypeInv, OnePlace, NEW t \in Threads, NEW m \in Mutexes, current = t, lock(t, m),
           UNCHANGED <<timers, exited>>
    PROVE  OnePlace'
<1>1. /\ ready_queue \in Seq(Threads)
      /\ wait_queue \in [Objects -> Seq(Threads)]
      /\ task_status \in [Threads -> {"None", "Ready", "Running", "Blocking"}]
      /\ m \in Objects
  BY DEF TypeInv, TypeOK, SchedTypeOK, Objects
<1>2. t \notin Unborn
  BY DEF OnePlace, Placed
<1>3. CASE lock_free(t, m)
  BY <1>3 DEF lock_free, KeepRunning, OnePlace, Unborn
<1>4. CASE lock_spins(t, m)
  <2>1. Unborn' = Unborn
    BY <1>1, <1>2, <1>4 DEF lock_spins, suspend_current_and_run_next, Unborn
  <2>2. QED
    BY <1>1, <1>4, <2>1, MoveSuspend DEF lock_spins, suspend_current_and_run_next, add_task, OnePlace
<1>5. CASE lock_blocks(t, m)
  <2>1. Unborn' = Unborn
    BY <1>1, <1>2, <1>5 DEF lock_blocks, block_current_and_run_next, Unborn
  <2>2. QED
    BY <1>1, <1>5, <2>1, MoveBlock, Zenon DEF lock_blocks, block_current_and_run_next, OnePlace
<1>6. QED
  BY <1>3, <1>4, <1>5 DEF lock

\* Every step keeps every thread in exactly one place.
LEMMA NextOnePlace == TypeInv /\ OnePlace /\ [Next]_vars => OnePlace'
<1> SUFFICES ASSUME TypeInv, OnePlace, [Next]_vars PROVE OnePlace'
  OBVIOUS
<1>a. /\ ready_queue \in Seq(Threads)
      /\ wait_queue \in [Objects -> Seq(Threads)]
      /\ task_status \in [Threads -> {"None", "Ready", "Running", "Blocking"}]
  BY DEF TypeInv, TypeOK, SchedTypeOK
<1>b. Placed(current, ready_queue, wait_queue, timers, exited, Unborn)
  BY DEF OnePlace
<1>c. current \notin Unborn
  BY <1>b DEF Placed, Unborn
<1>1. CASE idle
  <2>1. ready_queue # <<>> /\ current = NoThread /\ UNCHANGED <<wait_queue, timers, exited>>
    BY <1>1 DEF idle, run_tasks, syncVars
  <2>2. Head(ready_queue) \in Range(ready_queue) /\ Head(ready_queue) \in Threads
    <3>1. IsInjective(ready_queue)
      BY <1>b DEF Placed
    <3>2. QED
      BY <1>a, <2>1, <3>1, RangeTail
  <2>3. Head(ready_queue) \notin Unborn
    BY <1>b, <2>2 DEF Placed
  <2>4. Unborn' = Unborn
    BY <1>1, <1>a, <2>3 DEF idle, run_tasks, Unborn
  <2>5. Placed(Head(ready_queue), Tail(ready_queue), wait_queue, timers, exited, Unborn)
    BY <1>a, <1>b, <2>1, MoveRun
  <2>6. QED
    BY <1>1, <2>1, <2>4, <2>5 DEF idle, run_tasks, OnePlace
<1>2. CASE idle_empty
  BY <1>2 DEF idle_empty, run_tasks_idle, schedVars, syncVars, OnePlace, Unborn
<1>3. CASE tick
  BY <1>3 DEF tick, schedVars, OnePlace, Unborn
<1>4. ASSUME NEW t \in Threads, resume_locks(t)
      PROVE  OnePlace'
  <2>1. cont[t].m \in Mutexes
    BY <1>4 DEF resume_locks, TypeInv, TypeOK, Conts, InUser
  <2>2. QED
    BY <1>4, <2>1, LockOnePlace DEF resume_locks
<1>5. ASSUME NEW t \in Threads, resume_granted(t)
      PROVE  OnePlace'
  BY <1>5 DEF resume_granted, KeepRunning, OnePlace, Unborn
<1>6. ASSUME NEW t \in Threads, timer_interrupt(t)
      PROVE  OnePlace'
  <2> DEFINE P == check_timer(now)
  <2>1. P \subseteq timers
    BY DEF check_timer
  <2>2. PICK s \in pop_orders(P) :
          suspend_current_and_run_next(t, ready_queue \o [i \in DOMAIN s |-> s[i].task])
    BY <1>6, Zenon DEF timer_interrupt
  <2> DEFINE r == [i \in DOMAIN s |-> s[i].task]
  <2>3. \A x, y \in timers : x.task = y.task => x = y
    BY <1>b DEF Placed
  <2>4. r \in Seq(Threads) /\ Range(r) = {x.task : x \in P} /\ IsInjective(r)
    BY <2>1, <2>3, PopOrders
  <2>5. current = t /\ timers' = timers \ P /\ UNCHANGED <<wait_queue, exited>>
    BY <1>6 DEF timer_interrupt, User
  <2>6. /\ current' = NoThread
        /\ ready_queue' = Append(ready_queue \o r, t)
        /\ task_status' = [task_status EXCEPT ![t] = "Ready"]
    BY <2>2 DEF suspend_current_and_run_next, add_task
  <2> HIDE DEF P, r
  <2>7. Placed(t, ready_queue \o r, wait_queue, timers \ P, exited, Unborn)
    BY <1>a, <1>b, <2>1, <2>4, <2>5, MoveTimers, Zenon
  <2>8. ready_queue \o r \in Seq(Threads)
    BY <1>a, <2>4, RangeConcat
  <2>9. Placed(NoThread, Append(ready_queue \o r, t), wait_queue, timers \ P, exited, Unborn)
    BY <2>7, <2>8, MoveSuspend, Zenon
  <2>10. Unborn' = Unborn
    BY <1>a, <1>c, <2>5, <2>6 DEF Unborn
  <2>11. QED
    BY <2>5, <2>6, <2>9, <2>10 DEF OnePlace
<1>7. ASSUME NEW t \in Threads, sys_yield(t)
      PROVE  OnePlace'
  <2>1. Unborn' = Unborn
    BY <1>a, <1>c, <1>7 DEF sys_yield, User, suspend_current_and_run_next, Unborn
  <2>2. Placed(NoThread, Append(ready_queue, t), wait_queue, timers, exited, Unborn)
    BY <1>a, <1>b, <1>7, MoveSuspend DEF sys_yield, User
  <2>3. QED
    BY <1>7, <2>1, <2>2 DEF sys_yield, suspend_current_and_run_next, add_task, syncVars, OnePlace
<1>8. ASSUME NEW t \in Threads, sys_exit(t)
      PROVE  OnePlace'
  <2>1. Placed(NoThread, ready_queue, wait_queue, timers, exited \cup {t}, Unborn)
    BY <1>b, <1>8, MoveExit DEF sys_exit, Client, User
  <2>2. QED
    BY <1>8, <2>1 DEF sys_exit, exit_leaves_processor, OnePlace, Unborn
<1>9. ASSUME NEW t \in Threads, NEW u \in Threads, sys_thread_create(t, u)
      PROVE  OnePlace'
  <2>1. u \in Unborn /\ Unborn' = Unborn \ {u}
    BY <1>a, <1>9 DEF sys_thread_create, spawn, Unborn
  <2>2. Placed(current, Append(ready_queue, u), wait_queue, timers, exited, Unborn \ {u})
    BY <1>a, <1>b, <2>1, MoveSpawn
  <2>3. QED
    BY <1>9, <2>1, <2>2 DEF sys_thread_create, spawn, add_task, syncVars, OnePlace
<1>10. ASSUME NEW t \in Threads, NEW ms \in Delays, sys_sleep(t, ms)
       PROVE  OnePlace'
  <2>1. Unborn' = Unborn
    BY <1>a, <1>c, <1>10 DEF sys_sleep, Client, User, block_current_and_run_next, Unborn
  <2>2. Placed(NoThread, ready_queue, wait_queue,
               timers \cup {[expire_ms |-> (now + ms) % WordMod, task |-> t]}, exited, Unborn)
    BY <1>b, <1>10, MoveSleep, Zenon DEF sys_sleep, Client, User
  <2>3. QED
    BY <1>10, <2>1, <2>2 DEF sys_sleep, block_current_and_run_next, OnePlace
<1>11. ASSUME NEW t \in Threads, NEW m \in Mutexes, sys_mutex_lock(t, m)
       PROVE  OnePlace'
  BY <1>11, LockOnePlace DEF sys_mutex_lock, Client, User
<1>12. ASSUME NEW t \in Threads, NEW m \in Mutexes, sys_mutex_unlock(t, m)
       PROVE  OnePlace'
  <2>1. Placed(current, wake_first(m), pop_front(m), timers, exited, Unborn)
    BY MoveWakeFirst DEF Objects
  <2>2. QED
    BY <1>12, <2>1 DEF sys_mutex_unlock, KeepRunning, OnePlace, Unborn
<1>13. ASSUME NEW t \in Threads, NEW m \in Mutexes, unlock_panics(t, m)
       PROVE  OnePlace'
  BY <1>13 DEF unlock_panics, schedVars, OnePlace, Unborn
<1>14. ASSUME NEW t \in Threads, NEW s \in Sems, sys_semaphore_up(t, s)
       PROVE  OnePlace'
  <2>1. Placed(current, wake_first(s), pop_front(s), timers, exited, Unborn)
    BY MoveWakeFirst DEF Objects
  <2>2. QED
    BY <1>14, <1>b, <2>1 DEF sys_semaphore_up, KeepRunning, OnePlace, Unborn
<1>15. ASSUME NEW t \in Threads, NEW s \in Sems, sys_semaphore_down(t, s)
       PROVE  OnePlace'
  <2>1. CASE count'[s] < 0
    <3>1. /\ wait_queue' = [wait_queue EXCEPT ![s] = Append(@, t)]
          /\ block_current_and_run_next(t, ready_queue)
          /\ current = t
          /\ UNCHANGED <<timers, exited>>
      BY <1>15, <2>1 DEF sys_semaphore_down, Client, User
    <3>2. s \in Objects
      BY DEF Objects
    <3>3. Placed(NoThread, ready_queue, [wait_queue EXCEPT ![s] = Append(@, t)],
                 timers, exited, Unborn)
      BY <1>a, <1>b, <3>1, <3>2, MoveBlock, Zenon
    <3>4. Unborn' = Unborn
      BY <1>a, <1>c, <3>1 DEF block_current_and_run_next, Unborn
    <3>5. QED
      BY <3>1, <3>3, <3>4 DEF block_current_and_run_next, OnePlace
  <2>2. CASE ~(count'[s] < 0)
    BY <1>15, <1>b, <2>2 DEF sys_semaphore_down, KeepRunning, OnePlace, Unborn
  <2>3. QED
    BY <2>1, <2>2
<1>16. ASSUME NEW t \in Threads, NEW c \in Condvars, sys_condvar_signal(t, c)
       PROVE  OnePlace'
  <2>1. Placed(current, wake_first(c), pop_front(c), timers, exited, Unborn)
    BY MoveWakeFirst DEF Objects
  <2>2. QED
    BY <1>16, <2>1 DEF sys_condvar_signal, KeepRunning, OnePlace, Unborn
<1>17. ASSUME NEW t \in Threads, NEW c \in Condvars, NEW m \in Mutexes,
              sys_condvar_wait(t, c, m)
       PROVE  OnePlace'
  <2>1. m \in Objects /\ c \in Objects
    BY DEF Objects
  <2>2. /\ current = t
        /\ wait_queue' = [pop_front(m) EXCEPT ![c] = Append(@, t)]
        /\ block_current_and_run_next(t, wake_first(m))
        /\ UNCHANGED <<timers, exited>>
    BY <1>17 DEF sys_condvar_wait, Client, User
  <2>3. Placed(t, wake_first(m), pop_front(m), timers, exited, Unborn)
    BY <2>1, <2>2, MoveWakeFirst
  <2>4. pop_front(m) \in [Objects -> Seq(Threads)]
    BY <2>1, WakeType DEF TypeInv
  <2>5. Placed(NoThread, wake_first(m), [pop_front(m) EXCEPT ![c] = Append(@, t)],
               timers, exited, Unborn)
    BY <2>1, <2>3, <2>4, MoveBlock, Zenon
  <2>6. Unborn' = Unborn
    BY <1>a, <1>c, <2>2 DEF block_current_and_run_next, Unborn
  <2>7. QED
    BY <2>2, <2>5, <2>6 DEF block_current_and_run_next, OnePlace
<1>18. CASE UNCHANGED vars
  BY <1>18 DEF vars, syncVars, OnePlace, Unborn
<1>19. QED
  BY <1>1, <1>2, <1>3, <1>4, <1>5, <1>6, <1>7, <1>8, <1>9, <1>10, <1>11, <1>12,
     <1>13, <1>14, <1>15, <1>16, <1>17, <1>18 DEF Next, resume

\* No thread is ever lost or scheduled twice, whatever the user programs do
\* with their mutexes, semaphores, condition variables and sleeps.
THEOREM ThreadsInOnePlace == Spec => []OnePlace
  BY InitType, NextType, InitOnePlace, NextOnePlace, PTL DEF Spec

(***************************************************************************)
(* Sleeping.  The heap is ordered by the negated time as a signed number,  *)
(* which is the order of time as long as no entry reaches half of usize.   *)
(***************************************************************************)

\* No sleep started before MaxTime ends at or after half of usize.
ShortSleeps == \A ms \in Delays : 2 * (MaxTime + ms) < WordMod

TimerInv ==
    /\ now <= MaxTime
    /\ \A x \in timers : 2 * x.expire_ms < WordMod

\* Only sys_sleep adds an entry and only the clock's tick changes the time.
LEMMA NextTimer ==
    ASSUME ShortSleeps, TypeInv, TimerInv, [Next]_vars
    PROVE  TimerInv'
<1>1. now \in Nat /\ MaxTime \in Nat /\ WordMod \in Nat \ {0} /\ Delays \subseteq Nat
  BY SyncAssumption DEF TypeInv, TypeOK
<1>2. ASSUME timers' \subseteq timers, now' = now PROVE TimerInv'
  BY <1>2 DEF TimerInv
<1>3. CASE tick
  BY <1>1, <1>3 DEF tick, TimerInv
<1>4. ASSUME NEW t \in Threads, NEW ms \in Delays, sys_sleep(t, ms) PROVE TimerInv'
  <2>1. now + ms \in Nat /\ 2 * (now + ms) < WordMod
    BY <1>1 DEF ShortSleeps, TimerInv
  <2>2. (now + ms) % WordMod = now + ms
    BY <1>1, <2>1
  <2>3. timers' = timers \cup {[expire_ms |-> now + ms, task |-> t]} /\ now' = now
    BY <1>4, <2>2 DEF sys_sleep
  <2>4. QED
    BY <2>1, <2>3 DEF TimerInv
<1>5. ASSUME NEW t \in Threads, timer_interrupt(t) PROVE timers' \subseteq timers /\ now' = now
  BY <1>5, Zenon DEF timer_interrupt
<1>6. ASSUME NEW t \in Threads,
             \/ resume(t) \/ sys_yield(t) \/ sys_exit(t)
             \/ \E u \in Threads : sys_thread_create(t, u)
             \/ \E m \in Mutexes : sys_mutex_lock(t, m) \/ sys_mutex_unlock(t, m) \/ unlock_panics(t, m)
             \/ \E s \in Sems : sys_semaphore_up(t, s) \/ sys_semaphore_down(t, s)
             \/ \E c \in Condvars : sys_condvar_signal(t, c)
             \/ \E c \in Condvars, m \in Mutexes : sys_condvar_wait(t, c, m)
      PROVE  timers' = timers /\ now' = now
  BY <1>6, Zenon DEF resume, resume_locks, resume_granted, sys_yield, sys_exit, sys_thread_create,
              sys_mutex_lock, sys_mutex_unlock, unlock_panics, sys_semaphore_up,
              sys_semaphore_down, sys_condvar_signal, sys_condvar_wait, syncVars
<1>7. ASSUME idle \/ idle_empty \/ UNCHANGED vars PROVE timers' = timers /\ now' = now
  BY <1>7, Zenon DEF idle, idle_empty, vars, syncVars
<1>8. QED
  BY <1>2, <1>3, <1>4, <1>5, <1>6, <1>7 DEF Next

\* The loop of check_timer, which stops at the first top of the heap that is in
\* the future, pops exactly the entries whose time has come.
LEMMA CheckTimerExact ==
    ASSUME TypeInv, TimerInv
    PROVE  check_timer(now) = {x \in timers : x.expire_ms <= now}
<1>1. \A x \in timers : x.expire_ms \in Nat /\ 2 * x.expire_ms < WordMod
  BY SyncAssumption DEF TypeInv, TypeOK, TimerInv
<1>2. now \in Nat /\ WordMod \in Nat
  BY SyncAssumption DEF TypeInv, TypeOK
<1>3. \A x \in timers : heap_key(x.expire_ms) = -x.expire_ms
  BY <1>1, <1>2 DEF heap_key, as_isize
<1>4. \A x, y \in timers : heap_key(y.expire_ms) >= heap_key(x.expire_ms) <=> y.expire_ms <= x.expire_ms
  BY <1>1, <1>3
<1>5. ASSUME NEW x \in timers
      PROVE  (\A y \in timers : heap_key(y.expire_ms) >= heap_key(x.expire_ms) => y.expire_ms <= now)
                <=> x.expire_ms <= now
  BY <1>1, <1>2, <1>4
<1>6. QED
  BY <1>5 DEF check_timer

\* Whatever the order of the heap, the timer interrupt wakes all sleepers whose
\* time has come and no other, provided that no sleep reaches half of usize.
THEOREM TimerWakesExactly ==
    ASSUME ShortSleeps
    PROVE  Spec => TimerExact
<1>1. Init => TimerInv
  BY SyncAssumption DEF Init, TimerInv
<1>2. TypeInv /\ TimerInv /\ [Next]_vars => TimerInv'
  BY NextTimer
<1>3. TypeInv /\ TimerInv =>
        [(\E t \in Threads : timer_interrupt(t)) => timers' = {x \in timers : x.expire_ms > now}]_vars
  <2> SUFFICES ASSUME TypeInv, TimerInv, NEW t \in Threads, timer_interrupt(t)
               PROVE  timers' = {x \in timers : x.expire_ms > now}
    OBVIOUS
  <2>1. timers' = timers \ check_timer(now)
    BY Zenon DEF timer_interrupt
  <2>2. \A x \in timers : x.expire_ms \in Nat /\ now \in Nat
    BY SyncAssumption DEF TypeInv, TypeOK
  <2>3. \A x \in timers : x.expire_ms > now <=> ~(x.expire_ms <= now)
    BY <2>2
  <2>4. QED
    BY <2>1, <2>3, CheckTimerExact
<1>4. QED
  BY <1>1, <1>2, <1>3, InitType, NextType, PTL DEF Spec, TimerExact

(***************************************************************************)
(* Mutexes.  Mutual exclusion is not inductive: a waiter that unlock() has *)
(* handed the mutex owns nothing until it runs.  The invariant counts it   *)
(* as a claimant and says that a mutex is locked exactly when it has one.  *)
(***************************************************************************)
QueueInv ==
    /\ \A m \in Mutexes : \A t \in Waiting(m) : cont[t] = Granted(m)
    /\ \A m \in Mutexes : wait_queue[m] # <<>> => locked[m]

ClaimInv ==
    /\ ~panicked
    /\ \A m \in Mutexes : locked[m] <=> \E t \in Threads : Claims(t, m)
    /\ \A m \in Mutexes, t, u \in Threads : Claims(t, m) /\ Claims(u, m) => t = u

MutexInv == QueueInv /\ (Disciplined => ClaimInv)

\* The continuations differ in their tags.
LEMMA ContTags ==
    \A m, n : /\ Granted(m) = Granted(n) => m = n
              /\ Granted(m) # InUser /\ Granted(m) # Spinning(n) /\ Granted(m) # Relock(n)
              /\ InUser.pc = "user" /\ Granted(m).pc = "granted"
              /\ Spinning(m).pc = "spin" /\ Relock(m).pc = "relock"
              /\ Granted(m).m = m /\ Spinning(m).m = m /\ Relock(m).m = m
  BY DEF Granted, InUser, Spinning, Relock

\* A thread that is to lock a mutex when it runs again names a mutex.
LEMMA ResumedMutex ==
    ASSUME NEW t \in Threads, cont \in [Threads -> Conts], cont[t].pc # "user"
    PROVE  cont[t].m \in Mutexes
  BY DEF Conts, InUser

\* Steps that leave the mutexes, their queues, the ownership and the
\* continuations alone keep the invariant.
LEMMA MutexStutter ==
    ASSUME MutexInv, UNCHANGED <<cont, locked, owns, panicked>>,
           \A m \in Mutexes : wait_queue'[m] = wait_queue[m]
    PROVE  MutexInv'
<1>1. \A m \in Mutexes : Waiting(m)' = Waiting(m)
  BY DEF Waiting
<1>2. \A m \in Mutexes, t \in Threads : Claims(t, m)' <=> Claims(t, m)
  BY <1>1 DEF Claims
<1>3. QueueInv'
  BY <1>1 DEF MutexInv, QueueInv
<1>4. ASSUME Disciplined PROVE ClaimInv'
  BY <1>2, <1>4 DEF MutexInv, ClaimInv
<1>5. QED
  BY <1>3, <1>4 DEF MutexInv

\* A running thread is in no wait queue.
LEMMA RunningDoesNotWait ==
    ASSUME OnePlace, NEW t \in Threads, current = t, NEW o \in Objects
    PROVE  t \notin Waiting(o)
  BY DEF OnePlace, Placed, Waiting

\* lock() in its three outcomes.
LEMMA LockMutex ==
    ASSUME TypeInv, OnePlace, MutexInv, NEW t \in Threads, NEW m \in Mutexes,
           current = t, cont[t].pc # "granted", lock(t, m), UNCHANGED panicked
    PROVE  MutexInv'
<1>1. /\ cont \in [Threads -> Conts]
      /\ locked \in [Mutexes -> BOOLEAN]
      /\ wait_queue \in [Objects -> Seq(Threads)]
      /\ owns \in [Threads -> SUBSET Mutexes]
      /\ m \in Objects /\ Mutexes \subseteq Objects
  BY DEF TypeInv, TypeOK, Objects
<1>2. \A n \in Mutexes : cont[t] # Granted(n) /\ t \notin Waiting(n)
  BY <1>1, ContTags, RunningDoesNotWait
<1>3. CASE lock_free(t, m)
  <2>1. \A n \in Mutexes : Waiting(n)' = Waiting(n) /\ wait_queue'[n] = wait_queue[n]
    BY <1>3 DEF lock_free, Waiting
  <2>2. \A u \in Threads : u # t => cont'[u] = cont[u] /\ owns'[u] = owns[u]
    BY <1>1, <1>3 DEF lock_free
  <2>3. cont'[t] = InUser /\ owns'[t] = owns[t] \cup {m} /\ locked' = [locked EXCEPT ![m] = TRUE]
    BY <1>1, <1>3 DEF lock_free
  <2>4. QueueInv'
    <3>1. \A n \in Mutexes : Waiting(n) \subseteq Threads
      BY <1>1, RangeType DEF Waiting
    <3>2. QED
      BY <1>1, <1>2, <2>1, <2>2, <2>3, <3>1 DEF MutexInv, QueueInv
  <2>5. ASSUME Disciplined PROVE ClaimInv'
    <3>1. \A u \in Threads : ~Claims(u, m)
      BY <1>3, <2>5 DEF lock_free, MutexInv, ClaimInv
    <3>2. \A n \in Mutexes, u \in Threads : Claims(u, n)' <=> (Claims(u, n) \/ (u = t /\ n = m))
      BY <1>2, <2>1, <2>2, <2>3, ContTags DEF Claims
    <3>3. QED
      BY <1>1, <2>3, <2>5, <3>1, <3>2, Zenon DEF MutexInv, ClaimInv
  <2>6. QED
    BY <2>4, <2>5 DEF MutexInv
<1>4. CASE lock_spins(t, m)
  <2>1. \A n \in Mutexes : Waiting(n)' = Waiting(n) /\ wait_queue'[n] = wait_queue[n]
    BY <1>4 DEF lock_spins, Waiting
  <2>2. /\ \A u \in Threads : u # t => cont'[u] = cont[u]
        /\ cont'[t] = Spinning(m)
        /\ UNCHANGED <<locked, owns>>
    BY <1>1, <1>4 DEF lock_spins
  <2>3. \A n \in Mutexes : Waiting(n) \subseteq Threads
    BY <1>1, RangeType DEF Waiting
  <2>4. QueueInv'
    BY <1>2, <2>1, <2>2, <2>3 DEF MutexInv, QueueInv
  <2>5. \A n \in Mutexes, u \in Threads : Claims(u, n)' <=> Claims(u, n)
    BY <1>2, <2>1, <2>2, ContTags, Zenon DEF Claims
  <2>6. QED
    BY <2>2, <2>4, <2>5, Zenon DEF MutexInv, ClaimInv
<1>5. CASE lock_blocks(t, m)
  <2>1. \A n \in Mutexes : n # m => Waiting(n)' = Waiting(n) /\ wait_queue'[n] = wait_queue[n]
    BY <1>1, <1>5 DEF lock_blocks, Waiting
  <2>2. Waiting(m)' = Waiting(m) \cup {t}
    <3>1. wait_queue'[m] = Append(wait_queue[m], t) /\ wait_queue[m] \in Seq(Threads)
      BY <1>1, <1>5 DEF lock_blocks
    <3>2. QED
      BY <3>1, RangeAppend DEF Waiting
  <2>3. /\ \A u \in Threads : u # t => cont'[u] = cont[u]
        /\ cont'[t] = Granted(m)
        /\ locked[m]
        /\ UNCHANGED <<locked, owns>>
    BY <1>1, <1>5 DEF lock_blocks
  <2>4. \A n \in Mutexes : Waiting(n) \subseteq Threads
    BY <1>1, RangeType DEF Waiting
  <2>5. QueueInv'
    BY <1>2, <2>1, <2>2, <2>3, <2>4 DEF MutexInv, QueueInv
  <2>6. \A n \in Mutexes, u \in Threads : Claims(u, n)' <=> Claims(u, n)
    <3>1. \A n \in Mutexes, u \in Threads : u # t => (u \in Waiting(n)' <=> u \in Waiting(n))
      BY <2>1, <2>2
    <3>2. t \in Waiting(m)' /\ \A n \in Mutexes : n # m => cont'[t] # Granted(n)
      BY <2>2, <2>3, ContTags
    <3>3. QED
      BY <1>2, <2>3, <3>1, <3>2 DEF Claims
  <2>7. QED
    BY <2>3, <2>5, <2>6, Zenon DEF MutexInv, ClaimInv
<1>6. QED
  BY <1>3, <1>4, <1>5 DEF lock

\* unlock(), called by sys_mutex_unlock and by Condvar::wait.
LEMMA UnlockMutex ==
    ASSUME TypeInv, OnePlace, MutexInv, NEW t \in Threads, NEW m \in Mutexes,
           User(t), Disciplined => m \in owns[t],
           locked' = unlock(m),
           \A n \in Mutexes : wait_queue'[n] = pop_front(m)[n],
           owns' = [owns EXCEPT ![t] = @ \ {m}],
           \A u \in Threads : u # t => cont'[u] = cont[u],
           \A n \in Mutexes : cont'[t] # Granted(n),
           UNCHANGED panicked
    PROVE  MutexInv'
<1>1. /\ locked \in [Mutexes -> BOOLEAN]
      /\ wait_queue \in [Objects -> Seq(Threads)]
      /\ owns \in [Threads -> SUBSET Mutexes]
      /\ Mutexes \subseteq Objects
  BY DEF TypeInv, TypeOK, Objects
<1>2. \A n \in Mutexes : cont[t] # Granted(n) /\ t \notin Waiting(n)
  BY <1>1, ContTags, RunningDoesNotWait DEF User
<1>3. \A n \in Mutexes : n # m => wait_queue'[n] = wait_queue[n] /\ Waiting(n)' = Waiting(n)
                                  /\ locked'[n] = locked[n]
  BY <1>1, Zenon DEF pop_front, unlock, Waiting
<1>4. \A n \in Mutexes : Waiting(n) \subseteq Threads
  BY <1>1, RangeType DEF Waiting
<1>5. CASE wait_queue[m] = <<>>
  <2>1. wait_queue'[m] = <<>> /\ Waiting(m)' = Waiting(m) /\ locked'[m] = FALSE
    BY <1>1, <1>5, Zenon DEF pop_front, unlock, Waiting
  <2>2. Waiting(m) = {}
    BY <1>5, RangeEmpty DEF Waiting
  <2>3. QueueInv'
    BY <1>2, <1>3, <1>4, <2>1, <2>2 DEF MutexInv, QueueInv
  <2>4. ASSUME Disciplined PROVE ClaimInv'
    <3>1. \A n \in Mutexes, u \in Threads : Claims(u, n)' <=> (Claims(u, n) /\ ~(u = t /\ n = m))
      BY <1>1, <1>2, <1>3, <2>1 DEF Claims
    <3>2. ClaimInv
      BY <2>4 DEF MutexInv
    <3>3. \A u \in Threads : Claims(u, m) => u = t
      BY <2>4, <3>2 DEF ClaimInv, Claims
    <3>4. ASSUME NEW n \in Mutexes
          PROVE  locked'[n] <=> \E u \in Threads : Claims(u, n)'
      <4>1. CASE n = m
        BY <2>1, <3>1, <3>3, <4>1, Zenon
      <4>2. CASE n # m
        BY <1>3, <3>1, <3>2, <4>2, Zenon DEF ClaimInv
      <4>3. QED
        BY <4>1, <4>2
    <3>5. \A n \in Mutexes, u, v \in Threads : Claims(u, n)' /\ Claims(v, n)' => u = v
      BY <3>1, <3>2, Zenon DEF ClaimInv
    <3>6. ~panicked'
      BY <3>2 DEF ClaimInv
    <3>7. QED
      BY <3>4, <3>5, <3>6, Zenon DEF ClaimInv
  <2>5. QED
    BY <2>3, <2>4 DEF MutexInv
<1>6. CASE wait_queue[m] # <<>>
  <2> DEFINE h == Head(wait_queue[m])
  <2>1. wait_queue'[m] = Tail(wait_queue[m]) /\ locked'[m] = TRUE
    BY <1>1, <1>6, Zenon DEF pop_front, unlock
  <2>2. IsInjective(wait_queue[m])
    BY <1>1, Zenon DEF OnePlace, Placed
  <2>3. h \in Waiting(m) /\ Waiting(m)' = Waiting(m) \ {h}
    BY <1>1, <1>6, <2>1, <2>2, RangeTail DEF Waiting
  <2>4. h \in Threads /\ h # t /\ cont[h] = Granted(m) /\ cont'[h] = Granted(m)
    BY <1>2, <1>4, <2>3 DEF MutexInv, QueueInv
  <2> HIDE DEF h
  <2>5. QueueInv'
    BY <1>2, <1>3, <1>4, <2>1, <2>3, Zenon DEF MutexInv, QueueInv
  <2>6. ASSUME Disciplined PROVE ClaimInv'
    <3>1. \A u \in Threads : Claims(u, m) => u = t
      BY <2>6, Zenon DEF MutexInv, ClaimInv, Claims
    <3>2. \A n \in Mutexes, u \in Threads : n # m => (Claims(u, n)' <=> Claims(u, n))
      BY <1>1, <1>2, <1>3, Zenon DEF Claims
    <3>3. \A u \in Threads : Claims(u, m)' <=> u = h
      BY <1>1, <1>2, <2>3, <2>4, <3>1, Zenon DEF Claims
    <3>4. ClaimInv
      BY <2>6 DEF MutexInv
    <3>5. ASSUME NEW n \in Mutexes
          PROVE  locked'[n] <=> \E u \in Threads : Claims(u, n)'
      <4>1. CASE n = m
        BY <2>1, <2>4, <3>3, <4>1
      <4>2. CASE n # m
        BY <1>3, <3>2, <3>4, <4>2, Zenon DEF ClaimInv
      <4>3. QED
        BY <4>1, <4>2
    <3>6. ASSUME NEW n \in Mutexes, NEW u \in Threads, NEW v \in Threads, Claims(u, n)', Claims(v, n)'
          PROVE  u = v
      <4>1. CASE n = m
        BY <3>3, <3>6, <4>1, Zenon
      <4>2. CASE n # m
        BY <3>2, <3>4, <3>6, <4>2 DEF ClaimInv
      <4>3. QED
        BY <4>1, <4>2, Zenon
    <3>7. ~panicked'
      BY <3>4, Zenon DEF ClaimInv
    <3>8. QED
      BY <3>5, <3>6, <3>7, Zenon DEF ClaimInv
  <2>7. QED
    BY <2>5, <2>6 DEF MutexInv
<1>7. QED
  BY <1>5, <1>6

\* Init: nothing is locked and nobody claims anything.
LEMMA InitMutex == Init => MutexInv
<1> SUFFICES ASSUME Init PROVE MutexInv
  OBVIOUS
<1>1. \A m \in Mutexes : wait_queue[m] = <<>> /\ Waiting(m) = {} /\ locked[m] = FALSE
  BY RangeEmpty DEF Init, Objects, Waiting
<1>2. \A m \in Mutexes, t \in Threads : ~Claims(t, m)
  BY ContTags, Zenon DEF Init, Claims
<1>3. ~panicked
  BY DEF Init
<1>4. QED
  BY <1>1, <1>2, <1>3 DEF MutexInv, QueueInv, ClaimInv

\* Every step keeps the invariant of the mutexes.
LEMMA NextMutex == TypeInv /\ OnePlace /\ MutexInv /\ [Next]_vars => MutexInv'
<1> SUFFICES ASSUME TypeInv, OnePlace, MutexInv, [Next]_vars PROVE MutexInv'
  OBVIOUS
<1>a. /\ cont \in [Threads -> Conts]
      /\ wait_queue \in [Objects -> Seq(Threads)]
      /\ Mutexes \subseteq Objects
      /\ owns \in [Threads -> SUBSET Mutexes]
  BY DEF TypeInv, TypeOK, Objects
<1>b. \A m \in Mutexes : m \notin Sems /\ m \notin Condvars
  BY SyncAssumption, Zenon
<1>1. CASE idle \/ idle_empty
  BY <1>1, MutexStutter DEF idle, idle_empty, syncVars
<1>2. CASE tick
  BY <1>2, MutexStutter DEF tick
<1>3. ASSUME NEW t \in Threads, resume_locks(t)
      PROVE  MutexInv'
  <2>1. cont[t].m \in Mutexes
    BY <1>3, <1>a, ResumedMutex DEF resume_locks
  <2>2. QED
    BY <1>3, <2>1, LockMutex DEF resume_locks
<1>4. ASSUME NEW t \in Threads, resume_granted(t)
      PROVE  MutexInv'
  <2>1. PICK m \in Mutexes : cont[t] = Granted(m)
    BY <1>4, <1>a DEF resume_granted, Conts, InUser, Granted
  <2>2. cont[t].m = m
    BY <2>1, ContTags
  <2>3. /\ owns' = [owns EXCEPT ![t] = @ \cup {m}]
        /\ cont' = [cont EXCEPT ![t] = InUser]
        /\ current = t
        /\ UNCHANGED <<locked, wait_queue, panicked>>
    BY <1>4, <2>2 DEF resume_granted
  <2>4. \A n \in Mutexes : t \notin Waiting(n) /\ Waiting(n)' = Waiting(n) /\ Waiting(n) \subseteq Threads
    BY <1>a, <2>3, RunningDoesNotWait, RangeType DEF Waiting
  <2>5. QueueInv'
    BY <1>a, <2>3, <2>4 DEF MutexInv, QueueInv
  <2>6. \A n \in Mutexes, u \in Threads : Claims(u, n)' <=> Claims(u, n)
    BY <1>a, <2>1, <2>3, <2>4, ContTags DEF Claims
  <2>7. QED
    BY <2>3, <2>5, <2>6 DEF MutexInv, ClaimInv
<1>5. ASSUME NEW t \in Threads,
             \/ timer_interrupt(t) \/ sys_yield(t) \/ sys_exit(t)
             \/ \E u \in Threads : sys_thread_create(t, u)
             \/ \E ms \in Delays : sys_sleep(t, ms)
      PROVE  MutexInv'
  BY <1>5, MutexStutter DEF timer_interrupt, sys_yield, sys_exit, sys_thread_create, sys_sleep, syncVars
<1>6. ASSUME NEW t \in Threads, NEW m \in Mutexes, sys_mutex_lock(t, m)
      PROVE  MutexInv'
  BY <1>6, LockMutex DEF sys_mutex_lock, Client, User
<1>7. ASSUME NEW t \in Threads, NEW m \in Mutexes, sys_mutex_unlock(t, m)
      PROVE  MutexInv'
  <2>1. \A n \in Mutexes : cont'[t] # Granted(n)
    BY <1>7, ContTags, Zenon DEF sys_mutex_unlock, Client, User
  <2>2. QED
    BY <1>7, <2>1, UnlockMutex, Zenon DEF sys_mutex_unlock, Client
<1>8. ASSUME NEW t \in Threads, NEW m \in Mutexes, unlock_panics(t, m)
      PROVE  MutexInv'
  <2>1. ~Disciplined
    <3>1. SUFFICES ASSUME Disciplined PROVE FALSE
      OBVIOUS
    <3>2. Claims(t, m)
      BY <1>8, <3>1 DEF unlock_panics, Claims
    <3>3. locked[m]
      BY <3>1, <3>2 DEF MutexInv, ClaimInv
    <3>4. QED
      BY <1>8, <3>3 DEF unlock_panics, unlock_asserts
  <2>2. QueueInv'
    BY <1>8 DEF unlock_panics, MutexInv, QueueInv, Waiting
  <2>3. QED
    BY <2>1, <2>2 DEF MutexInv
<1>9. ASSUME NEW t \in Threads, NEW s \in Sems, sys_semaphore_up(t, s) \/ sys_semaphore_down(t, s)
      PROVE  MutexInv'
  <2>1. \A m \in Mutexes : wait_queue'[m] = wait_queue[m]
    BY <1>9, <1>a, <1>b DEF sys_semaphore_up, sys_semaphore_down, pop_front
  <2>2. QED
    BY <1>9, <2>1, MutexStutter DEF sys_semaphore_up, sys_semaphore_down
<1>10. ASSUME NEW t \in Threads, NEW c \in Condvars, sys_condvar_signal(t, c)
       PROVE  MutexInv'
  <2>1. \A m \in Mutexes : wait_queue'[m] = wait_queue[m]
    BY <1>10, <1>a, <1>b DEF sys_condvar_signal, pop_front
  <2>2. QED
    BY <1>10, <2>1, MutexStutter, Zenon DEF sys_condvar_signal
<1>11. ASSUME NEW t \in Threads, NEW c \in Condvars, NEW m \in Mutexes,
              sys_condvar_wait(t, c, m)
       PROVE  MutexInv'
  <2>1. \A n \in Mutexes : wait_queue'[n] = pop_front(m)[n]
    BY <1>11, <1>a, <1>b, Zenon DEF sys_condvar_wait, pop_front
  <2>2. /\ \A u \in Threads : u # t => cont'[u] = cont[u]
        /\ \A n \in Mutexes : cont'[t] # Granted(n)
    BY <1>11, <1>a, ContTags DEF sys_condvar_wait
  <2>3. QED
    BY <1>11, <2>1, <2>2, UnlockMutex, Zenon DEF sys_condvar_wait, Client
<1>12. CASE UNCHANGED vars
  BY <1>12, MutexStutter DEF vars, syncVars
<1>13. QED
  BY <1>1, <1>2, <1>3, <1>4, <1>5, <1>6, <1>7, <1>8, <1>9, <1>10, <1>11, <1>12
     DEF Next, resume

SyncInv == TypeInv /\ OnePlace /\ MutexInv

\* SyncInv is an invariant.
LEMMA SyncInvariant == Spec => []SyncInv
<1>1. Init => SyncInv
  BY InitType, InitOnePlace, InitMutex DEF SyncInv
<1>2. SyncInv /\ [Next]_vars => SyncInv'
  BY NextType, NextOnePlace, NextMutex DEF SyncInv
<1>3. QED
  BY <1>1, <1>2, PTL DEF Spec

\* No two threads are in the critical section of a mutex, spinning or
\* blocking, if every program releases only the mutexes it holds.
THEOREM MutexExcludes == Spec => []MutualExclusion
<1>1. SyncInv => MutualExclusion
  BY Zenon DEF SyncInv, MutexInv, ClaimInv, Claims, MutualExclusion
<1>2. QED
  BY <1>1, SyncInvariant, PTL

\* A locked mutex has an owner or a thread that was handed it, and threads
\* wait only for locked mutexes.
THEOREM NoLostUnlock == Spec => []LockedHasClaimant
<1>1. SyncInv => LockedHasClaimant
  BY DEF SyncInv, MutexInv, QueueInv, ClaimInv, LockedHasClaimant
<1>2. QED
  BY <1>1, SyncInvariant, PTL

\* The assertion in MutexBlocking::unlock holds for such programs.
THEOREM UnlockNeverPanics == Spec => []NoPanic
<1>1. SyncInv => NoPanic
  BY DEF SyncInv, MutexInv, ClaimInv, NoPanic
<1>2. QED
  BY <1>1, SyncInvariant, PTL

\* A mutex gained by any step was free with nobody waiting, or handed over.
LEMMA BargingStep ==
    ASSUME SyncInv, [Next]_vars, NEW m \in Mutexes \ SpinMutexes, NEW t \in Threads,
           m \notin owns[t], m \in owns'[t], cont[t] # Granted(m)
    PROVE  wait_queue[m] = <<>>
<1>a. /\ owns \in [Threads -> SUBSET Mutexes]
      /\ cont \in [Threads -> Conts]
  BY Zenon DEF SyncInv, TypeInv, TypeOK
<1>1. ASSUME NEW u \in Threads, NEW n \in Mutexes, lock(u, n)
      PROVE  wait_queue[m] = <<>>
  <2>1. lock_free(u, n) /\ u = t /\ n = m
    BY <1>1, <1>a DEF lock, lock_free, lock_spins, lock_blocks
  <2>2. QED
    BY <2>1, Zenon DEF lock_free, SyncInv, MutexInv, QueueInv
<1>2. ASSUME NEW u \in Threads, resume_locks(u)
      PROVE  wait_queue[m] = <<>>
  <2>1. cont[u].m \in Mutexes
    BY <1>2, <1>a, ResumedMutex DEF resume_locks
  <2>2. QED
    BY <1>1, <1>2, <2>1, Zenon DEF resume_locks
<1>3. ASSUME NEW u \in Threads, resume_granted(u)
      PROVE  FALSE
  <2>1. u = t /\ cont[t].m = m
    BY <1>3, <1>a DEF resume_granted
  <2>2. cont[t] = Granted(m)
    BY <1>3, <1>a, <2>1 DEF resume_granted, Conts, InUser, Granted
  <2>3. QED
    BY <2>2
<1>4. ASSUME NEW u \in Threads, NEW n \in Mutexes, sys_mutex_lock(u, n)
      PROVE  wait_queue[m] = <<>>
  BY <1>1, <1>4 DEF sys_mutex_lock
<1>5. ASSUME NEW u \in Threads, NEW n \in Mutexes,
             \/ sys_mutex_unlock(u, n) \/ unlock_panics(u, n)
             \/ \E c \in Condvars : sys_condvar_wait(u, c, n)
      PROVE  FALSE
  BY <1>5, <1>a, Zenon DEF sys_mutex_unlock, unlock_panics, sys_condvar_wait
<1>6. ASSUME UNCHANGED owns PROVE FALSE
  BY <1>6
<1>7. ASSUME NEW u \in Threads,
             \/ timer_interrupt(u) \/ sys_yield(u) \/ sys_exit(u)
             \/ \E v \in Threads : sys_thread_create(u, v)
             \/ \E ms \in Delays : sys_sleep(u, ms)
             \/ \E s \in Sems : sys_semaphore_up(u, s) \/ sys_semaphore_down(u, s)
             \/ \E c \in Condvars : sys_condvar_signal(u, c)
      PROVE  UNCHANGED owns
  BY <1>7, Zenon DEF timer_interrupt, sys_yield, sys_exit, sys_thread_create, sys_sleep,
              sys_semaphore_up, sys_semaphore_down, sys_condvar_signal, syncVars
<1>8. ASSUME idle \/ idle_empty \/ tick \/ UNCHANGED vars
      PROVE  UNCHANGED owns
  BY <1>8, Zenon DEF idle, idle_empty, tick, vars, syncVars
<1>9. QED
  BY <1>2, <1>3, <1>4, <1>5, <1>6, <1>7, <1>8, Zenon DEF Next, resume

\* A lock() that finds a blocking mutex free overtakes nobody who waits.
THEOREM LockOvertakesNobody == Spec => NoBarging
<1>1. SyncInv /\ [Next]_vars =>
        [\A m \in Mutexes \ SpinMutexes, t \in Threads :
            (m \notin owns[t] /\ m \in owns'[t] /\ cont[t] # Granted(m)) => wait_queue[m] = <<>>]_vars
  BY BargingStep
<1>2. QED
  BY <1>1, SyncInvariant, PTL DEF Spec, NoBarging

(***************************************************************************)
(* Semaphores.                                                             *)
(***************************************************************************)

\* up() and down() keep count and wait queue in step; no other step touches
\* a semaphore.
LEMMA NextSemaphore == TypeInv /\ SemaphoreAccounting /\ [Next]_vars => SemaphoreAccounting'
<1> SUFFICES ASSUME TypeInv, SemaphoreAccounting, [Next]_vars, NEW s \in Sems
             PROVE  Len(wait_queue'[s]) = IF count'[s] < 0 THEN -count'[s] ELSE 0
  BY Zenon DEF SemaphoreAccounting
<1>a. /\ wait_queue \in [Objects -> Seq(Threads)]
      /\ count \in [Sems -> Int]
      /\ Sems \subseteq Objects /\ Mutexes \subseteq Objects /\ Condvars \subseteq Objects
  BY DEF TypeInv, TypeOK, Objects
<1>b. s \notin Mutexes /\ s \notin Condvars
  BY SyncAssumption, Zenon
<1>c. /\ Len(wait_queue[s]) = IF count[s] < 0 THEN -count[s] ELSE 0
      /\ wait_queue[s] \in Seq(Threads)
      /\ count[s] \in Int
  BY <1>a DEF SemaphoreAccounting
<1>d. ASSUME wait_queue'[s] = wait_queue[s], count'[s] = count[s]
      PROVE  Len(wait_queue'[s]) = IF count'[s] < 0 THEN -count'[s] ELSE 0
  BY <1>c, <1>d, Zenon
<1>1. ASSUME idle \/ idle_empty \/ tick \/ UNCHANGED vars
      PROVE  wait_queue'[s] = wait_queue[s] /\ count'[s] = count[s]
  BY <1>1, Zenon DEF idle, idle_empty, tick, vars, syncVars
<1>2. ASSUME NEW t \in Threads, NEW m \in Mutexes, lock(t, m)
      PROVE  wait_queue'[s] = wait_queue[s]
  BY <1>2, <1>a, <1>b DEF lock, lock_free, lock_spins, lock_blocks
<1>3. ASSUME NEW t \in Threads, resume(t)
      PROVE  wait_queue'[s] = wait_queue[s] /\ count'[s] = count[s]
  <2>1. CASE resume_locks(t)
    <3>1. cont[t].m \in Mutexes
      BY <2>1 DEF resume_locks, TypeInv, TypeOK, Conts, InUser
    <3>2. QED
      BY <1>2, <2>1, <3>1 DEF resume_locks
  <2>2. QED
    BY <1>3, <2>1 DEF resume, resume_granted
<1>4. ASSUME NEW t \in Threads,
             \/ timer_interrupt(t) \/ sys_yield(t) \/ sys_exit(t)
             \/ \E u \in Threads : sys_thread_create(t, u)
             \/ \E ms \in Delays : sys_sleep(t, ms)
      PROVE  wait_queue'[s] = wait_queue[s] /\ count'[s] = count[s]
  BY <1>4, Zenon DEF timer_interrupt, sys_yield, sys_exit, sys_thread_create, sys_sleep, syncVars
<1>5. ASSUME NEW t \in Threads, NEW m \in Mutexes,
             sys_mutex_lock(t, m) \/ sys_mutex_unlock(t, m) \/ unlock_panics(t, m)
      PROVE  wait_queue'[s] = wait_queue[s] /\ count'[s] = count[s]
  BY <1>2, <1>5, <1>a, <1>b, Zenon DEF sys_mutex_lock, sys_mutex_unlock, unlock_panics, pop_front
<1>6. ASSUME NEW t \in Threads, NEW c \in Condvars,
             sys_condvar_signal(t, c) \/ \E m \in Mutexes : sys_condvar_wait(t, c, m)
      PROVE  wait_queue'[s] = wait_queue[s] /\ count'[s] = count[s]
  BY <1>6, <1>a, <1>b DEF sys_condvar_signal, sys_condvar_wait, pop_front
<1>7. ASSUME NEW t \in Threads, NEW r \in Sems, sys_semaphore_up(t, r)
      PROVE  Len(wait_queue'[s]) = IF count'[s] < 0 THEN -count'[s] ELSE 0
  <2>1. CASE r # s
    <3>1. wait_queue'[s] = wait_queue[s] /\ count'[s] = count[s]
      BY <1>7, <1>a, <2>1 DEF sys_semaphore_up, pop_front
    <3>2. QED
      BY <3>1, <1>d
  <2>2. CASE r = s
    <3>1. count'[s] = count[s] + 1
      BY <1>7, <1>a, <2>2 DEF sys_semaphore_up
    <3>2. CASE count'[s] <= 0
      <4>1. Len(wait_queue[s]) > 0 /\ wait_queue[s] # <<>>
        BY <1>c, <3>1, <3>2
      <4>2. wait_queue'[s] = Tail(wait_queue[s])
        BY <1>7, <1>a, <2>2, <3>2, <4>1, Zenon DEF sys_semaphore_up, pop_front
      <4>3. Len(wait_queue'[s]) = Len(wait_queue[s]) - 1
        BY <1>c, <4>1, <4>2
      <4>4. QED
        BY <1>c, <3>1, <3>2, <4>3
    <3>3. CASE ~(count'[s] <= 0)
      <4>1. wait_queue'[s] = wait_queue[s]
        BY <1>7, <2>2, <3>3 DEF sys_semaphore_up
      <4>2. QED
        BY <1>c, <3>1, <3>3, <4>1
    <3>4. QED
      BY <3>2, <3>3
  <2>3. QED
    BY <2>1, <2>2
<1>8. ASSUME NEW t \in Threads, NEW r \in Sems, sys_semaphore_down(t, r)
      PROVE  Len(wait_queue'[s]) = IF count'[s] < 0 THEN -count'[s] ELSE 0
  <2>1. CASE r # s
    <3>1. wait_queue'[s] = wait_queue[s] /\ count'[s] = count[s]
      BY <1>8, <1>a, <2>1 DEF sys_semaphore_down
    <3>2. QED
      BY <3>1, <1>d
  <2>2. CASE r = s
    <3>1. count'[s] = count[s] - 1
      BY <1>8, <1>a, <2>2 DEF sys_semaphore_down
    <3>2. CASE count'[s] < 0
      <4>1. wait_queue'[s] = Append(wait_queue[s], t)
        BY <1>8, <1>a, <2>2, <3>2 DEF sys_semaphore_down
      <4>2. Len(wait_queue'[s]) = Len(wait_queue[s]) + 1
        BY <1>c, <4>1
      <4>3. QED
        BY <1>c, <3>1, <3>2, <4>2
    <3>3. CASE ~(count'[s] < 0)
      <4>1. wait_queue'[s] = wait_queue[s]
        BY <1>8, <2>2, <3>3 DEF sys_semaphore_down
      <4>2. QED
        BY <1>c, <3>1, <3>3, <4>1
    <3>4. QED
      BY <3>2, <3>3
  <2>3. QED
    BY <2>1, <2>2
<1>9. QED
  BY <1>d, <1>1, <1>3, <1>4, <1>5, <1>6, <1>7, <1>8, Zenon DEF Next

\* A negative count is the number of waiters of the semaphore.
THEOREM SemaphoresCount == Spec => []SemaphoreAccounting
<1>1. Init => SemaphoreAccounting
  <2>1. \A s \in Sems : InitCount[s] \in Nat
    BY SyncAssumption
  <2>2. QED
    BY <2>1 DEF Init, SemaphoreAccounting, Objects
<1>2. QED
  BY <1>1, InitType, NextType, NextSemaphore, PTL DEF Spec

=============================================================================
