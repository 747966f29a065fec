-------------------------- MODULE ThreadLifeProofs ---------------------------
(***************************************************************************)
(* Proofs about ThreadLife for any number of threads, any exit codes and   *)
(* any arguments of sys_waittid.                                           *)
(***************************************************************************)
EXTENDS ThreadLife, DataStructureProofs

\* The strengthening: the allocator's value is sound, a thread is in the table
\* at most once and only when it has been created, and one that has not been
\* created has neither a tid nor an exit code.
Slots ==
    /\ AllocatorOK(task_res_allocator)
    /\ \A i \in DOMAIN tasks : tasks[i] \in born \cup {NoTask}
    /\ \A i, j \in DOMAIN tasks : tasks[i] = tasks[j] /\ tasks[i] # NoTask => i = j
    /\ \A t \in TCBs \ born : res[t] = NoTid /\ exit_code[t] = NoCode

LifeInv ==
    /\ TypeOK
    /\ Slots
    /\ LiveIndexed
    /\ ResExact
    /\ KernelChecksHold
    /\ WaitedOnce
    /\ ZombieClean

\* The state that ProcessControlBlock::new leaves.
LEMMA InitLife == Init => LifeInv
<1> SUFFICES ASSUME Init PROVE LifeInv
  OBVIOUS
<1> DEFINE al == alloc(new_allocator)
<1>1. alloc_id(new_allocator) = 0
  BY DEF alloc_id, new_allocator
<1>2. AllocatorOK(al) /\ InUse(al) = {0}
  BY <1>1, NewAllocator, AllocFresh
<1>3. al \in [current : Nat, recycled : Seq(Nat)]
  BY <1>2 DEF AllocatorOK
<1>4. /\ Main \in TCBs /\ NoTask \notin TCBs
      /\ NoTid \notin Nat /\ NoCode \notin Codes
  BY LifeAssumption
<1>5. /\ task_res_allocator = al
      /\ tasks = [i \in {0} |-> Main]
      /\ res = [t \in TCBs |-> IF t = Main THEN 0 ELSE NoTid]
      /\ exit_code = [t \in TCBs |-> NoCode]
      /\ areas = {0} /\ is_zombie = FALSE /\ kernel = "running"
      /\ born = {Main} /\ waited = {}
  BY <1>1 DEF Init
<1> HIDE DEF al
<1>6. Live = {Main} /\ res[Main] = 0
  BY <1>4, <1>5 DEF Live
<1>7. TypeOK
  <2>1. DOMAIN tasks = {0} /\ tasks \in [{0} -> TCBs \cup {NoTask}]
    BY <1>4, <1>5
  <2>2. res \in [TCBs -> Nat \cup {NoTid}] /\ exit_code \in [TCBs -> Codes \cup {NoCode}]
    BY <1>5
  <2>3. DOMAIN tasks \subseteq Nat /\ areas \subseteq Nat
    BY <1>5, <2>1
  <2>4. QED
    BY <1>3, <1>4, <1>5, <2>1, <2>2, <2>3 DEF TypeOK
<1>8. Slots
  BY <1>2, <1>4, <1>5 DEF Slots
<1>9. LiveIndexed
  BY <1>4, <1>5, <1>6 DEF LiveIndexed
<1>10. {res[t] : t \in Live} = {0}
  BY <1>6
<1>11. ResExact
  BY <1>2, <1>5, <1>10 DEF ResExact
<1>12. KernelChecksHold /\ WaitedOnce /\ ZombieClean
  BY <1>5 DEF KernelChecksHold, WaitedOnce, ZombieClean
<1>13. QED
  BY <1>7, <1>8, <1>9, <1>11, <1>12 DEF LifeInv

\* A step that changes nothing.
LEMMA StutterLife == LifeInv /\ UNCHANGED lifeVars => LifeInv'
<1> SUFFICES ASSUME LifeInv, UNCHANGED lifeVars PROVE LifeInv'
  OBVIOUS
<1>1. Live' = Live
  BY DEF lifeVars, Live
<1>2. TypeOK' /\ KernelChecksHold' /\ WaitedOnce'
  BY DEF LifeInv, lifeVars, TypeOK, KernelChecksHold, WaitedOnce
<1>3. Slots' /\ LiveIndexed'
  BY <1>1 DEF LifeInv, lifeVars, Slots, LiveIndexed
<1>4. ResExact' /\ ZombieClean'
  BY <1>1 DEF LifeInv, lifeVars, ResExact, ZombieClean
<1>5. QED
  BY <1>2, <1>3, <1>4 DEF LifeInv

\* What is known of a thread that runs.
LEMMA RunsFacts ==
    ASSUME LifeInv, NEW t \in TCBs, Runs(t)
    PROVE  /\ kernel = "running"
           /\ t \in Live /\ t \in born
           /\ res[t] \in DOMAIN tasks /\ tasks[res[t]] = t
           /\ res[t] \in Nat
           /\ res[t] \in InUse(task_res_allocator)
           /\ ~is_zombie
<1>1. kernel = "running" /\ t \in Live /\ t \in born
  BY DEF Runs, LifeInv, LiveIndexed
<1>2. res[t] \in DOMAIN tasks /\ tasks[res[t]] = t
  BY <1>1 DEF LifeInv, LiveIndexed
<1>3. res[t] \in Nat
  BY <1>2 DEF LifeInv, TypeOK
<1>4. res[t] \in InUse(task_res_allocator)
  BY <1>1 DEF LifeInv, ResExact
<1>5. ~is_zombie
  BY <1>1 DEF LifeInv, ZombieClean
<1>6. QED
  BY <1>1, <1>2, <1>3, <1>4, <1>5

\* A panic that no assertion of the allocator or the page table causes.
LEMMA PanicLife ==
    ASSUME LifeInv, NEW why \in {"out of bounds", "thread_count"}, panic(why)
    PROVE  LifeInv'
  BY DEF panic, LifeInv, TypeOK, Panics, Slots, LiveIndexed, ResExact, KernelChecksHold,
         WaitedOnce, ZombieClean, Live

\* sys_thread_create
LEMMA CreateLife ==
    ASSUME LifeInv, NEW t \in TCBs, NEW u \in TCBs, sys_thread_create(t, u)
    PROVE  LifeInv'
<1> DEFINE tid == alloc_id(task_res_allocator)
           al == alloc(task_res_allocator)
<1>1. Runs(t) /\ u \in TCBs \ born
  BY DEF sys_thread_create
<1>2. kernel = "running" /\ ~is_zombie
  BY <1>1, RunsFacts
<1>3. /\ AllocatorOK(task_res_allocator)
      /\ InUse(task_res_allocator) = {res[x] : x \in Live}
      /\ areas = {res[x] : x \in Live}
  BY <1>2 DEF LifeInv, Slots, ResExact
<1>4. /\ tid \in Nat
      /\ tid \notin areas
      /\ AllocatorOK(al)
      /\ InUse(al) = areas \cup {tid}
  BY <1>3, AllocFresh
<1>5. al \in [current : Nat, recycled : Seq(Nat)]
  BY <1>4 DEF AllocatorOK
<1>6. /\ task_res_allocator' = al
      /\ res' = [res EXCEPT ![u] = tid]
      /\ areas' = areas \cup {tid}
      /\ tasks' = tasks_with(u, tid)
      /\ born' = born \cup {u}
      /\ UNCHANGED <<exit_code, is_zombie, kernel, waited>>
  BY <1>4 DEF sys_thread_create
<1>7. /\ NoTask \notin TCBs /\ NoTid \notin Nat /\ NoCode \notin Codes
  BY LifeAssumption
<1> HIDE DEF tid, al
<1>8. /\ DOMAIN tasks' = DOMAIN tasks \cup 0 .. tid
      /\ tid \in DOMAIN tasks'
      /\ tasks'[tid] = u
      /\ \A i \in DOMAIN tasks : i # tid => tasks'[i] = tasks[i]
      /\ \A i \in DOMAIN tasks' : i # tid /\ i \notin DOMAIN tasks => tasks'[i] = NoTask
  BY <1>4, <1>6 DEF tasks_with
<1>9. /\ res \in [TCBs -> Nat \cup {NoTid}] /\ exit_code \in [TCBs -> Codes \cup {NoCode}]
      /\ born \subseteq TCBs /\ waited \subseteq born /\ DOMAIN tasks \subseteq Nat
      /\ areas \subseteq Nat /\ kernel \in Panics \cup {"running"} /\ is_zombie \in BOOLEAN
      /\ \A i \in DOMAIN tasks : tasks[i] \in TCBs \cup {NoTask}
  BY DEF LifeInv, TypeOK
<1>10. /\ res'[u] = tid
       /\ \A x \in TCBs : x # u => res'[x] = res[x]
       /\ res' \in [TCBs -> Nat \cup {NoTid}]
  BY <1>4, <1>6, <1>9
<1>11. Live' = Live \cup {u} /\ u \notin Live
  BY <1>1, <1>4, <1>6, <1>7, <1>9, <1>10 DEF Live
<1>12. TypeOK'
  <2>1. DOMAIN tasks' \subseteq Nat
    BY <1>4, <1>8, <1>9
  <2>2. \A i \in DOMAIN tasks' : tasks'[i] \in TCBs \cup {NoTask}
    BY <1>8, <1>9
  <2>3. tasks' \in [DOMAIN tasks' -> TCBs \cup {NoTask}]
    BY <1>6, <2>2 DEF tasks_with
  <2>4. QED
    BY <1>4, <1>5, <1>6, <1>9, <1>10, <2>1, <2>3 DEF TypeOK
<1>13. Slots'
  <2>1. /\ \A i \in DOMAIN tasks : tasks[i] \in born \cup {NoTask}
        /\ \A i, j \in DOMAIN tasks : tasks[i] = tasks[j] /\ tasks[i] # NoTask => i = j
        /\ \A x \in TCBs \ born : res[x] = NoTid /\ exit_code[x] = NoCode
    BY DEF LifeInv, Slots
  <2>2. \A i \in DOMAIN tasks' : tasks'[i] \in born' \cup {NoTask}
    BY <1>6, <1>8, <2>1
  <2>3. \A i \in DOMAIN tasks' : tasks'[i] # NoTask /\ i # tid =>
            i \in DOMAIN tasks /\ tasks'[i] = tasks[i] /\ tasks'[i] # u
    BY <1>1, <1>7, <1>8, <2>1
  <2>4. \A i, j \in DOMAIN tasks' : tasks'[i] = tasks'[j] /\ tasks'[i] # NoTask => i = j
    BY <1>8, <2>1, <2>3
  <2>5. \A x \in TCBs \ born' : res'[x] = NoTid /\ exit_code'[x] = NoCode
    BY <1>6, <1>10, <2>1
  <2>6. AllocatorOK(task_res_allocator')
    BY <1>4, <1>6
  <2>7. QED
    BY <2>2, <2>4, <2>5, <2>6 DEF Slots
<1>14. LiveIndexed'
  <2>1. \A x \in Live : res[x] \in DOMAIN tasks /\ tasks[res[x]] = x /\ res[x] # tid
    BY <1>3, <1>4 DEF LifeInv, LiveIndexed
  <2>2. \A x \in Live : x \in TCBs /\ x # u
    BY <1>9, <1>11 DEF Live
  <2>3. \A x \in Live' : res'[x] \in DOMAIN tasks' /\ tasks'[res'[x]] = x
    BY <1>8, <1>10, <1>11, <2>1, <2>2
  <2>4. \A x \in born' : exit_code'[x] = NoCode <=> x \in Live'
    BY <1>1, <1>6, <1>11 DEF LifeInv, LiveIndexed, Slots
  <2>5. QED
    BY <2>3, <2>4 DEF LiveIndexed
<1>15. ResExact'
  <2>1. \A x \in Live : x \in TCBs /\ x # u
    BY <1>9, <1>11 DEF Live
  <2>2. {res'[x] : x \in Live'} = {res[x] : x \in Live} \cup {tid}
    BY <1>10, <1>11, <2>1
  <2>3. QED
    BY <1>3, <1>4, <1>6, <2>2 DEF ResExact
<1>16. KernelChecksHold' /\ ZombieClean'
  BY <1>2, <1>6 DEF LifeInv, KernelChecksHold, ZombieClean
<1>17. WaitedOnce'
  BY <1>1, <1>6, <1>7, <1>8, <1>9 DEF LifeInv, WaitedOnce
<1>18. QED
  BY <1>12, <1>13, <1>14, <1>15, <1>16, <1>17 DEF LifeInv

\* exit_thread and exit_process up to the point where the thread has dropped
\* its TaskUserRes; A is what becomes of the areas.
LEMMA ExitLife ==
    ASSUME LifeInv, NEW t \in TCBs, NEW code \in Codes, Runs(t),
           task_res_allocator' = dealloc(task_res_allocator, res[t]),
           res' = [res EXCEPT ![t] = NoTid],
           exit_code' = [exit_code EXCEPT ![t] = code],
           UNCHANGED <<tasks, born, waited>>
    PROVE  /\ Live' = Live \ {t}
           /\ InUse(task_res_allocator') = {res'[x] : x \in Live'}
           /\ areas \ {res[t]} = {res'[x] : x \in Live'}
           /\ task_res_allocator' \in [current : Nat, recycled : Seq(Nat)]
           /\ res' \in [TCBs -> Nat \cup {NoTid}]
           /\ exit_code' \in [TCBs -> Codes \cup {NoCode}]
           /\ Slots' /\ LiveIndexed' /\ WaitedOnce'
<1> DEFINE al == dealloc(task_res_allocator, res[t])
<1>1. /\ kernel = "running"
      /\ t \in Live /\ t \in born
      /\ res[t] \in DOMAIN tasks /\ tasks[res[t]] = t
      /\ res[t] \in InUse(task_res_allocator)
  BY RunsFacts
<1>2. /\ AllocatorOK(task_res_allocator)
      /\ InUse(task_res_allocator) = {res[x] : x \in Live}
      /\ areas = {res[x] : x \in Live}
  BY <1>1 DEF LifeInv, Slots, ResExact
<1>3. AllocatorOK(al) /\ InUse(al) = InUse(task_res_allocator) \ {res[t]}
  BY <1>1, <1>2, DeallocTakesBack
<1>4. al \in [current : Nat, recycled : Seq(Nat)]
  BY <1>3 DEF AllocatorOK
<1> HIDE DEF al
<1>5. task_res_allocator' = al
  BY DEF al
<1>6. /\ res \in [TCBs -> Nat \cup {NoTid}] /\ exit_code \in [TCBs -> Codes \cup {NoCode}]
      /\ born \subseteq TCBs
  BY DEF LifeInv, TypeOK
<1>7. NoTid \notin Nat /\ NoCode \notin Codes
  BY LifeAssumption
<1>8. /\ res'[t] = NoTid /\ exit_code'[t] = code
      /\ \A x \in TCBs : x # t => res'[x] = res[x] /\ exit_code'[x] = exit_code[x]
      /\ res' \in [TCBs -> Nat \cup {NoTid}]
      /\ exit_code' \in [TCBs -> Codes \cup {NoCode}]
  BY <1>6
<1>9. Live' = Live \ {t}
  BY <1>6, <1>8 DEF Live
<1>10. \A x \in Live : x \in TCBs /\ x \in born
  BY <1>6 DEF Live
<1>11. \A x, y \in Live : res[x] = res[y] => x = y
  BY DEF LifeInv, LiveIndexed
<1>12. {res'[x] : x \in Live'} = {res[x] : x \in Live} \ {res[t]}
  <2>1. \A x \in Live' : res'[x] = res[x] /\ x \in Live /\ res[x] # res[t]
    BY <1>1, <1>8, <1>9, <1>10, <1>11
  <2>2. \A x \in Live : res[x] # res[t] => x \in Live' /\ res'[x] = res[x]
    BY <1>8, <1>9, <1>10
  <2>3. QED
    BY <2>1, <2>2
<1>13. LiveIndexed'
  <2>1. \A x \in Live' : res'[x] \in DOMAIN tasks' /\ tasks'[res'[x]] = x
    BY <1>8, <1>9, <1>10 DEF LifeInv, LiveIndexed
  <2>2. \A x \in born' : exit_code'[x] = NoCode <=> x \in Live'
    BY <1>6, <1>7, <1>8, <1>9 DEF LifeInv, LiveIndexed
  <2>3. QED
    BY <2>1, <2>2 DEF LiveIndexed
<1>14. Slots'
  <2>1. \A x \in TCBs \ born' : res'[x] = NoTid /\ exit_code'[x] = NoCode
    BY <1>1, <1>8 DEF LifeInv, Slots
  <2>2. QED
    BY <1>3, <1>5, <2>1 DEF LifeInv, Slots
<1>15. WaitedOnce'
  BY DEF LifeInv, WaitedOnce
<1>16. QED
  BY <1>2, <1>3, <1>4, <1>5, <1>8, <1>9, <1>12, <1>13, <1>14, <1>15

\* The exit of a thread that is not the main thread.
LEMMA ExitThreadLife ==
    ASSUME LifeInv, NEW t \in TCBs, NEW code \in Codes, exit_thread(t, code)
    PROVE  LifeInv'
<1>1. Runs(t)
  BY DEF exit_thread
<1>2. dealloc_asserts(task_res_allocator, res[t])
  BY <1>1, RunsFacts, DeallocTakesBack DEF LifeInv, Slots
<1>3. /\ task_res_allocator' = dealloc(task_res_allocator, res[t])
      /\ areas' = areas \ {res[t]}
      /\ res' = [res EXCEPT ![t] = NoTid]
      /\ exit_code' = [exit_code EXCEPT ![t] = code]
      /\ UNCHANGED <<tasks, is_zombie, kernel, born, waited>>
  BY <1>2 DEF exit_thread, dealloc_user_res
<1>4. /\ InUse(task_res_allocator') = {res'[x] : x \in Live'}
      /\ areas' = {res'[x] : x \in Live'}
      /\ task_res_allocator' \in [current : Nat, recycled : Seq(Nat)]
      /\ res' \in [TCBs -> Nat \cup {NoTid}]
      /\ exit_code' \in [TCBs -> Codes \cup {NoCode}]
      /\ Slots' /\ LiveIndexed' /\ WaitedOnce'
  BY <1>1, <1>3, ExitLife
<1>5. kernel = "running" /\ ~is_zombie
  BY <1>1, RunsFacts
<1>6. TypeOK'
  BY <1>3, <1>4 DEF LifeInv, TypeOK
<1>7. ResExact'
  BY <1>4 DEF ResExact
<1>8. KernelChecksHold' /\ ZombieClean'
  BY <1>3, <1>5 DEF LifeInv, KernelChecksHold, ZombieClean
<1>9. QED
  BY <1>4, <1>6, <1>7, <1>8 DEF LifeInv

\* The exit of the main thread, which is the exit of the process.
LEMMA ExitProcessLife ==
    ASSUME LifeInv, NEW t \in TCBs, NEW code \in Codes, exit_process(t, code)
    PROVE  LifeInv'
<1>1. Runs(t)
  BY DEF exit_process
<1>2. dealloc_asserts(task_res_allocator, res[t])
  BY <1>1, RunsFacts, DeallocTakesBack DEF LifeInv, Slots
<1>3. /\ task_res_allocator' = dealloc(task_res_allocator, res[t])
      /\ res' = [res EXCEPT ![t] = NoTid]
      /\ exit_code' = [exit_code EXCEPT ![t] = code]
      /\ is_zombie' = TRUE
      /\ IF HoldsRes(t) # {}
         THEN areas' = dealloc_user_res(t) /\ kernel' = "already borrowed"
         ELSE areas' = {} /\ UNCHANGED kernel
      /\ UNCHANGED <<tasks, born, waited>>
  BY <1>2 DEF exit_process
<1>4. /\ Live' = Live \ {t}
      /\ InUse(task_res_allocator') = {res'[x] : x \in Live'}
      /\ areas \ {res[t]} = {res'[x] : x \in Live'}
      /\ task_res_allocator' \in [current : Nat, recycled : Seq(Nat)]
      /\ res' \in [TCBs -> Nat \cup {NoTid}]
      /\ exit_code' \in [TCBs -> Codes \cup {NoCode}]
      /\ Slots' /\ LiveIndexed' /\ WaitedOnce'
  BY <1>1, <1>3, ExitLife
<1>5. kernel = "running"
  BY <1>1, RunsFacts
<1>6. CASE HoldsRes(t) # {}
  <2>1. areas' = areas \ {res[t]} /\ kernel' = "already borrowed"
    BY <1>3, <1>6 DEF dealloc_user_res
  <2>2. TypeOK'
    BY <1>3, <1>4, <2>1 DEF LifeInv, TypeOK, Panics
  <2>3. ResExact' /\ KernelChecksHold' /\ ZombieClean'
    BY <2>1 DEF ResExact, KernelChecksHold, ZombieClean
  <2>4. QED
    BY <1>4, <2>2, <2>3 DEF LifeInv
<1>7. CASE HoldsRes(t) = {}
  <2>1. areas' = {} /\ kernel' = kernel
    BY <1>3, <1>7
  <2>2. Live' = {}
    <3>1. \A x \in Live : res[x] \in DOMAIN tasks /\ tasks[res[x]] = x /\ res[x] # NoTid /\ x # NoTask
      BY LifeAssumption DEF LifeInv, LiveIndexed, Live, TypeOK
    <3>2. \A x \in Live : x # t => res[x] \in HoldsRes(t)
      BY <3>1 DEF HoldsRes
    <3>3. QED
      BY <1>4, <1>7, <3>2
  <2>3. {res'[x] : x \in Live'} = {}
    BY <2>2
  <2>4. TypeOK'
    BY <1>3, <1>4, <2>1 DEF LifeInv, TypeOK
  <2>5. ResExact' /\ KernelChecksHold' /\ ZombieClean'
    BY <1>4, <1>5, <2>1, <2>2, <2>3 DEF ResExact, KernelChecksHold, ZombieClean
  <2>6. QED
    BY <1>4, <2>4, <2>5 DEF LifeInv
<1>8. QED
  BY <1>6, <1>7

\* sys_waittid
LEMMA WaitLife ==
    ASSUME LifeInv, NEW t \in TCBs, NEW tid \in WaitTids, sys_waittid(t, tid)
    PROVE  LifeInv'
<1>1. CASE waittid_index(t, tid)
  BY <1>1, PanicLife DEF waittid_index
<1>2. CASE waittid_none(t, tid)
  BY <1>2, StutterLife DEF waittid_none
<1>3. CASE waittid_found(t, tid)
  <2>1. /\ Runs(t)
        /\ tid # res[t]
        /\ tid \in DOMAIN tasks
        /\ tasks[tid] # NoTask
    BY <1>3 DEF waittid_found
  <2>2. tasks[tid] # t
    BY <2>1, RunsFacts DEF LifeInv, Slots
  <2>3. /\ IF exit_code[tasks[tid]] = NoCode
           THEN UNCHANGED <<tasks, waited>>
           ELSE tasks' = tasks_without(tid) /\ waited' = waited \cup {tasks[tid]}
        /\ UNCHANGED <<task_res_allocator, res, exit_code, areas, is_zombie, kernel, born>>
    BY <1>3, <2>2 DEF waittid_found
  <2>4. CASE exit_code[tasks[tid]] = NoCode
    BY <2>3, <2>4, StutterLife DEF lifeVars
  <2>5. CASE exit_code[tasks[tid]] # NoCode
    <3>1. /\ tasks' = [tasks EXCEPT ![tid] = NoTask]
          /\ waited' = waited \cup {tasks[tid]}
      BY <2>3, <2>5 DEF tasks_without
    <3>2. /\ DOMAIN tasks' = DOMAIN tasks
          /\ tasks'[tid] = NoTask
          /\ \A i \in DOMAIN tasks : i # tid => tasks'[i] = tasks[i]
          /\ tasks' \in [DOMAIN tasks' -> TCBs \cup {NoTask}]
      BY <2>1, <3>1 DEF LifeInv, TypeOK
    <3>3. tasks[tid] \in born
      BY <2>1 DEF LifeInv, Slots
    <3>4. NoTask \notin TCBs /\ born \subseteq TCBs /\ waited \subseteq born
      BY LifeAssumption DEF LifeInv, TypeOK
    <3>5. TypeOK'
      BY <2>3, <3>1, <3>2, <3>3 DEF LifeInv, TypeOK
    <3>6. Slots'
      <4>1. \A i \in DOMAIN tasks' : tasks'[i] \in born' \cup {NoTask}
        BY <2>3, <3>2 DEF LifeInv, Slots
      <4>2. \A i, j \in DOMAIN tasks' : tasks'[i] = tasks'[j] /\ tasks'[i] # NoTask => i = j
        BY <3>2 DEF LifeInv, Slots
      <4>3. QED
        BY <2>3, <4>1, <4>2 DEF LifeInv, Slots
    <3>7. Live' = Live
      BY <2>3 DEF Live
    <3>8. LiveIndexed'
      <4>1. tasks[tid] \notin Live
        BY <2>5, <3>3 DEF LifeInv, LiveIndexed
      <4>2. \A x \in Live : res[x] \in DOMAIN tasks /\ tasks[res[x]] = x /\ res[x] # tid
        BY <4>1 DEF LifeInv, LiveIndexed
      <4>3. \A x \in Live' : res'[x] \in DOMAIN tasks' /\ tasks'[res'[x]] = x
        BY <2>3, <3>2, <3>7, <4>2
      <4>4. QED
        BY <2>3, <3>7, <4>3 DEF LifeInv, LiveIndexed
    <3>9. ResExact' /\ KernelChecksHold' /\ ZombieClean'
      BY <2>3, <3>7 DEF LifeInv, ResExact, KernelChecksHold, ZombieClean
    <3>10. WaitedOnce'
      <4>1. \A i \in DOMAIN tasks : i # tid => tasks[i] # tasks[tid]
        BY <2>1 DEF LifeInv, Slots
      <4>2. QED
        BY <3>1, <3>2, <3>3, <3>4, <4>1 DEF LifeInv, WaitedOnce
    <3>11. QED
      BY <3>5, <3>6, <3>8, <3>9, <3>10 DEF LifeInv
  <2>6. QED
    BY <2>4, <2>5
<1>4. QED
  BY <1>1, <1>2, <1>3 DEF sys_waittid

\* Every step of the process keeps the invariant.
LEMMA NextLife == LifeInv /\ [Next]_lifeVars => LifeInv'
<1> SUFFICES ASSUME LifeInv, [Next]_lifeVars PROVE LifeInv'
  OBVIOUS
<1>1. CASE UNCHANGED lifeVars
  BY <1>1, StutterLife
<1>2. CASE Next
  <2> PICK t \in TCBs :
        \/ \E u \in TCBs : sys_thread_create(t, u)
        \/ \E code \in Codes : exit_thread(t, code) \/ exit_process(t, code)
        \/ \E tid \in WaitTids : sys_waittid(t, tid)
        \/ fork_or_exec(t)
    BY <1>2 DEF Next
  <2>1. ASSUME NEW u \in TCBs, sys_thread_create(t, u) PROVE LifeInv'
    BY <2>1, CreateLife
  <2>2. ASSUME NEW code \in Codes, exit_thread(t, code) PROVE LifeInv'
    BY <2>2, ExitThreadLife
  <2>3. ASSUME NEW code \in Codes, exit_process(t, code) PROVE LifeInv'
    BY <2>3, ExitProcessLife
  <2>4. ASSUME NEW tid \in WaitTids, sys_waittid(t, tid) PROVE LifeInv'
    BY <2>4, WaitLife
  <2>5. CASE fork_or_exec(t)
    BY <2>5, StutterLife, PanicLife DEF fork_or_exec
  <2>6. QED
    BY <2>1, <2>2, <2>3, <2>4, <2>5
<1>3. QED
  BY <1>1, <1>2

\* The invariant holds in every state the threads can reach.
LEMMA LifeInvariant == Spec => []LifeInv
<1>1. Init => LifeInv
  BY InitLife
<1>2. LifeInv /\ [Next]_lifeVars => LifeInv'
  BY NextLife
<1>3. QED
  BY <1>1, <1>2, PTL DEF Spec

\* However thread ids are recycled, every live thread of a process is in its
\* table under its own tid, so no two threads share a tid.
THEOREM ThreadsIndexedByTid == Spec => []LiveIndexed
<1>1. LifeInv => LiveIndexed
  BY DEF LifeInv
<1>2. QED
  BY <1>1, LifeInvariant, PTL

\* No tid, user stack or trap context is leaked or given back twice.
THEOREM UserResourcesExact == Spec => []ResExact
<1>1. LifeInv => ResExact
  BY DEF LifeInv
<1>2. QED
  BY <1>1, LifeInvariant, PTL

\* The assertions of the tid allocator and of the page table hold.
THEOREM TidChecksHold == Spec => []KernelChecksHold
<1>1. LifeInv => KernelChecksHold
  BY DEF LifeInv
<1>2. QED
  BY <1>1, LifeInvariant, PTL

\* No exit code is returned twice by sys_waittid.
THEOREM JoinedOnce == Spec => []WaitedOnce
<1>1. LifeInv => WaitedOnce
  BY DEF LifeInv
<1>2. QED
  BY <1>1, LifeInvariant, PTL

\* A zombie process has no live thread and has given back all user resources.
THEOREM ZombiesAreClean == Spec => []ZombieClean
<1>1. LifeInv => ZombieClean
  BY DEF LifeInv
<1>2. QED
  BY <1>1, LifeInvariant, PTL

=============================================================================
