CONSTANTS
    initproc = initproc
    main = main
    a = a
    b = b
    m1 = m1
    m2 = m2
    s1 = s1
    c1 = c1
    Threads = {main, a, b}
    NoThread = NoThread
    Main = main
    Spinners = {}
    Mutexes = {m1, m2}
    SpinMutexes = {m2}
    NoMutex = NoMutex
    Sems = {s1}
    Condvars = {c1}
    Disciplined = TRUE
    InitCount <- MCInitCount
    MaxCount = 1
    Delays = {}
    MaxTime = 0
    WordMod = 16
SPECIFICATION LiveSpec
INVARIANTS OnePlace MutualExclusion LockedHasClaimant SemaphoreAccounting
PROPERTIES NoBarging ReadyRuns SemaphoreProgress MutexProgress
