CONSTANTS
    initproc = initproc
    main = main
    a = a
    b = b
    m1 = m1
    m2 = m2
    s1 = s1
    c1 = c1
    Threads = {initproc, main, a, b}
    NoThread = NoThread
    Main = main
    Spinners = {initproc}
    Mutexes = {m1}
    SpinMutexes = {}
    NoMutex = NoMutex
    Sems = {}
    Condvars = {}
    Disciplined = FALSE
    InitCount <- MCInitCount
    MaxCount = 2
    Delays = {0, 1, 2}
    MaxTime = 2
    WordMod = 16
SPECIFICATION LiveSpec
PROPERTIES TimerExact SleepersWake
CHECK_DEADLOCK FALSE
