CONSTANTS
    initproc = initproc
    main = main
    a = a
    b = b
    c = c
    Threads = {initproc, main, a, b, c}
    NoThread = NoThread
    Main = main
    Spinners = {initproc}
    Mutexes = {"m1", "m2", "m3", "spin"}
    SpinMutexes = {"spin"}
    NoMutex = NoMutex
    Sems = {"s1", "s2", "s3"}
    Condvars = {"c1"}
    Disciplined = TRUE
    InitCount <- MCInitCount
    MaxCount = 10
    Delays = {0, 1}
    MaxTime = 1
    WordMod = 16
    Running = {"phil_din_mutex", "mpsc_sem", "sync_sem", "test_condvar", "race_adder_mutex_blocking", "race_adder_mutex_spin", "race_adder_atomic", "threads", "threads_arg"}
    Workers <- MCWorkers
    ROUND = 1
    BUFFER_SIZE = 1
    NUMBER_PER_PRODUCER = 1
    PER_THREAD = 1
SPECIFICATION ProgramSpec
INVARIANTS ProgramAssertions 
PROPERTY ProgramFinishes
