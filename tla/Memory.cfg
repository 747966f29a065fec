CONSTANTS
    Procs = {"p1", "p2"}
    INITPROC = "p1"
    KERNEL_SPACE = "kernel"
    NoTask = NoTask
    Images <- MCImages
    InitImage <- MCInitImage
    Sections <- MCSections
    FirstFrame = 2
    EndFrame = 36
    USER_STACK_SIZE = 1
    KERNEL_STACK_SIZE = 1
    QueuePages = 2
    Words = {1}
    Lens = {2}
    Addresses = {3, 12}
    MaxExecs = 1
    MaxThreads = 3
    PAGE_SIZE = 2
    Fanout = 8
SPECIFICATION Spec
INVARIANTS FramesExact TablesMatchAreas TrapContextExact 
 
CHECK_DEADLOCK FALSE
