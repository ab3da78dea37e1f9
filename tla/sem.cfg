SPECIFICATION SemSpec
CONSTANTS
    idle = idle
    task1 = task1
    task2 = task2
    q1 = q1
    Idle = idle
    None = None
    Task <- MCTask3
    WaitQ <- MCWaitQ
    Calls = {"lock"}
    Delays = {0, 1}
    MaxJump = 1
    MaxLock = 1
    RTOS_TASK_MAX = 3
    RTOS_HANDLE_MAX = 2
    CreatePrio = {1, 2}
    RTOS_PRIORITY_MAX = 2
    RTOS_TIME_SLICE_TICKS = 2
    TickMod = 4
    sem1 = sem1
    Obj <- MCObj
    Queues <- MCQueues
    ObjOps = {"wait", "timedwait", "trywait", "post", "isr_post", "destroy"}
    SemMax = {0, 1}
    SemCnt = {0, 1}
INVARIANTS SemTypeOK NoWaiterBesideToken TokensConserved FreedHasNoWaiter
SYMMETRY Slots
CONSTRAINT NoFaultYet
VIEW View
