SPECIFICATION BootSpec
CONSTANTS
    idle = idle
    task1 = task1
    timer1 = timer1
    Idle = idle
    None = None
    Task <- MCTask2
    WaitQ <- NoWaitQ
    Calls = {}
    Delays = {1}
    MaxJump = 1
    MaxLock = 1
    RTOS_TASK_MAX = 2
    RTOS_HANDLE_MAX = 1
    CreatePrio = {1}
    RTOS_PRIORITY_MAX = 1
    RTOS_TIME_SLICE_TICKS = 1
    TickMod = 6
    Obj <- MCObj
    Queues <- MCQueues
    ObjOps = {"stop", "destroy"}
    Period = 1
PROPERTIES AppTimerFires
