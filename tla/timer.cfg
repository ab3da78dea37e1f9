SPECIFICATION TimerSpec
CONSTANTS
    idle = idle
    task1 = task1
    task2 = task2
    q1 = q1
    timer1 = timer1
    timer2 = timer2
    Idle = idle
    None = None
    Task <- MCTask3
    WaitQ <- MCWaitQ
    Calls = {"wait"}
    Delays = {1}
    MaxJump = 2
    MaxLock = 1
    RTOS_TASK_MAX = 3
    RTOS_HANDLE_MAX = 2
    CreatePrio = {1}
    RTOS_PRIORITY_MAX = 1
    RTOS_TIME_SLICE_TICKS = 1
    TickMod = 8
    Obj <- MCObj
    Queues <- MCQueues
    ObjOps = {"start", "start_periodic", "stop", "destroy", "isr_start", "isr_stop", "isr_wake"}
    Period = 1
INVARIANTS TimerListSound
PROPERTIES DueTimersRun NoEarlyFire LoopRunsDown
SYMMETRY Slots
VIEW View
