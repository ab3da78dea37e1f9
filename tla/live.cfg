SPECIFICATION LiveSpec
CONSTANTS
    idle = idle
    task1 = task1
    task2 = task2
    q1 = q1
    Idle = idle
    None = None
    Task <- MCTask3
    WaitQ <- NoWaitQ
    Calls = {"lock", "yield", "exit"}
    Delays = {}
    MaxJump = 1
    MaxLock = 1
    RTOS_TASK_MAX = 3
    RTOS_HANDLE_MAX = 2
    CreatePrio = {1}
    RTOS_PRIORITY_MAX = 1
    RTOS_TIME_SLICE_TICKS = 2
    TickMod = 4
PROPERTIES ReadyTaskRuns DeletedIsFreed
