SPECIFICATION Spec
CONSTANTS
    idle = idle
    task1 = task1
    task2 = task2
    q1 = q1
    Idle = idle
    None = None
    Task <- MCTask3
    WaitQ <- NoWaitQ
    Calls = {"yield", "sleep", "lock"}
    Delays = {1, 2}
    MaxJump = 2
    MaxLock = 1
    RTOS_TASK_MAX = 3
    RTOS_HANDLE_MAX = 2
    CreatePrio = {1, 2}
    RTOS_PRIORITY_MAX = 2
    RTOS_TIME_SLICE_TICKS = 2
    TickMod = 8
INVARIANTS TypeOK DueTasksAreAwake DeferredSwitchIsOwed
PROPERTIES LockedKeepsCpu TickRunsHighest NoEarlyTimeout
SYMMETRY Slots
CONSTRAINT NoFaultYet
VIEW View
