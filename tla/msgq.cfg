SPECIFICATION MsgSpec
CONSTANTS
    idle = idle
    task1 = task1
    task2 = task2
    q1 = q1
    q2 = q2
    queue1 = queue1
    msg1 = msg1
    msg2 = msg2
    Idle = idle
    None = None
    Task <- MCTask3
    WaitQ <- MCWaitQ
    Calls = {"lock"}
    Delays = {0, 1}
    MaxJump = 1
    MaxLock = 1
    RTOS_TASK_MAX = 3
    RTOS_HANDLE_MAX = 2
    CreatePrio = {1}
    RTOS_PRIORITY_MAX = 1
    RTOS_TIME_SLICE_TICKS = 1
    TickMod = 4
    Obj <- MCObj
    Queues <- MCQueues
    ObjOps = {"send", "send_front", "recv", "peek", "isr_send", "isr_recv", "isr_peek", "destroy"}
    Timeouts = {0, 1}
    Msg <- MCMsg
    Zero = None
    QLen = {2}
INVARIANTS MsgTypeOK NobodyMissed FreedHasNoWaiter
PROPERTIES RefinesQueue
SYMMETRY Slots
CONSTRAINT NoFaultYet
VIEW View
