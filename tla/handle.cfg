SPECIFICATION Spec
CONSTANTS
    o1 = o1
    o2 = o2
    RTOS_HANDLE_MAX = 2
    GenMax = 3
    HandleArg <- MCHandleArg
    Object <- MCObject
    Type = {"TASK", "SEM"}
    Right = {"WAIT"}
    Null = Null
    TRT_OBJ_ANY = "ANY"
INVARIANTS TypeOK HandlesKeepMeaning
PROPERTIES RefinesRegistry
SYMMETRY Objects
VIEW View
