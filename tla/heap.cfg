SPECIFICATION Spec
CONSTANTS
    client1 = client1
    client2 = client2
    Client <- MCClient
    heap_start = 1
    heap_end = 27
    HEAP_ALIGN = 2
    Header = 4
    SizeMax = 31
    Sizes = {0, 1, 6, 31}
    Counts = {6}
INVARIANTS BlocksTile HoldingsFit NoLeak CopyInBounds Coalesced
PROPERTIES RefinesAllocator
SYMMETRY Clients
