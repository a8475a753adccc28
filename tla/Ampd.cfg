SPECIFICATION MCSpec
CONSTANTS
    p1 = p1
    p2 = p2
    c1 = c1
    Processors = {p1, p2}
    OtherTasks = {"grpc-server"}
    Clients = {c1}
    Filters <- MCFilters
    EventTypeAt <- MCEventTypeAt
    Capacity = 1
    BlockProcessingBuffer = 2
    MaxAttempts = 1
    MaxHeight = 3
    Messages = {m1, m2}
    Gas = {1, 2, 3}
    gas_cap = 2
    queue_cap = 1
    confirmer_cap = 1
    buffer_size = 1
    MaxSequence = 1
    Handles = {h1, h2}
    ReportCapacity = 1
    ReconnectAttempts = 2
    MaxSpawned = 1
CHECK_DEADLOCK FALSE
INVARIANTS
    EventsInOrder
    MessagesOnce
    
    WaitersWoken
PROPERTIES
    CatchesUp
    DaemonStops
    MessagesAnswered
