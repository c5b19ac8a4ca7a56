CONSTANTS
    Pools <- MCPools
    Listeners <- Both
    PoolOf <- EachPoolOf
    Priority <- ByPool
    EventTypes <- MCEventTypes
    Subscribes <- MCSubscribes
    BufferSize = 1
    NoEvent = NoEvent
SPECIFICATION Spec
INVARIANTS TypeOK EveryEventInOnePlace OnlySubscribed ProtocolInStep
PROPERTY NoHostage
