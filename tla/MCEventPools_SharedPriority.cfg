CONSTANTS
    Pools <- MCPools
    Listeners <- Both
    PoolOf <- EachPoolOf
    Priority <- ByDefault
    EventTypes <- MCEventTypes
    Subscribes <- MCSubscribes
    BufferSize = 1
    NoEvent = NoEvent
SPECIFICATION Spec
INVARIANTS OnlySubscribed
