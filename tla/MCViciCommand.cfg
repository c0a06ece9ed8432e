SPECIFICATION FairSpec
CONSTANTS
    t1 = t1
    t2 = t2
    load = load
    list = list
    NoCall = NoCall
    Thread <- MCThread
    Cancellable <- MCCancellable
    Call <- MCCall
    Mutation <- MCMutation
    Streamed <- MCStreamed
    StreamWindow = 2
    Radix = 8
    MaxDepth = 4
    MaxSegment = 21
    FirstCapacity = 4
    MaxNumber = 9000
    MaxShort = 300
    MaxListItems = 2
    MaxText = 2
INVARIANTS
    TypeOK
    SlotExclusive
    IdleStreamClean
    OwnAnswer
    AtMostOnce
    OutcomeHonest
PROPERTIES
    ImplementsService
    EveryCallReturns
CHECK_DEADLOCK FALSE
