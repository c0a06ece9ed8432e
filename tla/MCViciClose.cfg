SPECIFICATION FairSpec
CONSTANTS
    w1 = w1
    w2 = w2
    c1 = c1
    Closer = Closer
    Nobody = Nobody
    Waiter <- TwoWaiters
    Caller <- NoCaller
    Hurried = {}
    MaxChanges = 0
    MaxWaits = 1
INVARIANTS
    NoUseAfterFree
PROPERTIES
    CloseCompletes
CHECK_DEADLOCK FALSE
