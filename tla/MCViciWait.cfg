SPECIFICATION FairSpec
CONSTANTS
    w1 = w1
    w2 = w2
    c1 = c1
    Closer = Closer
    Nobody = Nobody
    Waiter <- OneWaiter
    Caller <- OneCaller
    Hurried <- OneWaiter
    MaxChanges = 2
    MaxWaits = 2
INVARIANTS
    TypeOK
    NoLostWakeup
    ReadyHonest
    CancelHonest
PROPERTIES
    DeadlineEndsWait
CHECK_DEADLOCK FALSE
