SPECIFICATION Spec
CONSTANTS
    t1 = t1
    t2 = t2
    c1 = c1
    c2 = c2
    Thread <- TwoThreads
    Name <- OneName
    Free = Free
    Capacity = 1
    PeerCapacity = 1
    ManageProtected = TRUE
    ManagePlain = FALSE
INVARIANT LoadedKeepsPaths
