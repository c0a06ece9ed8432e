SPECIFICATION Spec
SYMMETRY NameSymmetry
CONSTANTS
    t1 = t1
    t2 = t2
    c1 = c1
    c2 = c2
    Thread <- OneThread
    Name <- TwoNames
    Free = Free
    Capacity = 2
    PeerCapacity = 2
    ManageProtected = TRUE
    ManagePlain = FALSE
INVARIANT FiltersOwned
INVARIANT OneSlotPerConnection
INVARIANT FreshLoadInstalls
