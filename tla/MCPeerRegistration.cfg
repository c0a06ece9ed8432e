CONSTANTS
    ByteBits = 2
    Capacity = 2
    LogonLimit = 1
    MaxCount = 2
    Address = {"a", "b"}
    SelectorsOf <- MCSelectorsOf
    Typed <- MCTyped
    Files <- MCFiles
    MaxCalls = 3
    MaxCommands = 2
    MaxFaults = 1
SPECIFICATION Spec
INVARIANTS TypeOK TableKeyed SelectionCoherent AssignAgrees
PROPERTIES RegistrationDisjoint StopReturns
