CONSTANTS
    Name = {"c1", "c2"}
    Foreign = {"c1"}
    Config = {"a", "b", "c"}
    NameOf <- MCNameOf
    IdOf <- MCIdOf
    Reqid = {1, 2}
    KernelXfrm = TRUE
    MaxFaults = 1
    MaxRemote = 1
    Capacity = 2
    MaxPending = 1
    ProtectedApp = FALSE
    MaxCommands = 2
    MaxSignals = 1
    MaxPolls = 1
    MaxLoops = 1
SPECIFICATION Spec
INVARIANTS TypeOK LedgerCovers CleanExit
PROPERTIES ForeignSpared CredentialOutlivesSas ReleaseConfirmed QuitReturns QuitSucceeds
