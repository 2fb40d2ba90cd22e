SPECIFICATION Spec
CONSTANTS
    r1 = r1
    r2 = r2
    s1 = s1
    k1 = k1
    NoProc = NoProc
    HostOf <- TwoHosts
    Hashes = {"h0", "h1"}
    InitialCard <- Card1
    Registered = {1}
    Runs = {r1, r2}
    Studies = {}
    Clerks = {k1}
    MaxCards = 1
    RunAsks <- RunsAsks
    StudyAsks = {}
    Commands <- RunsCommands
    MaxAmendments = 0
    MaxFaults = 2
INVARIANTS
    OneUnexplainedLook
    NoTwinsRunning
    ConfigsComplete
    ClosedCardSettled
PROPERTIES
    TornLedgerFreezes
    ImplementsTrialRegister
