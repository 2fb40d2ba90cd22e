SPECIFICATION LiveSpec
CONSTANTS
    r1 = r1
    r2 = r2
    s1 = s1
    k1 = k1
    NoProc = NoProc
    HostOf <- OneHost
    Hashes = {"h0", "h1"}
    InitialCard <- Card1
    Registered = {}
    Runs = {r1}
    Studies = {s1}
    Clerks = {k1}
    MaxCards = 1
    RunAsks <- LiveRunAsks
    StudyAsks <- LiveStudyAsks
    Commands <- LiveCommands
    MaxAmendments = 1
    MaxFaults = 1
INVARIANTS
    RunIdsUsedOnce
    OpenCardUsable
PROPERTIES
    PendingGetsRecorded
    CommitsCatchUp
