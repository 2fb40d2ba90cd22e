SPECIFICATION Spec
CONSTANTS
    a1 = a1
    a2 = a2
    w1 = w1
    Assets = {a1, a2}
    Workers = {w1}
    Before <- FewBefore
    PerFold <- FewPerFold
    After <- FewAfter
    Folds = 1
    GridSteps = 1
    MaxParallelFolds = 1
    PipeCapacity = 1
    Kinds <- MCKinds
    Faults = {"files"}
    MaxFaults = 1
CHECK_DEADLOCK FALSE
INVARIANTS
    DirectoriesComplete
