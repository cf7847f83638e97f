CONSTANTS
    Size = 2
    ClearModes = {"AT_NEXT_WORKLOAD", "UPPON_COMPLETION"}
    ErrorModes = {"NONE", "LOG"}
    MaxWork = 3
    MaxBatches = 2
SPECIFICATION Spec
INVARIANTS TypeOK JoinsAllWorkers RunsOnce CompletionIsHonest
PROPERTIES WorkIsImmutable BatchCompletes DestructorReturns
