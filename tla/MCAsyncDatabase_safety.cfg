CONSTANTS
    NumWorkers = 2
    Serials = {0, 1}
    PriorityBatch = 1
    NormalBatch = 1
    SerialBatch = 1
    MaxOps = 3
SPECIFICATION Spec
INVARIANTS HaltPreservesAccepted NoCallbackLost
PROPERTIES KeepsPromise
