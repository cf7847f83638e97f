CONSTANTS
    NumWorkers = 2
    Serials = {0, 1}
    PriorityBatch = 1
    NormalBatch = 1
    SerialBatch = 1
    MaxOps = 2
SPECIFICATION Spec
PROPERTIES EventuallyExecuted StopServerReturns
