CONSTANTS
    Owners = {o1, o2}
    MaxCount = 2
    GroupSize = 2
    Capacity = 1
SPECIFICATION Spec
INVARIANTS CapturesOutliveTasks ExecutedOnce DestructionDrains
PROPERTIES OwnersGetThrough StopReturns
