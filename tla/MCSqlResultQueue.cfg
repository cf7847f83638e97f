CONSTANTS
    BurstLimit = 4
    MaxPerUpdate = 3
    MaxWaiting = 3
SPECIFICATION Spec
INVARIANT OvertakingBounded
PROPERTY NormalIsServed
