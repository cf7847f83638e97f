CONSTANTS
    MaxStatements = 3
    MaxAttempts = 3
    MaxLosses = 2
SPECIFICATION Spec
INVARIANTS AllOrNothing AppliedAtMostOnce ConnectionLeftClean
PROPERTY Finishes
