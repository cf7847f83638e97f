CONSTANTS
    Characters = {c1, c2}
    MaxRequests = 2
    MaxLogins = 1
    MaxSockets = 2
    MaxDepth = 2
    Grace = 2
    Nobody = nobody
SPECIFICATION Spec
INVARIANTS EveryPlayerIsOwned HeadlessLoginIsAlone NoHeadlessWhenBanned
PROPERTIES DeletionIsNotSaved DeferredStopsApply StoppedStaysStopped
SYMMETRY CharacterSymmetry
CHECK_DEADLOCK FALSE
