CONSTANTS
    Characters = {c1}
    MaxRequests = 2
    MaxLogins = 1
    MaxSockets = 2
    MaxDepth = 2
    Grace = 2
    Nobody = nobody
SPECIFICATION Spec
PROPERTIES HeadlessLoginSettles NetworkLoginSettles StrandedIsStopped
CHECK_DEADLOCK FALSE
