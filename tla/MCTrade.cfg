CONSTANTS
    x0 = x0  x1 = x1  x2 = x2  y = y  z = z  c0 = c0  c1 = c1
    Players = {1, 2}
    Items = {x0, x1, x2, y, z, c0, c1}
    Spells = {s}
    NumSlots = 2
    MaxMoney = 1
    InitialGold = 1
    NumWorkers = 1
    MaxQueued = 4
    MaxEvents = 2
    Nobody = nobody
    Entry <- MCEntry
    MaxCount <- MCMaxCount
    Copy <- MCCopy
    InitialBag <- MCBag
    Capacity <- MCCapacity
SPECIFICATION Spec
CONSTRAINT FewInWindows
SYMMETRY Twins
INVARIANT TradeRowsAgree
PROPERTIES DealAsAccepted DealConserves
