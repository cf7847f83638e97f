CONSTANTS
    Players = {1, 2}
    Items = {x}
    Hardcore = {2}
    NumWorkers = 1
    Postage = 1
    MaxMoney = 2
    Offers <- GiftAndPrice
    InitialGold = 2
    MaxMails = 2
    MaxLogins = 1
    MaxQueued = 3
    Crashes = TRUE
    Nobody = nobody
SPECIFICATION Spec
INVARIANTS RowsAgree ItemOnce NoRowTwice MoneyNotCreated
CONSTRAINTS LoginsInOrder CrashStopsExpiry
CHECK_DEADLOCK FALSE
