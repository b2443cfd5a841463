SPECIFICATION Spec
CONSTANTS
    Doors <- MCDoors
    Signable <- MCSignable
    Values <- MCValues
    Skews = {0, 2}
    MaxClock = 6
    MaxProcesses = 2
    Statements <- MCStatements
    Contexts <- MCContexts
    Acls <- MCAcls
    MaxStatements = 2
    MaxExpires = 10
    DayLength = 4
    SessionTtl = 3
    Clients = {"c1", "c2"}
    TokenOf <- MCTokenOf
    Kids = {"k1", "k2"}
    JwksTtl = 2
    JwksRefreshCooldown = 1
    FetchTimeout = 1
INVARIANTS StatementsCompose
PROPERTIES CredentialsHonoured KeysFollowed
CHECK_DEADLOCK FALSE
