SPECIFICATION Spec
CONSTANTS
    b1 = b1
    b2 = b2
    Blobs = {b1, b2}
    SnapTimes = {1}
    LeaseIds = {"l1"}
    BlockIds = {"x"}
    Tokens = {t1}
    MaxTime = 3
    MaxWrites = 4
    MaxMeta = 2
    Retentions <- MCRetentions
    Scenes <- MCScenes
INVARIANTS PendingUnprotected OneOwner BlocksStored
PROPERTIES WormKept LeaseHonoured ParScoped
CHECK_DEADLOCK FALSE
