SPECIFICATION FairSpec
CONSTANTS
    t1 = t1
    t2 = t2
    Txn = {t1, t2}
    NoTxn = NoTxn
    p1 = p1
    p2 = p2
    record = record
    mailbox = mailbox
    Path = {p1, p2, record}
    Records = {record}
    Dir = {mailbox}
    DirOf <- MCDirOf
    MaxFailures = 2
INVARIANTS
    Recoverable
    ListsWhole
PROPERTIES
    Settles
    Implements
CHECK_DEADLOCK FALSE
