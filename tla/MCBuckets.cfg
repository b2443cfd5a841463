SPECIFICATION MCSpec
CONSTANTS
    k1 = k1
    m0 = m0
    m1 = m1
    Key <- Keys
    Metadata <- Metas
    Plain = m0
    Gated = TRUE
    MaxClock = 2
    MaxErrors = 1
    MaxCrashes = 2
    LooseCrashes = 1
INVARIANTS CommittedStays AbsenceSound RefusalExplainedGated
