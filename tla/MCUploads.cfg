SPECIFICATION UploadsSpec
CONSTANTS
    Upload = {u1}
    Part = {1, 2}
    Data = {a, b, longer}
    Longer = longer
    NoData = NoData
    Size <- MCSize
    MinSize = 2
    Open = Open
    Lengths = {5}
    Quantum = 2
    MaxChunks = 3
    MaxEpoch = 2
    MaxErrors = 1
    MaxCrashes = 1
INVARIANTS
    Integrity
    PartsKept
    Exact
    AckedKept
PROPERTY CancelFinal
SYMMETRY MCSymmetry
