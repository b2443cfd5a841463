SPECIFICATION Spec
CONSTANTS
    OutMsg = {o1}
    InMsg = {i1}
    Client = {c1, c2}
    NoClient = NoClient
    Attempt = {a1, a2}
    NoAttempt = NoAttempt
    Url = {u1}
    NoUrl = NoUrl
    MaxFailures = 1
SYMMETRY Symmetric
INVARIANTS OneStory Accounted
