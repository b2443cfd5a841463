SPECIFICATION IngressSpec
CONSTANTS
    Stores = {"journal", "plain"}
    MaxCaptureBytes = 84
    EnvelopeBytes = 1
    MaxStoreErrors = 2
    Commands <- MCCommands
    BodyLines <- MCBodyLines
    MaxBodyLines = 2
    MaxMessageBytes = 5
    CommandLimit = 5
    JsonPerByte = 2
    MaxEnvelope = 2
    MaxPersonalizations = 2
    MaxRecipients <- MCMaxRecipients
    MaxReplyTo <- MCMaxReplyTo
    MaxHeaders = 1
    MailRequests <- MCMailRequests
    AttachmentBytes = 20
    MessageBytes = 5
    TextRequests <- MCTextRequests
    MaxMedia = 2
    MaxAttributes = 1
    Senders = {s1, s2}
    Sends <- MCSends
    LegacyTexts <- MCLegacyTexts
    Rid = {r1}
    NoRid = NoRid
    Op = {o1, o2}
    NoOp = NoOp
    Body = {good, bad, big}
    BadBody = {bad}
    BigBody = {big}
    Sent = {s1}
    Client = {m1, m2}
    NoClient = NoClient
    Clients = {c1, c2}
    Attempts = {1, 2}
    Tries <- MCTries
    Hooked = {c1}
    Operations <- MCOperations
    Doors = {"s3", "gcs"}
    Bodies <- MCBodies
    SumRequests <- MCSumRequests
    MaxObject = 2
    Algorithms = {"CRC32C", "SHA256"}
INVARIANTS
    Transacted
    AnsweredAsFiled
    SentOnce
    AtMostOnce
    AcceptedKept
    FaultsHonest
    ChecksumsHonoured
SYMMETRY MCSymmetry
CHECK_DEADLOCK FALSE
