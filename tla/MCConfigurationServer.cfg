CONSTANTS
    Administrators = {a1, a2}
    Sessions = {s1, s2, s3}
    Providers <- MCProviders
    Clients = {"c1", "c2"}
    MaxSessions = 2
    MaxAssertions = 2
    NoAdministrator = noAdministrator
    NoProvider = noProvider
    Limit = 2
    Window = 2
    MaxKeys = 1
    Assertions <- MCAssertions
    Tolerance = 2
    MaxTokenAge = 2
    SessionLife = 2
    Bounds <- MCBounds
SYMMETRY MCSymmetry
SPECIFICATION Spec
INVARIANTS AcceptedOnce OneAdministrator RevokedStaysOut SessionsKept WindowKept
CHECK_DEADLOCK FALSE
