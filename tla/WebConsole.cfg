SPECIFICATION ConsoleSpec
CONSTANTS
    Names = {n1, n2}
    Emails = {e1, e2}
    Chats = {c1}
    Requests = {r1, r2, r3}
    FileNames = {f1, f2}
    MaxFiles = 2
    MaxTokens = 2
    MaxFlight = 2
SYMMETRY Interchangeable
CONSTRAINT InBounds
CHECK_DEADLOCK FALSE
INVARIANTS
    RowsConsistent
    NoStuckCard
    AttachmentsFit
    IdentityShown
PROPERTIES
    AdminLostOnlyByRace
    SessionSurvivesLateAnswers
