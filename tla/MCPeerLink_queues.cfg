SPECIFICATION Spec
CONSTANTS
    Sides = {a, b}
    InboxCap = 1
    MailCap = 1
    WaitTime = 20
    DialTime = 30
    RetryPause = 3
    ReconnectPause = 1
    GatherTime = 0
    MaxLate = 48
    NoticeTime = 48
    MaxBreaks = 2
    MaxLosses = 1
INVARIANTS
    NewestIsCurrent
    SessionsMatch
CHECK_DEADLOCK FALSE
