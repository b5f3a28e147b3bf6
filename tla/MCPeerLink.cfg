SPECIFICATION FairSpec
CONSTANTS
    Sides = {a, b}
    InboxCap = 8
    MailCap = 128
    WaitTime = 20
    DialTime = 30
    RetryPause = 3
    ReconnectPause = 1
    GatherTime = 1
    MaxLate = 7
    NoticeTime = 7
    MaxBreaks = 2
    MaxLosses = 1
INVARIANT
    NewestIsCurrent
PROPERTY
    Connects
CHECK_DEADLOCK FALSE
