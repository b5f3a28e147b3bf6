SPECIFICATION FairSpec
CONSTANTS
    Sides = {a, b}
    InboxCap = 8
    MailCap = 128
    WaitTime = 20
    DialTime = 30
    RetryPause = 3
    ReconnectPause = 1
    GatherTime = 0
    MaxLate = 22
    NoticeTime = 0
    MaxBreaks = 0
    MaxLosses = 0
PROPERTY
    Connects
CHECK_DEADLOCK FALSE
