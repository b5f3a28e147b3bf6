SPECIFICATION FairSpec
CONSTANTS
    Peers = {p1, p2}
    Tokens = {t1}
    NoToken = NoToken
    NoPeer = NoPeer
    Names = {n1}
    Data = {d1}
    Requests = {r1, r2}
    FirstOctet = 10
    LastOctet = 12
    MaxMembers = 5
    CommunityMemberCap = 2
    MaxInbox = 1
    MaxVersion = 2
INVARIANTS
    TypeOK
    NoLostWakeup
PROPERTIES
    ChangesAreAnnounced
    EveryRequestAnswered
