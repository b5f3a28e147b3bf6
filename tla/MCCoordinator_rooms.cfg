SPECIFICATION Spec
CONSTANTS
    Peers = {p1, p2, p3}
    Tokens = {t1}
    NoToken = NoToken
    NoPeer = NoPeer
    Names = {n1, n2}
    Data = {}
    Requests = {r1, r2}
    FirstOctet = 10
    LastOctet = 12
    MaxMembers = 5
    CommunityMemberCap = 2
    MaxInbox = 1
    MaxVersion = 4
SYMMETRY Symmetric
CONSTRAINT
    OthersShareName
INVARIANTS
    AddressesExact
    HostIsEldest
    CapRespected
    EmptyRoomForgets
    VersionNamesView
PROPERTIES
    BannedStayOut
    ChangesAreAnnounced
    ImplementsRoomMembership
