SPECIFICATION FairSpec
CONSTANTS
    Ids = {i1, i2}
    Ips = {a1}
    Objs = {o1, o2}
    None = None
    MaxChanges = 1
INVARIANTS
    StopOnce
    NoOrphans
    RosterFollowed
PROPERTIES
    MembersBecomePeers
    DepartedAreDropped
