SPECIFICATION Spec
CONSTANTS
    Ids = {i1, i2}
    Ips = {a1}
    Objs = {o1, o2}
    None = None
    MaxChanges = 2
SYMMETRY Symmetric
INVARIANT
    ArpAnswersNameTheOwner
