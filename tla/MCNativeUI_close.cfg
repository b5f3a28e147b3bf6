SPECIFICATION Spec
CONSTANTS
    Peers = {1}
    Rows = 1
    Faults = {}
INVARIANTS
    CloseLeaves
