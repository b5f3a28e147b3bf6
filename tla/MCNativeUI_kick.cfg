SPECIFICATION Spec
CONSTANTS
    Peers = {1, 2}
    Rows = 1
    Faults = {}
PROPERTIES
    RowIsNodes
