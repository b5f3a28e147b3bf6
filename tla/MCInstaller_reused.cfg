SPECIFICATION Spec
CONSTANTS
    Adapters = {a1, a2, a3}
    None = None
    Gone = Gone
    Faults = {"cut off"}
PROPERTIES
    OthersStay
