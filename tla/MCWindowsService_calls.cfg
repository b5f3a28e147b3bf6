SPECIFICATION Spec
CONSTANTS
    Clients = {c1, c2}
    Engines = {e1, e2}
    None = None
    Commands = {"PING", "CONNECT", "DISCONNECT", "PRIORITY", "KICK", "STATUS"}
    JobMayFail = TRUE
SYMMETRY Symmetric
INVARIANTS
    CallsServed
    TokenFits
