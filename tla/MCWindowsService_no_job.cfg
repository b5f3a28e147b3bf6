SPECIFICATION Spec
CONSTANTS
    Clients = {c1}
    Engines = {e1, e2}
    None = None
    Commands = {"CONNECT", "DISCONNECT", "STATUS"}
    JobMayFail = TRUE
INVARIANTS
    NoEngineOutlivesService
