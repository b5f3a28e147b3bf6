SPECIFICATION FairSpec
CONSTANTS
    Clients = {c1}
    Engines = {e1, e2}
    None = None
    Commands = {"CONNECT", "DISCONNECT", "STATUS"}
    JobMayFail = FALSE
PROPERTIES
    StopCompletes
