SPECIFICATION BusySpec
CONSTANTS
    Clients = {c1, c2}
    Engines = {e1}
    None = None
    Commands = {"CONNECT", "DISCONNECT", "STATUS"}
    JobMayFail = TRUE
PROPERTIES
    StopCompletes
    CallsEnd
