SPECIFICATION FairSpec
CONSTANTS
    Adapters = {a1, a2, a3}
    None = None
    Gone = Gone
    Faults = {"cut off", "copy", "devcon", "start", "manager", "registry", "slow device",
              "slow stop", "other setup", "legacy"}
INVARIANTS
    ServiceHasPrograms
PROPERTIES
    SuccessIsComplete
    SuccessIsRecorded
    StrangersLeftAlone
    RepairSucceeds
