SPECIFICATION Spec
CONSTANTS
    Requests = {{"wipe_data"}, {"wipe_cache"}, {"update_package", "send_intent"}}
    Faults = {"misc", "format"}
    Bootstrap = FALSE
    MaxRequests = 2
    MaxCrashes = 2
    MaxMenuOps = 1
INVARIANTS
    TypeOK
    UpdateImageComplete
    CacheUsable
    Restartable
    SdcardInstallProtected
