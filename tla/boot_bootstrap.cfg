SPECIFICATION LiveSpec
CONSTANTS
    Requests = {{"wipe_data"}, {"wipe_cache"}, {"update_package", "send_intent"}}
    Faults = {}
    Bootstrap = TRUE
    MaxRequests = 1
    MaxCrashes = 2
    MaxMenuOps = 1
INVARIANT
    SdcardInstallProtected
PROPERTY
    ReturnsToMain
