SPECIFICATION LiveSpec
CONSTANTS
  Files <- MCFiles
  Mtd <- MCMtd
  Contents <- MCContents
  Absent = Absent
  Torn = Torn
  Jobs <- MCJobs
  Found <- MCFound
  LeftOver <- MCLeftOver
  CacheFiles = {"update.zip", "held.log"}
  Open = {"held.log"}
  Faults = {"space", "save", "patch", "install"}
  MaxCrashes = 2
  MaxFaults = 1
  MaxRetries = 1
CHECK_DEADLOCK FALSE
INVARIANT TypeOK
INVARIANT CheckPredictsApply
PROPERTY NothingTouched
PROPERTY ImplementsUpdate
PROPERTY UpdateCompletes
