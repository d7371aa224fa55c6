SPECIFICATION Spec
CONSTANTS
  Files <- MCFiles
  Mtd <- MCMtd
  Contents <- MCContents
  Absent = Absent
  Torn = Torn
  Jobs <- MCSingle
  Found <- MCUntouched
  LeftOver <- MCNoCopy
  CacheFiles = {"update.zip", "held.log"}
  Open = {"held.log"}
  Faults = {}
  MaxCrashes = 1
  MaxFaults = 0
  MaxRetries = 0
CHECK_DEADLOCK FALSE
INVARIANT Idempotent
