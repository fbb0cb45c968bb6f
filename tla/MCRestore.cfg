\* Crashes, file system errors and failed hot reloads anywhere in a restore of two files.
CONSTANTS
  N = 2
  MaxStages = 1
  MaxFaults = 2
  HotReload = TRUE
SPECIFICATION FairSpec
INVARIANTS TypeOK OriginalsKept ValidatedIsInstalled
PROPERTIES FailedApplyRestores InterruptedApplyResumes
CHECK_DEADLOCK FALSE
