\* Checks DumpTargetDumped on the whole run.
CONSTANTS
  MaxAttempts = 2
  Settings <- MCSettings
  Versions <- MCVersions
SPECIFICATION DumpSpec
INVARIANT DumpTargetDumped
CHECK_DEADLOCK FALSE
