\* Checks AcceptedServerDumped on the whole run.
CONSTANTS
  MaxAttempts = 2
  Settings <- MCSettings
  Versions <- MCVersions
SPECIFICATION DumpSpec
INVARIANT AcceptedServerDumped
CHECK_DEADLOCK FALSE
