\* The whole run of main(): connections for every command line, environment and server of Opts, then the dump, with the connection lost at any query.
CONSTANTS
  MaxAttempts = 2
  Settings <- MCSettings
  Versions <- MCVersions
SPECIFICATION FairSpec
INVARIANTS SlotsWithinArray PromptedOnce ScriptReplays DumpComplete
PROPERTIES Terminates DumpRefinesAbstract
CHECK_DEADLOCK FALSE
