\* One buildACLCommands() call for a DATABASE, as dumpCreateDB() makes it.
CONSTANTS
  alice = alice
  bob = bob
  grp = grp
  PUBLIC = PUBLIC
  NoRole = NoRole
  BadItem = BadItem
  Roles <- MCRoles
  Groups <- MCGroups
  Versions <- MCVersions
  Codes <- MCDatabaseCodes
  Types = {"DATABASE"}
  MaxItems = 2
SPECIFICATION Spec
INVARIANTS TypeOK NoPartialOutput ReplayFaithful SessionRestored
CHECK_DEADLOCK FALSE
