\* The database call of MC_AclEngine_database.cfg, for ACL arrays in whatever order the server keeps them.
CONSTANTS
  alice = alice
  bob = bob
  grp = grp
  PUBLIC = PUBLIC
  NoRole = NoRole
  BadItem = BadItem
  Roles <- MCRoles
  Groups <- MCGroups
  Versions <- MCVersions
  Codes <- MCDatabaseCodes
  Types = {"DATABASE"}
  MaxItems = 2
SPECIFICATION Spec
INVARIANT ReplayFaithfulAnyOrder
CHECK_DEADLOCK FALSE
