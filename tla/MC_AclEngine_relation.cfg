\* One-item ACLs of tables, columns and sequences, and of a type parseAclItem() has no table for.
CONSTANTS
  alice = alice
  bob = bob
  grp = grp
  PUBLIC = PUBLIC
  NoRole = NoRole
  BadItem = BadItem
  Roles <- MCRoles
  Groups <- MCGroups
  Versions <- MCVersions
  Codes <- MCRelationCodes
  Types <- MCRelationTypes
  MaxItems = 1
SPECIFICATION Spec
INVARIANTS ReplayFaithful
CHECK_DEADLOCK FALSE
