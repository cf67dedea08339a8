---------------------------- MODULE MC_AclEngine ----------------------------
(***************************************************************************)
(* Model-checking instance of the ACL engine: two roles (one of them the   *)
(* owner, or no owner), PUBLIC, one pre-8.1 group, and ACL arrays of up to *)
(* MaxItems items over the privilege codes of the object type checked.    *)
(***************************************************************************)
EXTENDS AclReplay, TLC

CONSTANTS alice, bob, grp

MCRoles  == {alice, bob}
MCGroups == {grp}

\* Server versions pg_dumpacl accepts (>= 8.0): before and after database
\* CONNECT (8.2), and before and after TRUNCATE (8.4).
MCVersions == {80100, 80400}

MCDatabaseCodes == {"C", "c", "T"}
\* Table, column and sequence codes (column grants use r, a, x, w only).
MCRelationCodes == {"r", "a", "x", "w", "d", "t", "D", "U"}

\* The relation types, and a tag parseAclItem() has no table for.
MCRelationTypes == {"TABLE", "SEQUENCE", "VIEW"}

RoleSymmetry == Permutations(MCRoles)
=============================================================================
