----------------------------- MODULE AclReplay -----------------------------
(***************************************************************************)
(* What the statements buildACLCommands() emits do when the script is      *)
(* replayed on the destination server, and the properties that compare    *)
(* the replayed ACL with the source ACL.  This module is the oracle: it    *)
(* models the server's GRANT / REVOKE / SET SESSION AUTHORIZATION, not     *)
(* code of pg_dumpacl.c.                                                   *)
(*                                                                         *)
(*  - A fresh object gives its owner every privilege with grant option and *)
(*    PUBLIC the type's default privileges, both recorded as granted by    *)
(*    the owner.                                                           *)
(*  - The script runs as a superuser, which acts as the owner; SET SESSION *)
(*    AUTHORIZATION r makes r the grantor of the following grants, RESET   *)
(*    makes the owner the grantor again.                                   *)
(*  - REVOKE ALL FROM g removes what the current grantor granted to g.     *)
(*  - GRANT p TO g by grantor r records (g, r, p) if r is the owner, who   *)
(*    never loses grant options, or if r holds p with grant option;        *)
(*    otherwise the server grants nothing (a warning).                     *)
(***************************************************************************)
EXTENDS AclEngine

\* The destination is a server of the version pg_dumpacl is built with.
DestVersion == 100000

DestTable == PrivTable(type, DestVersion, sub)
SrcCodes  == {e.code : e \in Table}
DCodes    == Codes \cup {e.code : e \in DestTable}

\* The privileges the server gives PUBLIC on a new object (acldefault).
DefaultPublic ==
  CASE type = "DATABASE"                -> {"c", "T"}
    [] type \in {"FUNCTION", "FUNCTIONS"} -> {"X"}
    [] type \in {"LANGUAGE", "TYPE", "TYPES"} -> {"U"}
    [] OTHER -> {}

\* The privilege codes a keyword of a GRANT names on the destination.
KwCodes(k) ==
  IF k = "ALL" THEN {e.code : e \in DestTable}
  ELSE IF k = "UPDATE_DELETE" THEN {"w", "d"}
  ELSE {e.code : e \in {e \in DestTable \cup Table : e.kw = k}}

StmtCodes(s) == UNION {KwCodes(p.kw) : p \in s.privs}

Keys == Grantees \X Roles \X DCodes

ReplayStart ==
  [acl |-> [k \in Keys |->
              IF k[1] = owner /\ k[2] = owner /\ k[3] \in {e.code : e \in DestTable}
                THEN "wgo"
              ELSE IF k[1] = PUBLIC /\ k[2] = owner /\ k[3] \in DefaultPublic
                THEN "plain"
              ELSE "absent"],
   session |-> owner]

CanGrant(st, c) == st.session = owner \/ \E r \in Roles : st.acl[<<st.session, r, c>>] = "wgo"

Upgrade(m, go) == IF go THEN "wgo" ELSE IF m = "absent" THEN "plain" ELSE m

Apply(st, s) ==
  CASE s.op = "REVOKE" ->
         [st EXCEPT !.acl = [k \in Keys |->
            IF k[1] = s.to /\ k[2] = st.session THEN "absent" ELSE st.acl[k]]]
    [] s.op = "GRANT" ->
         [st EXCEPT !.acl = [k \in Keys |->
            IF k[1] = s.to /\ k[2] = st.session /\ k[3] \in StmtCodes(s)
               /\ CanGrant(st, k[3])
              THEN Upgrade(st.acl[k], s.wgo) ELSE st.acl[k]]]
    [] s.op = "SETAUTH"   -> [st EXCEPT !.session = s.to]
    [] s.op = "RESETAUTH" -> [st EXCEPT !.session = owner]

Replay(script) ==
  LET R[n \in 0..Len(script)] == IF n = 0 THEN ReplayStart ELSE Apply(R[n - 1], script[n])
  IN  R[Len(script)]

(***************************************************************************)
(* The ACL the source object had, as the destination should hold it: each *)
(* item's codes under its grantee and resolved grantor, and, for a         *)
(* database of a server older than 8.2 (which had no CONNECT privilege:   *)
(* anyone could connect), CONNECT for PUBLIC.                              *)
(***************************************************************************)
SourceMark(k) ==
  LET js == {j \in Parsed(items) : items[j].grantee = k[1]
                                   /\ ResolvedGrantor(items[j]) = k[2]
                                   /\ Mark(items[j], k[3]) # "absent"}
  IN  IF js # {} THEN Mark(items[CHOOSE j \in js : TRUE], k[3])
      ELSE IF type = "DATABASE" /\ version < 80200 /\ k = <<PUBLIC, owner, "c">>
        THEN "plain"
      ELSE "absent"

ReproducesSource ==
  LET final == Replay(sql) IN
  \A k \in Grantees \X Roles \X SrcCodes : final.acl[k] = SourceMark(k)

-----------------------------------------------------------------------------
(***************************************************************************)
(* Replaying the script of an object whose ACL array lists every grant     *)
(* after the grant option it depends on gives every grantee exactly the    *)
(* privileges, grant options and grantors of the source, for every code    *)
(* the source server knows.  This is what buildACLCommands() is for: the   *)
(* baseline REVOKE, the owner block and its final REVOKE, the ALL          *)
(* collapsing of parseAclItem(), the session wrappers, and the owner       *)
(* stream pasted before the other stream must all be right.               *)
(***************************************************************************)
ReplayFaithful ==
  (pc = "done" /\ aclKind = "array" /\ owner # NoRole /\ Ordered(items, owner))
    => ReproducesSource

(***************************************************************************)
(* The same for every ACL array a server can hold, in whatever order the   *)
(* server keeps its items: the spec (4.1) says the array order is not      *)
(* significant to correctness.                                             *)
(***************************************************************************)
ReplayFaithfulAnyOrder ==
  (pc = "done" /\ aclKind = "array" /\ owner # NoRole) => ReproducesSource

(***************************************************************************)
(* After an object's statements the session is the owner's again: every    *)
(* SET SESSION AUTHORIZATION of buildACLCommands() is undone before it     *)
(* returns, so the statements the caller writes next (dumpDatabaseConfig's *)
(* ALTER DATABASE, the next object's grants) run with the caller's         *)
(* identity.                                                               *)
(***************************************************************************)
SessionRestored == pc = "done" => Replay(sql).session = owner

=============================================================================
