----------------------------- MODULE AclEngine -----------------------------
(***************************************************************************)
(* The ACL reconstruction engine of pg_dumpacl.c: buildACLCommands() and   *)
(* the item parser and privilege mapper it calls, parseAclItem() and       *)
(* AddAcl().  One call of buildACLCommands() for one catalog object is one *)
(* behaviour: the inputs (object type, server version, column flag,        *)
(* owner and the ACL array) are fixed by Init, and the steps follow the    *)
(* function's control flow: the empty-ACL early return, the array decode,  *)
(* the baseline REVOKE, one step per ACL item, and the final concatenation *)
(* of the owner stream (firstsql) and the other stream (secondsql) into    *)
(* the caller's buffer (sql).                                              *)
(*                                                                         *)
(* Data is abstracted to what the properties tell apart: a role name is a  *)
(* model value, a privilege list is the set of its keywords (the comma     *)
(* order of the text is left out), a statement is a record.  The text      *)
(* scanners (parsePGArray, copyAclUserName) are abstracted to their        *)
(* outcome: the array is empty, undecodable, or a sequence of items, and   *)
(* an item is either undecodable (BadItem) or its decoded fields.          *)
(***************************************************************************)
EXTENDS Integers, Sequences, FiniteSets

CONSTANTS
  Roles,     \* role names that can be owner, grantee or grantor
  Groups,    \* names that appear as "group <name>" grantees (servers < 8.1)
  PUBLIC,    \* the empty grantee string of an ACL item
  NoRole,    \* the empty string: no grantor after '/', or no owner
  BadItem,   \* an ACL item parseAclItem() rejects (no '=', junk after grantor)
  Types,     \* object-type tags the caller passes as "type"
  Versions,  \* server versions the caller passes as remoteVersion
  Codes,     \* privilege code letters an ACL item may carry
  MaxItems   \* longest ACL array considered

ASSUME ConstantsAssumption ==
  /\ PUBLIC \notin Roles \cup Groups
  /\ NoRole \notin Roles \cup Groups \cup {PUBLIC}
  /\ Roles \cap Groups = {}
  /\ Versions \subseteq Nat
  /\ MaxItems \in Nat

Grantees == Roles \cup Groups \cup {PUBLIC}
Grantors == Roles \cup {NoRole}

\* A privilege code of an item is absent, present, or present with '*'.
Marks == {"absent", "plain", "wgo"}

(***************************************************************************)
(* What copyAclUserName() and the '=' / '/' split of parseAclItem() yield: *)
(* the grantee, the grantor, and the mark of each code the item carries.   *)
(* strchr(eqpos + 1, code) finds a code; a '*' after it is the grant       *)
(* option.                                                                 *)
(***************************************************************************)
RawItem == [grantee : Grantees, grantor : Grantors,
            codes : UNION {[C -> Marks] : C \in SUBSET Codes}]

Mark(it, c) == IF c \in DOMAIN it.codes THEN it.codes[c] ELSE "absent"

-----------------------------------------------------------------------------
(***************************************************************************)
(* The privilege table of parseAclItem(): the (code, keyword) pairs that   *)
(* CONVERT_PRIV is applied to, for an object type, a server version and    *)
(* whether a column (subname) is given.  An unsupported type has none and  *)
(* makes parseAclItem() call abort().                                      *)
(***************************************************************************)
\* Type names and the keyword "UPDATE,DELETE" are written with '_' where the
\* code's strings have ' ' or ','.
P(c, k) == [code |-> c, kw |-> k]

TableTypes    == {"TABLE", "SEQUENCE", "TABLES", "SEQUENCES"}
SequenceTypes == {"SEQUENCE", "SEQUENCES"}
UsageTypes    == {"LANGUAGE", "TYPE", "TYPES", "FOREIGN_DATA_WRAPPER",
                  "FOREIGN_SERVER"}

SupportedTypes ==
  TableTypes \cup UsageTypes \cup
  {"FUNCTION", "FUNCTIONS", "SCHEMA", "DATABASE", "TABLESPACE",
   "FOREIGN_TABLE", "LARGE_OBJECT"}

\* Table and sequence privileges, with their version and column gates.
TablePrivs(t, v, sub) ==
  {P("r", "SELECT")}
  \cup (IF t \in SequenceTypes THEN {P("U", "USAGE")} ELSE {})
  \cup (IF t \notin SequenceTypes THEN {P("a", "INSERT")} ELSE {})
  \cup (IF t \notin SequenceTypes /\ v >= 70200
          THEN {P("x", "REFERENCES")} ELSE {})
  \cup (IF t \notin SequenceTypes /\ ~sub /\ v >= 70200
          THEN {P("d", "DELETE"), P("t", "TRIGGER")} ELSE {})
  \cup (IF t \notin SequenceTypes /\ ~sub /\ v >= 80400
          THEN {P("D", "TRUNCATE")} ELSE {})
  \cup (IF v >= 70200 \/ t \in SequenceTypes
          THEN {P("w", "UPDATE")} ELSE {P("w", "UPDATE_DELETE")})

PrivTable(t, v, sub) ==
  CASE t \in TableTypes                -> TablePrivs(t, v, sub)
    [] t \in {"FUNCTION", "FUNCTIONS"} -> {P("X", "EXECUTE")}
    [] t \in UsageTypes                -> {P("U", "USAGE")}
    [] t = "SCHEMA"     -> {P("C", "CREATE"), P("U", "USAGE")}
    [] t = "DATABASE"   -> {P("C", "CREATE"), P("c", "CONNECT"),
                            P("T", "TEMPORARY")}
    [] t = "TABLESPACE" -> {P("C", "CREATE")}
    [] t = "FOREIGN_TABLE" -> {P("r", "SELECT")}
    [] t = "LARGE_OBJECT"  -> {P("r", "SELECT"), P("w", "UPDATE")}
    [] OTHER -> {}

\* The code letters and SQL keywords of the table, and ALL.
CodeLetters == {"r", "U", "a", "x", "d", "t", "D", "w", "X", "C", "c", "T"}
Keywords == {"SELECT", "USAGE", "INSERT", "REFERENCES", "DELETE", "TRIGGER",
             "TRUNCATE", "UPDATE", "UPDATE_DELETE", "EXECUTE", "CREATE",
             "CONNECT", "TEMPORARY", "ALL"}

\* An element of a privilege list as AddAcl() writes it: the keyword,
\* followed by "(subname)" when a column is given.
PrivElem == [kw : Keywords, col : BOOLEAN]

-----------------------------------------------------------------------------
(***************************************************************************)
(* The statements buildACLCommands() appends.  Every statement record has  *)
(* the same fields; the ones a statement does not use hold {} / NoRole /   *)
(* FALSE.  "to" is the fmtId()-quoted role, PUBLIC, or GROUP <name>.       *)
(***************************************************************************)
Stmt == [op : {"REVOKE", "GRANT", "SETAUTH", "RESETAUTH"},
         privs : SUBSET PrivElem, to : Grantees \cup {NoRole}, wgo : BOOLEAN]

RevokeAll(g)       == [op |-> "REVOKE", privs |-> {}, to |-> g, wgo |-> FALSE]
Grant(ps, g, go)   == [op |-> "GRANT", privs |-> ps, to |-> g, wgo |-> go]
SetSessionAuth(r)  == [op |-> "SETAUTH", privs |-> {}, to |-> r, wgo |-> FALSE]
ResetSessionAuth   == [op |-> "RESETAUTH", privs |-> {}, to |-> NoRole,
                       wgo |-> FALSE]

-----------------------------------------------------------------------------
VARIABLES
  type, version, sub, owner,  \* the call's inputs (name and prefix left out)
  aclKind,    \* "empty" (strlen(acls) == 0), "bad" (parsePGArray fails), "array"
  items,      \* the decoded ACL items, in array order
  pc,         \* "start", "scan", "done" (returned true), "failed"
              \* (returned false) or "aborted" (abort() in parseAclItem)
  i,          \* index of the next ACL item to scan
  found,      \* found_owner_privs
  firstsql,   \* owner stream
  secondsql,  \* other stream
  sql         \* the caller's output buffer

inputs == <<type, version, sub, owner, aclKind, items>>
vars == <<type, version, sub, owner, aclKind, items, pc, i, found,
          firstsql, secondsql, sql>>

Item == RawItem \cup {BadItem}

(***************************************************************************)
(* ACL arrays a server can hold.  Each (grantee, grantor) pair occurs at   *)
(* most once (aclupdate merges them), the grantor is always written after  *)
(* '/' (aclitemout), an item carries only codes its server knows, PUBLIC  *)
(* never holds a grant option, and the grant options every non-owner       *)
(* grantor used are held by it: the items can be ordered so that each grant by a role other than the owner  *)
(* comes after an item giving that role the option (Ordered).  The server  *)
(* does not keep them in that order: see README, "array order".            *)
(***************************************************************************)
Parsed(s) == {j \in 1..Len(s) : s[j] # BadItem}

UniquePairs(s) ==
  \A j, k \in Parsed(s) :
    j # k => <<s[j].grantee, s[j].grantor>> # <<s[k].grantee, s[k].grantor>>

\* The codes a server of version v writes for the object: those of the
\* table, except database CONNECT before 8.2, when it did not exist.
ServerCodes(t, v, col) ==
  {e.code : e \in PrivTable(t, v, col)} \ (IF t = "DATABASE" /\ v < 80200 THEN {"c"} ELSE {})

\* The items such a server writes, over the codes of the model.
ServerItems(t, v, col) ==
  [grantee : Grantees, grantor : Roles,
   codes : [ServerCodes(t, v, col) \cap Codes -> Marks]]

NoPublicOption(s) ==
  \A j \in Parsed(s) : s[j].grantee = PUBLIC => \A c \in Codes : Mark(s[j], c) # "wgo"

Ordered(s, o) ==
  \A j \in Parsed(s) :
    s[j].grantor \notin {o, NoRole} =>
      \A c \in Codes : Mark(s[j], c) # "absent" =>
        \E k \in Parsed(s) : k < j /\ s[k].grantee = s[j].grantor
                                   /\ Mark(s[k], c) = "wgo"

Reorderings(n) == {f \in [1..n -> 1..n] : \A k \in 1..n : \E j \in 1..n : f[j] = k}

ServerAcls(o, t, v, col) ==
  {s \in UNION {[1..n -> ServerItems(t, v, col) \cup {BadItem}] : n \in 0..MaxItems} :
     /\ UniquePairs(s)
     /\ NoPublicOption(s)
     /\ o # NoRole =>
          \E f \in Reorderings(Len(s)) : Ordered([j \in 1..Len(s) |-> s[f[j]]], o)}

-----------------------------------------------------------------------------
(***************************************************************************)
(* parseAclItem() on a decoded item: the privs and privswgo lists after    *)
(* CONVERT_PRIV, collapsed to ALL when every code of the table is present  *)
(* with '*' (all_with_go) or every one without it (all_without_go).        *)
(***************************************************************************)
Table == PrivTable(type, version, sub)

AllPriv == [kw |-> "ALL", col |-> sub]

Listed(it, m) == {[kw |-> e.kw, col |-> sub] : e \in {e \in Table : Mark(it, e.code) = m}}

AllWithGo(it)    == \A e \in Table : Mark(it, e.code) = "wgo"
AllWithoutGo(it) == \A e \in Table : Mark(it, e.code) = "plain"

ItemPrivs(it) ==
  IF AllWithGo(it) THEN {} ELSE IF AllWithoutGo(it) THEN {AllPriv} ELSE Listed(it, "plain")

ItemPrivsWgo(it) ==
  IF AllWithGo(it) THEN {AllPriv} ELSE IF AllWithoutGo(it) THEN {} ELSE Listed(it, "wgo")

\* The grantor after "if (grantor->len == 0 && owner)": the owner stands in.
ResolvedGrantor(it) == IF it.grantor = NoRole /\ owner # NoRole THEN owner ELSE it.grantor

-----------------------------------------------------------------------------
(***************************************************************************)
(* The statements of one item.                                             *)
(***************************************************************************)
\* Owner: the default is ALL WITH GRANT OPTION (only ALL before 7.4).
OwnerHasDefault(it) ==
  IF version >= 70400 THEN ItemPrivsWgo(it) = {[kw |-> "ALL", col |-> FALSE]}
                      ELSE ItemPrivs(it) = {[kw |-> "ALL", col |-> FALSE]}

GrantsTo(it, g) ==
  (IF ItemPrivs(it) # {} THEN <<Grant(ItemPrivs(it), g, FALSE)>> ELSE <<>>)
  \o (IF ItemPrivsWgo(it) # {} THEN <<Grant(ItemPrivsWgo(it), g, TRUE)>> ELSE <<>>)

OwnerBlock(it) ==
  IF OwnerHasDefault(it) THEN <<>> ELSE <<RevokeAll(it.grantee)>> \o GrantsTo(it, it.grantee)

\* Grants recorded under another grantor are wrapped in SET/RESET SESSION AUTHORIZATION.
NeedsSession(it) ==
  ResolvedGrantor(it) # NoRole /\ (owner = NoRole \/ owner # ResolvedGrantor(it))

\* Mutant: RESET SESSION AUTHORIZATION only inside the "if (privs->len > 0)" block.
GranteeBlockResetWithPrivs(it) ==
  IF NeedsSession(it)
    THEN <<SetSessionAuth(ResolvedGrantor(it))>> \o GrantsTo(it, it.grantee)
           \o (IF ItemPrivs(it) # {} THEN <<ResetSessionAuth>> ELSE <<>>)
    ELSE GrantsTo(it, it.grantee)

GranteeBlock(it) ==
  IF NeedsSession(it)
    THEN <<SetSessionAuth(ResolvedGrantor(it))>> \o GrantsTo(it, it.grantee)
           \o <<ResetSessionAuth>>
    ELSE GrantsTo(it, it.grantee)

\* Database CONNECT did not exist before 8.2: give it back to PUBLIC.
ConnectGrant == Grant({[kw |-> "CONNECT", col |-> FALSE]}, PUBLIC, FALSE)

LegacyDefaults ==
  IF version < 80200 /\ type = "DATABASE" THEN <<ConnectGrant>> ELSE <<>>

-----------------------------------------------------------------------------
Init ==
  /\ type \in Types
  /\ version \in Versions
  /\ sub \in (IF type = "TABLE" THEN BOOLEAN ELSE {FALSE})
  /\ owner \in Roles \cup {NoRole}
  /\ aclKind \in {"empty", "bad", "array"}
  /\ items \in (IF aclKind = "array" THEN ServerAcls(owner, type, version, sub) ELSE {<<>>})
  /\ pc = "start"
  /\ i = 1
  /\ found = FALSE
  /\ firstsql = <<>>
  /\ secondsql = <<>>
  /\ sql = <<>>

\* strlen(acls) == 0: the object has default permissions, nothing is emitted.
DefaultPermissions ==
  /\ pc = "start" /\ aclKind = "empty"
  /\ pc' = "done"
  /\ UNCHANGED <<inputs, i, found, firstsql, secondsql, sql>>

\* parsePGArray() fails: return false.
ArrayDecodeError ==
  /\ pc = "start" /\ aclKind = "bad"
  /\ pc' = "failed"
  /\ UNCHANGED <<inputs, i, found, firstsql, secondsql, sql>>

\* Mutant: the baseline statements written straight into the caller's buffer.
BeginScanIntoSql ==
  /\ pc = "start" /\ aclKind = "array"
  /\ firstsql' = <<>>
  /\ sql' = sql \o <<RevokeAll(PUBLIC)>> \o LegacyDefaults
  /\ pc' = "scan"
  /\ UNCHANGED <<inputs, i, found, secondsql>>

\* The baseline REVOKE ALL FROM PUBLIC, and the pre-8.2 CONNECT restore.
BeginScan ==
  /\ pc = "start" /\ aclKind = "array"
  /\ firstsql' = <<RevokeAll(PUBLIC)>> \o LegacyDefaults
  /\ pc' = "scan"
  /\ UNCHANGED <<inputs, i, found, secondsql, sql>>

\* parseAclItem() returns false: buildACLCommands() returns false.
ItemSyntaxError ==
  /\ pc = "scan" /\ i <= Len(items)
  /\ items[i] = BadItem
  /\ pc' = "failed"
  /\ UNCHANGED <<inputs, i, found, firstsql, secondsql, sql>>

\* parseAclItem() meets a type it has no table for: abort().
UnsupportedType ==
  /\ pc = "scan" /\ i <= Len(items)
  /\ items[i] # BadItem
  /\ type \notin SupportedTypes
  /\ pc' = "aborted"
  /\ UNCHANGED <<inputs, i, found, firstsql, secondsql, sql>>

\* Mutant: the loop index advanced twice past an empty item.
EmptyItemSkipTwo ==
  /\ pc = "scan" /\ i <= Len(items)
  /\ items[i] # BadItem
  /\ type \in SupportedTypes
  /\ ItemPrivs(items[i]) = {} /\ ItemPrivsWgo(items[i]) = {}
  /\ i' = i + 2
  /\ UNCHANGED <<inputs, pc, found, firstsql, secondsql, sql>>

\* An item with no privilege of the table emits nothing.
EmptyItem ==
  /\ pc = "scan" /\ i <= Len(items)
  /\ items[i] # BadItem
  /\ type \in SupportedTypes
  /\ ItemPrivs(items[i]) = {} /\ ItemPrivsWgo(items[i]) = {}
  /\ i' = i + 1
  /\ UNCHANGED <<inputs, pc, found, firstsql, secondsql, sql>>

\* Grantee and (resolved) grantor are the owner: the owner block.
OwnerItem ==
  /\ pc = "scan" /\ i <= Len(items)
  /\ LET it == items[i] IN
       /\ it # BadItem
       /\ type \in SupportedTypes
       /\ ItemPrivs(it) # {} \/ ItemPrivsWgo(it) # {}
       /\ owner # NoRole /\ it.grantee = owner /\ ResolvedGrantor(it) = owner
       /\ found' = TRUE
       /\ firstsql' = firstsql \o OwnerBlock(it)
  /\ i' = i + 1
  /\ UNCHANGED <<inputs, pc, secondsql, sql>>

\* Any other grantee: appended to the other stream.
GranteeItem ==
  /\ pc = "scan" /\ i <= Len(items)
  /\ LET it == items[i] IN
       /\ it # BadItem
       /\ type \in SupportedTypes
       /\ ItemPrivs(it) # {} \/ ItemPrivsWgo(it) # {}
       /\ ~(owner # NoRole /\ it.grantee = owner /\ ResolvedGrantor(it) = owner)
       /\ secondsql' = secondsql \o GranteeBlock(it)
  /\ i' = i + 1
  /\ UNCHANGED <<inputs, pc, found, firstsql, sql>>

\* Mutant: the other stream pasted before the owner stream.
FinishOthersFirst ==
  /\ pc = "scan" /\ i > Len(items)
  /\ firstsql' = firstsql \o (IF ~found /\ owner # NoRole THEN <<RevokeAll(owner)>> ELSE <<>>)
  /\ sql' = sql \o secondsql \o firstsql'
  /\ pc' = "done"
  /\ UNCHANGED <<inputs, i, found, secondsql>>

\* After the loop: REVOKE from an owner with no privileges, then the owner
\* stream and the other stream are pasted into the caller's buffer.
Finish ==
  /\ pc = "scan" /\ i > Len(items)
  /\ firstsql' = firstsql \o (IF ~found /\ owner # NoRole THEN <<RevokeAll(owner)>> ELSE <<>>)
  /\ sql' = sql \o firstsql' \o secondsql
  /\ pc' = "done"
  /\ UNCHANGED <<inputs, i, found, secondsql>>

Next ==
  \/ DefaultPermissions \/ ArrayDecodeError \/ BeginScan
  \/ ItemSyntaxError \/ UnsupportedType \/ EmptyItem \/ OwnerItem \/ GranteeItem
  \/ Finish

Spec == Init /\ [][Next]_vars

-----------------------------------------------------------------------------
\* Type invariant.
TypeOK ==
  /\ type \in Types /\ version \in Versions /\ sub \in BOOLEAN
  /\ owner \in Roles \cup {NoRole}
  /\ aclKind \in {"empty", "bad", "array"}
  /\ items \in Seq(Item)
  /\ pc \in {"start", "scan", "done", "failed", "aborted"}
  /\ i \in 1..(Len(items) + 1)
  /\ found \in BOOLEAN
  /\ firstsql \in Seq(Stmt) /\ secondsql \in Seq(Stmt) /\ sql \in Seq(Stmt)

(***************************************************************************)
(* A call that fails (an undecodable array or item) or aborts leaves the   *)
(* caller's buffer as it was: the spec's "no partial statements" (its      *)
(* section 7), which buildACLCommands() gets by writing into firstsql and  *)
(* secondsql and pasting them only after the last item is parsed.          *)
(***************************************************************************)
NoPartialOutput == pc \in {"failed", "aborted"} => sql = <<>>

(***************************************************************************)
(* The spec (4.5, 7 and 9): an object type parseAclItem() has no privilege *)
(* table for is an unsupported-type failure that is reported to the        *)
(* caller, never a process abort.  The code calls abort() (line 1248).     *)
(***************************************************************************)
UnsupportedTypeReported == pc # "aborted"

=============================================================================
