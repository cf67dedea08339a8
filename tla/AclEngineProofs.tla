-------------------------- MODULE AclEngineProofs --------------------------
(***************************************************************************)
(* Proofs about the ACL engine of AclEngine, for every value of the        *)
(* constants that satisfies ConstantsAssumption.                          *)
(***************************************************************************)
EXTENDS AclEngine, TLAPS

-----------------------------------------------------------------------------
(***************************************************************************)
(* Lemmas about the data the engine builds.                                *)
(***************************************************************************)

\* Statement lists are built from single statements, optional single
\* statements and concatenations; the three keep a list a sequence of
\* statements.  (They are cited with Zenon, which instantiates them.)
LEMMA SingletonSeq ==
  ASSUME NEW S, NEW x \in S
  PROVE  <<x>> \in Seq(S)
OBVIOUS

LEMMA CondSingletonSeq ==
  ASSUME NEW S, NEW x \in S, NEW c
  PROVE  (IF c THEN <<x>> ELSE <<>>) \in Seq(S)
OBVIOUS

LEMMA ConcatSeq ==
  ASSUME NEW S, NEW a \in Seq(S), NEW b \in Seq(S)
  PROVE  a \o b \in Seq(S)
OBVIOUS

\* Every row of parseAclItem()'s table for relations and sequences is a
\* code and a keyword.
LEMMA TablePrivsType ==
  ASSUME NEW t, NEW v \in Nat, NEW s \in BOOLEAN
  PROVE  TablePrivs(t, v, s) \subseteq [code : CodeLetters, kw : Keywords]
<1> DEFINE Rows == {P("r", "SELECT"), P("U", "USAGE"), P("a", "INSERT"),
                   P("x", "REFERENCES"), P("d", "DELETE"), P("t", "TRIGGER"),
                   P("D", "TRUNCATE"), P("w", "UPDATE"), P("w", "UPDATE_DELETE")}
<1>1. Rows \subseteq [code : CodeLetters, kw : Keywords]
  BY DEF P, CodeLetters, Keywords
<1>2. TablePrivs(t, v, s) \subseteq Rows
  BY DEF TablePrivs
<1>. QED
  BY <1>1, <1>2

\* Every row of parseAclItem()'s privilege table is a code and a keyword.
LEMMA PrivTableType ==
  ASSUME NEW t, NEW v \in Nat, NEW s \in BOOLEAN
  PROVE  PrivTable(t, v, s) \subseteq [code : CodeLetters, kw : Keywords]
<1> DEFINE R == [code : CodeLetters, kw : Keywords]
<1>1. {P("X", "EXECUTE"), P("U", "USAGE"), P("C", "CREATE"), P("c", "CONNECT"),
       P("T", "TEMPORARY"), P("r", "SELECT"), P("w", "UPDATE")} \subseteq R
  BY DEF P, CodeLetters, Keywords
<1>2. TablePrivs(t, v, s) \subseteq R
  BY TablePrivsType
<1>. QED
  BY <1>1, <1>2, Zenon DEF PrivTable

\* The privilege lists parseAclItem() returns are sets of AddAcl() elements.
LEMMA ItemPrivsType ==
  ASSUME NEW it, version \in Nat, sub \in BOOLEAN
  PROVE  /\ ItemPrivs(it) \in SUBSET PrivElem
         /\ ItemPrivsWgo(it) \in SUBSET PrivElem
<1>1. Table \subseteq [code : CodeLetters, kw : Keywords]
  BY PrivTableType DEF Table
<1>2. \A m : Listed(it, m) \in SUBSET PrivElem
  BY <1>1 DEF Listed, PrivElem
<1>3. AllPriv \in PrivElem
  BY DEF AllPriv, PrivElem, Keywords
<1>. QED
  BY <1>2, <1>3 DEF ItemPrivs, ItemPrivsWgo

\* The statements of one item are statements.
LEMMA BlockType ==
  ASSUME ConstantsAssumption, NEW it \in RawItem,
         version \in Nat, sub \in BOOLEAN, owner \in Roles \cup {NoRole}
  PROVE  /\ OwnerBlock(it) \in Seq(Stmt)
         /\ GranteeBlock(it) \in Seq(Stmt)
<1>1. it.grantee \in Grantees
  BY DEF RawItem
<1>2. ResolvedGrantor(it) \in Roles \cup {NoRole}
  BY DEF ResolvedGrantor, RawItem, Grantors
<1>3. GrantsTo(it, it.grantee) \in Seq(Stmt)
  <2>1. Grant(ItemPrivs(it), it.grantee, FALSE) \in Stmt
    BY <1>1, ItemPrivsType DEF Grant, Stmt
  <2>2. Grant(ItemPrivsWgo(it), it.grantee, TRUE) \in Stmt
    BY <1>1, ItemPrivsType DEF Grant, Stmt
  <2>. QED
    BY <2>1, <2>2, CondSingletonSeq, ConcatSeq, Zenon DEF GrantsTo
<1>4. RevokeAll(it.grantee) \in Stmt
  BY <1>1 DEF RevokeAll, Stmt
<1>5. SetSessionAuth(ResolvedGrantor(it)) \in Stmt /\ ResetSessionAuth \in Stmt
  BY <1>2 DEF SetSessionAuth, ResetSessionAuth, Stmt, Grantees
<1>6. OwnerBlock(it) \in Seq(Stmt)
  <2>1. <<RevokeAll(it.grantee)>> \o GrantsTo(it, it.grantee) \in Seq(Stmt)
    BY <1>3, <1>4, SingletonSeq, ConcatSeq, Zenon
  <2>2. <<>> \in Seq(Stmt)
    OBVIOUS
  <2>. QED
    BY <2>1, <2>2, Zenon DEF OwnerBlock
<1>7. GranteeBlock(it) \in Seq(Stmt)
  <2>1. <<SetSessionAuth(ResolvedGrantor(it))>> \o GrantsTo(it, it.grantee)
          \o <<ResetSessionAuth>> \in Seq(Stmt)
    BY <1>3, <1>5, SingletonSeq, ConcatSeq, Zenon
  <2>. QED
    BY <2>1, <1>3, Zenon DEF GranteeBlock
<1>. QED
  BY <1>6, <1>7

\* The arrays Init chooses from are sequences of items.
LEMMA ServerAclsType ==
  ASSUME ConstantsAssumption, NEW o, NEW t, NEW v, NEW col
  PROVE  ServerAcls(o, t, v, col) \subseteq Seq(Item)
<1>1. ServerItems(t, v, col) \subseteq RawItem
  BY DEF ServerItems, RawItem, Grantors
<1>2. \A n \in 0..MaxItems : [1..n -> ServerItems(t, v, col) \cup {BadItem}] \subseteq Seq(Item)
  BY <1>1 DEF Item
<1>. QED
  BY <1>2 DEF ServerAcls

\* The legacy CONNECT grant of a pre-8.2 database is a statement list.
LEMMA LegacyDefaultsType == LegacyDefaults \in Seq(Stmt)
<1>1. {[kw |-> "CONNECT", col |-> FALSE]} \in SUBSET PrivElem
  BY DEF PrivElem, Keywords
<1>2. ConnectGrant \in Stmt
  BY <1>1, Zenon DEF ConnectGrant, Grant, Stmt, Grantees
<1>3. <<ConnectGrant>> \in Seq(Stmt)
  BY <1>2
<1>. QED
  BY <1>3 DEF LegacyDefaults

-----------------------------------------------------------------------------
(***************************************************************************)
(* Type correctness of buildACLCommands().                                 *)
(***************************************************************************)
\* Every state the engine reaches has its variables in their types: in
\* particular the three buffers are lists of statements and the loop index
\* never passes one beyond the end of the ACL array.
THEOREM TypeCorrect == Spec => []TypeOK
<1>1. Init => TypeOK
  <2> SUFFICES ASSUME Init PROVE TypeOK
    OBVIOUS
  <2>1. items \in Seq(Item)
    <3>1. CASE aclKind = "array"
      BY <3>1, ConstantsAssumption, ServerAclsType DEF Init
    <3>2. CASE aclKind # "array"
      BY <3>2 DEF Init
    <3>. QED
      BY <3>1, <3>2
  <2>2. sub \in BOOLEAN
    BY DEF Init
  <2>3. i \in 1..(Len(items) + 1)
    BY <2>1 DEF Init
  <2>4. <<>> \in Seq(Stmt)
    OBVIOUS
  <2>. QED
    BY <2>1, <2>2, <2>3, <2>4 DEF Init, TypeOK
<1>2. TypeOK /\ [Next]_vars => TypeOK'
  <2> SUFFICES ASSUME TypeOK, [Next]_vars PROVE TypeOK'
    OBVIOUS
  <2> USE DEF TypeOK
  <2>1. version \in Nat
    BY ConstantsAssumption
  <2>2. CASE DefaultPermissions
    BY <2>2 DEF DefaultPermissions, inputs
  <2>3. CASE ArrayDecodeError
    BY <2>3 DEF ArrayDecodeError, inputs
  <2>4. CASE BeginScan
    <3>1. <<RevokeAll(PUBLIC)>> \o LegacyDefaults \in Seq(Stmt)
      <4>1. RevokeAll(PUBLIC) \in Stmt
        BY DEF RevokeAll, Stmt, Grantees
      <4>. QED
        BY <4>1, LegacyDefaultsType, SingletonSeq, ConcatSeq, Zenon
    <3>. QED
      BY <2>4, <3>1 DEF BeginScan, inputs
  <2>5. CASE ItemSyntaxError
    BY <2>5 DEF ItemSyntaxError, inputs
  <2>6. CASE UnsupportedType
    BY <2>6 DEF UnsupportedType, inputs
  <2>7. CASE EmptyItem
    BY <2>7 DEF EmptyItem, inputs
  <2>8. CASE OwnerItem
    <3>1. items[i] \in RawItem
      BY <2>8 DEF OwnerItem, Item
    <3>2. firstsql \o OwnerBlock(items[i]) \in Seq(Stmt)
      BY <3>1, <2>1, BlockType, ConstantsAssumption, ConcatSeq, Zenon
    <3>. QED
      BY <2>8, <3>2 DEF OwnerItem, inputs
  <2>9. CASE GranteeItem
    <3>1. items[i] \in RawItem
      BY <2>9 DEF GranteeItem, Item
    <3>2. secondsql \o GranteeBlock(items[i]) \in Seq(Stmt)
      BY <3>1, <2>1, BlockType, ConstantsAssumption, ConcatSeq, Zenon
    <3>. QED
      BY <2>9, <3>2 DEF GranteeItem, inputs
  <2>10. CASE Finish
    <3>1. RevokeAll(owner) \in Stmt
      BY DEF RevokeAll, Stmt, Grantees
    <3>2. firstsql' \in Seq(Stmt)
      BY <2>10, <3>1, CondSingletonSeq, ConcatSeq, Zenon DEF Finish
    <3>3. sql' \in Seq(Stmt)
      BY <2>10, <3>2, ConcatSeq, Zenon DEF Finish
    <3>. QED
      BY <2>10, <3>2, <3>3 DEF Finish, inputs
  <2>11. CASE UNCHANGED vars
    BY <2>11 DEF vars
  <2>. QED
    BY <2>2, <2>3, <2>4, <2>5, <2>6, <2>7, <2>8, <2>9, <2>10, <2>11 DEF Next
<1>. QED
  BY <1>1, <1>2, PTL DEF Spec

-----------------------------------------------------------------------------
(***************************************************************************)
(* No partial output.  NoPartialOutput is not inductive: a step from a     *)
(* state with pc = "scan" and sql # <<>> to "failed" would break it.  The  *)
(* strengthening says the caller's buffer is only written by Finish, the  *)
(* step that ends the call.                                               *)
(***************************************************************************)
OutputOnlyWhenDone == pc # "done" => sql = <<>>

\* A failing or aborting call of buildACLCommands() leaves the caller's
\* buffer untouched, whatever the array and at whichever item it stops.
THEOREM NoPartialOutputHolds == Spec => []NoPartialOutput
<1>1. Init => OutputOnlyWhenDone
  BY DEF Init, OutputOnlyWhenDone
<1>2. OutputOnlyWhenDone /\ [Next]_vars => OutputOnlyWhenDone'
  <2> SUFFICES ASSUME OutputOnlyWhenDone, [Next]_vars PROVE OutputOnlyWhenDone'
    OBVIOUS
  <2>1. CASE Finish
    BY <2>1 DEF Finish, OutputOnlyWhenDone
  <2>2. CASE ~Finish
    BY <2>2 DEF Next, vars, DefaultPermissions, ArrayDecodeError, BeginScan,
                ItemSyntaxError, UnsupportedType, EmptyItem, OwnerItem,
                GranteeItem, OutputOnlyWhenDone
  <2>. QED
    BY <2>1, <2>2
<1>3. OutputOnlyWhenDone => NoPartialOutput
  BY DEF OutputOnlyWhenDone, NoPartialOutput
<1>. QED
  BY <1>1, <1>2, <1>3, PTL DEF Spec

=============================================================================
