-------------------------- MODULE DumpDriverProofs --------------------------
(***************************************************************************)
(* Proofs about dumpCreateDB()'s output, for every MaxAttempts, every      *)
(* setconfig array and every server version.                               *)
(***************************************************************************)
EXTENDS DumpDriver, TLAPS

\* A statement printed to OPF; its setting is none or an entry of an array.
SetVals == {NoSetting} \cup {Settings[d][k] : d \in DumpNames, k \in Nat}
StmtSet == [kind : {"create", "acl", "alter"}, db : DumpNames, set : SetVals]

\* No database is a row twice.
NoDup(s) == \A i, j \in 1..Len(s) : i # j => s[i] # s[j]

(***************************************************************************)
(* ScriptReplays is not inductive: that the CREATE DATABASE a DumpRow step *)
(* prints is the first for its database rests on the rows being distinct   *)
(* and on every statement printed so far naming a row already passed (or   *)
(* the current one, inside dumpDatabaseConfig()); that an ALTER of the     *)
(* current row names a database the script has rests on its CREATE having *)
(* been printed by the DumpRow step before.                                *)
(***************************************************************************)
DumpShape ==
  /\ rows \in Seq(DumpNames) /\ NoDup(rows)
  /\ ri \in 1..(Len(rows) + 1)
  /\ dpc \in {"idle", "row", "config", "done", "lost"}
  /\ dpc = "config" => ri <= Len(rows)
  /\ count \in Nat
  /\ out \in Seq(StmtSet)
  /\ dpc = "idle" => out = <<>>

\* Every statement printed names a row the loop has reached.
OutFromRows ==
  \A k \in 1..Len(out) :
    \E j \in 1..Len(rows) :
      /\ out[k].db = rows[j]
      /\ j < ri \/ (j = ri /\ dpc \in {"config", "lost"})

\* Inside dumpDatabaseConfig() the current database exists in the script.
CurrentCreated ==
  dpc = "config" =>
    \/ rows[ri] \in Preexisting
    \/ \E k \in 1..Len(out) : out[k].kind = "create" /\ out[k].db = rows[ri]

IInv == DumpShape /\ OutFromRows /\ CurrentCreated /\ ScriptReplays

-----------------------------------------------------------------------------
(***************************************************************************)
(* Lemmas on the datname query's rows.                                     *)
(***************************************************************************)

\* Adding a name not yet among the rows keeps them distinct.
LEMMA AddRowFacts ==
  ASSUME NEW s \in Seq(DumpNames), NoDup(s),
         NEW T \in SUBSET DumpNames, \A i \in 1..Len(s) : s[i] \in T,
         NEW d \in DumpNames \ T
  PROVE  /\ AddRow(s, d) \in Seq(DumpNames)
         /\ NoDup(AddRow(s, d))
         /\ \A i \in 1..Len(AddRow(s, d)) : AddRow(s, d)[i] \in T \cup {d}
<1>1. CASE Selected(d)
  BY <1>1 DEF AddRow, NoDup
<1>2. CASE ~Selected(d)
  BY <1>2 DEF AddRow
<1>. QED
  BY <1>1, <1>2

\* The rows so far hold names of SortedNames before the k-th only.
RowsBefore(s, k) ==
  /\ s \in Seq(DumpNames) /\ NoDup(s)
  /\ \A i \in 1..Len(s) : \E j \in 1..(k - 1) : s[i] = SortedNames[j]

\* One AddRow of the k-th name of SortedNames.
LEMMA AddRowStep ==
  ASSUME NEW k \in 1..6, NEW s, RowsBefore(s, k)
  PROVE  RowsBefore(AddRow(s, SortedNames[k]), k + 1)
<1> DEFINE T == {SortedNames[j] : j \in 1..(k - 1)}
<1>1. T \in SUBSET DumpNames /\ SortedNames[k] \in DumpNames \ T
  BY DEF SortedNames, DumpNames, Dbs
<1>2. \A i \in 1..Len(s) : s[i] \in T
  BY DEF RowsBefore
<1>3. /\ AddRow(s, SortedNames[k]) \in Seq(DumpNames)
      /\ NoDup(AddRow(s, SortedNames[k]))
      /\ \A i \in 1..Len(AddRow(s, SortedNames[k])) :
           AddRow(s, SortedNames[k])[i] \in T \cup {SortedNames[k]}
  BY <1>1, <1>2, AddRowFacts DEF RowsBefore
<1>. QED
  BY <1>3 DEF RowsBefore

\* The rows of the datname query are database names, none twice.
LEMMA RowsFacts == Rows \in Seq(DumpNames) /\ NoDup(Rows)
<1>0. RowsBefore(<<>>, 1)
  BY DEF RowsBefore, NoDup
<1>1. RowsBefore(AddRow(<<>>, "conn"), 2)
  <2>1. SortedNames[1] = "conn"
    BY DEF SortedNames
  <2>. QED
    BY <1>0, <2>1, AddRowStep
<1>2. RowsBefore(AddRow(AddRow(<<>>, "conn"), "d"), 3)
  <2>1. SortedNames[2] = "d"
    BY DEF SortedNames
  <2>. QED
    BY <1>1, <2>1, AddRowStep
<1>3. RowsBefore(AddRow(AddRow(AddRow(<<>>, "conn"), "d"), "env"), 4)
  <2>1. SortedNames[3] = "env"
    BY DEF SortedNames
  <2>. QED
    BY <1>2, <2>1, AddRowStep
<1>4. RowsBefore(AddRow(AddRow(AddRow(AddRow(<<>>, "conn"), "d"), "env"), "postgres"), 5)
  <2>1. SortedNames[4] = "postgres"
    BY DEF SortedNames
  <2>. QED
    BY <1>3, <2>1, AddRowStep
<1>5. RowsBefore(AddRow(AddRow(AddRow(AddRow(AddRow(<<>>, "conn"), "d"), "env"), "postgres"), "template1"), 6)
  <2>1. SortedNames[5] = "template1"
    BY DEF SortedNames
  <2>. QED
    BY <1>4, <2>1, AddRowStep
<1>6. RowsBefore(AddRow(AddRow(AddRow(AddRow(AddRow(AddRow(<<>>, "conn"), "d"), "env"), "postgres"), "template1"), "user"), 7)
  <2>1. SortedNames[6] = "user"
    BY DEF SortedNames
  <2>. QED
    BY <1>5, <2>1, AddRowStep
<1>. QED
  BY <1>6 DEF Rows, RowsBefore

-----------------------------------------------------------------------------
(***************************************************************************)
(* Lemmas on scripts.  CB(o, k) is CreatedBefore(k) for an output o, and  *)
(* Replays(o) is ScriptReplays for it: statements are only ever appended, *)
(* so a statement already printed keeps the databases it was checked      *)
(* against.                                                                *)
(***************************************************************************)
CB(o, k) ==
  Preexisting \cup {o[j].db : j \in {j2 \in 1..(k - 1) : o[j2].kind = "create"}}

Replays(o) ==
  \A k \in 1..Len(o) :
    IF o[k].kind = "create" THEN o[k].db \notin CB(o, k) ELSE o[k].db \in CB(o, k)

\* The invariant's conjunct is Replays of the output.
LEMMA ReplaysDef == ScriptReplays = Replays(out) /\ ScriptReplays' = Replays(out')
BY DEF ScriptReplays, CreatedBefore, Replays, CB

\* What an appended statement adds to the databases a replay has.
LEMMA CBAppend ==
  ASSUME NEW o \in Seq(StmtSet), NEW x \in StmtSet
  PROVE  /\ \A k \in 1..(Len(o) + 1) : CB(Append(o, x), k) = CB(o, k)
         /\ x.kind = "create" => x.db \in CB(Append(o, x), Len(o) + 2)
BY DEF CB

\* A database is missing from a replay when it is not preexisting and no
\* CREATE DATABASE of the output names it.
LEMMA CBFresh ==
  ASSUME NEW o \in Seq(StmtSet), NEW d, d \notin Preexisting,
         \A j \in 1..Len(o) : o[j].kind = "create" => o[j].db # d
  PROVE  d \notin CB(o, Len(o) + 1)
BY DEF CB

\* Appending a statement that replays keeps the whole script replaying.
LEMMA ReplaysAppend ==
  ASSUME NEW o \in Seq(StmtSet), Replays(o), NEW x \in StmtSet,
         x.kind = "create" => x.db \notin CB(o, Len(o) + 1),
         x.kind # "create" => x.db \in CB(o, Len(o) + 1)
  PROVE  Replays(Append(o, x))
<1>1. \A k \in 1..(Len(o) + 1) : CB(Append(o, x), k) = CB(o, k)
  BY CBAppend
<1>. QED
  BY <1>1 DEF Replays

\* The statements dumpCreateDB() prints are statements.
LEMMA StmtType ==
  ASSUME NEW d \in DumpNames, NEW c \in Nat
  PROVE  /\ Stmt("create", d, NoSetting) \in StmtSet
         /\ Stmt("acl", d, NoSetting) \in StmtSet
         /\ Stmt("alter", d, Setting(d, c)) \in StmtSet
<1>1. Setting(d, c) \in SetVals
  BY DEF Setting, SetVals
<1>. QED
  BY <1>1 DEF Stmt, StmtSet, SetVals

-----------------------------------------------------------------------------
\* IInv holds before main() connects.
LEMMA InitIInv == DumpInit => IInv
<1> SUFFICES ASSUME DumpInit PROVE IInv
  OBVIOUS
<1>1. DumpShape
  BY DEF DumpInit, DumpShape, NoDup
<1>. QED
  BY <1>1 DEF DumpInit, IInv, OutFromRows, CurrentCreated, ScriptReplays

\* A step that leaves the dump's variables alone keeps IInv.
LEMMA DumpVarsUnchanged ==
  ASSUME IInv, UNCHANGED dumpVars
  PROVE  IInv'
BY DEF IInv, dumpVars, DumpShape, NoDup, StmtSet, OutFromRows, CurrentCreated,
       ScriptReplays, CreatedBefore

\* The datname query's rows replace the empty ones.
LEMMA DumpStartIInv ==
  ASSUME IInv, DumpStart
  PROVE  IInv'
<1>1. rows' \in Seq(DumpNames) /\ NoDup(rows')
  BY RowsFacts DEF DumpStart
<1>2. out' = <<>> /\ ri' = 1 /\ dpc' = "row" /\ count' = count
  BY DEF DumpStart, IInv, DumpShape
<1>3. DumpShape'
  BY <1>1, <1>2 DEF IInv, DumpShape
<1>. QED
  BY <1>2, <1>3 DEF IInv, OutFromRows, CurrentCreated, ScriptReplays

\* The inner loop prints one ALTER of the current database.
LEMMA ConfigItemIInv ==
  ASSUME IInv, ConfigItem
  PROVE  IInv'
<1> USE DEF IInv, DumpShape
<1>1. ri \in 1..Len(rows) /\ rows[ri] \in DumpNames
  BY DEF ConfigItem
<1> DEFINE x == Stmt("alter", rows[ri], Setting(rows[ri], count))
<1>2. x \in StmtSet
  BY <1>1, StmtType
<1>3. out' = Append(out, x) /\ UNCHANGED <<rows, ri, dpc>> /\ count' = count + 1
  BY DEF ConfigItem
<1>4. x.db \in CB(out, Len(out) + 1)
  BY <1>1, <1>3 DEF ConfigItem, CurrentCreated, CB, Stmt
<1>5. Replays(out')
  <2>1. x.kind # "create"
    BY DEF Stmt
  <2>2. Replays(out)
    BY ReplaysDef
  <2>. QED
    BY <1>2, <1>3, <1>4, <2>1, <2>2, ReplaysAppend
<1>6. DumpShape'
  BY <1>2, <1>3 DEF ConfigItem
<1>7. OutFromRows'
  BY <1>1, <1>3 DEF ConfigItem, OutFromRows, Stmt
<1>8. CurrentCreated'
  BY <1>3 DEF ConfigItem, CurrentCreated
<1>. QED
  BY <1>5, <1>6, <1>7, <1>8, ReplaysDef

\* The inner loop ends: on to the next row.
LEMMA ConfigEndIInv ==
  ASSUME IInv, ConfigEnd
  PROVE  IInv'
<1> USE DEF IInv, DumpShape
<1>1. /\ ri' = ri + 1 /\ dpc' = "row"
      /\ UNCHANGED <<rows, count, out>> /\ ri \in 1..Len(rows)
  BY DEF ConfigEnd
<1>2. DumpShape'
  BY <1>1
<1>3. OutFromRows'
  BY <1>1 DEF OutFromRows
<1>4. ScriptReplays'
  BY <1>1 DEF ScriptReplays, CreatedBefore
<1>. QED
  BY <1>1, <1>2, <1>3, <1>4 DEF CurrentCreated

\* A lost connection ends the dump where it is.
LEMMA QueryLostIInv ==
  ASSUME IInv, QueryLost
  PROVE  IInv'
<1> USE DEF IInv, DumpShape
<1>1. dpc \in {"idle", "config"} /\ dpc' = "lost" /\ UNCHANGED <<rows, ri, count, out>>
  BY DEF QueryLost
<1>2. OutFromRows'
  BY <1>1 DEF OutFromRows
<1>3. ScriptReplays'
  BY <1>1 DEF ScriptReplays, CreatedBefore
<1>. QED
  BY <1>1, <1>2, <1>3 DEF CurrentCreated

\* The loop is over.
LEMMA DumpEndIInv ==
  ASSUME IInv, DumpEnd
  PROVE  IInv'
<1> USE DEF IInv, DumpShape
<1>1. dpc = "row" /\ dpc' = "done" /\ UNCHANGED <<rows, ri, count, out>>
  BY DEF DumpEnd
<1>2. OutFromRows'
  BY <1>1 DEF OutFromRows
<1>3. ScriptReplays'
  BY <1>1 DEF ScriptReplays, CreatedBefore
<1>. QED
  BY <1>1, <1>2, <1>3 DEF CurrentCreated

(***************************************************************************)
(* One pass of the for loop.  The CREATE DATABASE it prints is the first  *)
(* for its database: every CREATE printed before names an earlier row      *)
(* (OutFromRows) and the rows are distinct.  The ACL after it then names a *)
(* database the script has: the one just created, or a preexisting one.   *)
(***************************************************************************)
LEMMA DumpRowIInv ==
  ASSUME IInv, DumpRow
  PROVE  IInv'
<1> USE DEF IInv, DumpShape
<1>1. /\ dpc = "row" /\ ri \in 1..Len(rows) /\ rows[ri] \in DumpNames
      /\ dpc' = "config" /\ count' = 1 /\ UNCHANGED <<rows, ri>>
      /\ out' = out \o RowStmts(rows[ri])
  BY DEF DumpRow
<1> DEFINE d == rows[ri]
           c == Stmt("create", d, NoSetting)
           a == Stmt("acl", d, NoSetting)
<1>2. c \in StmtSet /\ a \in StmtSet /\ c.kind = "create" /\ a.kind # "create"
      /\ c.db = d /\ a.db = d
  BY <1>1, StmtType DEF Stmt
<1>3. Replays(out)
  BY ReplaysDef
\* No CREATE printed so far names the current row.
<1>4. \A j \in 1..Len(out) : out[j].kind = "create" => out[j].db # d
  <2> SUFFICES ASSUME NEW j \in 1..Len(out) PROVE out[j].db # d
    OBVIOUS
  <2>1. PICK j2 \in 1..Len(rows) : out[j].db = rows[j2] /\ j2 < ri
    BY <1>1 DEF OutFromRows
  <2>. QED
    BY <1>1, <2>1 DEF NoDup
\* Every statement printed so far names a row passed, or this one.
<1>5. ASSUME NEW o \in Seq(StmtSet), out' = out \o o, \A k \in 1..Len(o) : o[k].db = d
      PROVE  OutFromRows'
  <2> SUFFICES ASSUME NEW k \in 1..Len(out')
               PROVE  \E j \in 1..Len(rows') :
                        /\ out'[k].db = rows'[j]
                        /\ j < ri' \/ (j = ri' /\ dpc' \in {"config", "lost"})
    BY DEF OutFromRows
  <2>1. CASE k <= Len(out)
    BY <1>1, <1>5, <2>1 DEF OutFromRows
  <2>2. CASE k > Len(out)
    <3>1. k - Len(out) \in 1..Len(o) /\ out'[k] = o[k - Len(out)]
      BY <1>5, <2>2
    <3>2. out'[k].db = rows'[ri] /\ ri' = ri /\ dpc' = "config"
      BY <1>1, <1>5, <3>1
    <3>. QED
      BY <1>1, <3>2
  <2>. QED
    BY <2>1, <2>2
<1>6. CASE d \notin Preexisting
  <2>1. out' = Append(Append(out, c), a)
    BY <1>1, <1>6 DEF RowStmts
  <2>2. c.db \notin CB(out, Len(out) + 1)
    BY <1>2, <1>4, <1>6, CBFresh
  <2>3. Replays(Append(out, c))
    BY <1>2, <1>3, <2>2, ReplaysAppend
  <2>4. a.db \in CB(Append(out, c), Len(Append(out, c)) + 1)
    BY <1>2, CBAppend
  <2>5. Replays(out')
    <3>1. Append(out, c) \in Seq(StmtSet)
      BY <1>2
    <3>. QED
      BY <1>2, <2>1, <2>3, <2>4, <3>1, ReplaysAppend
  <2>6. out' \in Seq(StmtSet) /\ out'[Len(out) + 1] = c /\ Len(out') = Len(out) + 2
    BY <1>2, <2>1
  <2>7. OutFromRows'
    <3>1. <<c, a>> \in Seq(StmtSet) /\ out' = out \o <<c, a>>
      BY <1>2, <2>1
    <3>2. \A k \in 1..Len(<<c, a>>) : <<c, a>>[k].db = d
      BY <1>2
    <3>. QED
      BY <3>1, <3>2, <1>5
  <2>8. CurrentCreated'
    <3>1. dpc' = "config" /\ rows'[ri'] = d
      BY <1>1
    <3>2. Len(out) + 1 \in 1..Len(out') /\ out'[Len(out) + 1].kind = "create"
          /\ out'[Len(out) + 1].db = d
      BY <1>2, <2>6
    <3>. QED
      BY <3>1, <3>2 DEF CurrentCreated
  <2>. QED
    BY <1>1, <2>5, <2>6, <2>7, <2>8, ReplaysDef
<1>7. CASE d \in Preexisting
  <2>1. out' = Append(out, a)
    BY <1>1, <1>7 DEF RowStmts
  <2>2. a.db \in CB(out, Len(out) + 1)
    BY <1>2, <1>7 DEF CB
  <2>3. Replays(out')
    BY <1>2, <1>3, <2>1, <2>2, ReplaysAppend
  <2>4. out' \in Seq(StmtSet)
    BY <1>2, <2>1
  <2>5. OutFromRows'
    <3>1. <<a>> \in Seq(StmtSet) /\ out' = out \o <<a>>
      BY <1>2, <2>1
    <3>2. \A k \in 1..Len(<<a>>) : <<a>>[k].db = d
      BY <1>2
    <3>. QED
      BY <3>1, <3>2, <1>5
  <2>6. CurrentCreated'
    BY <1>1, <1>7 DEF CurrentCreated
  <2>. QED
    BY <1>1, <2>3, <2>4, <2>5, <2>6, ReplaysDef
<1>. QED
  BY <1>6, <1>7

\* Every step of main() keeps IInv.
LEMMA NextIInv == IInv /\ [DumpNext]_allVars => IInv'
<1> SUFFICES ASSUME IInv, [DumpNext]_allVars PROVE IInv'
  OBVIOUS
<1>1. CASE ConnectStep
  BY <1>1, DumpVarsUnchanged DEF ConnectStep
<1>2. CASE QueryFailed
  BY <1>2, DumpVarsUnchanged DEF QueryFailed
<1>3. CASE NullDbnameCrash
  BY <1>3, DumpVarsUnchanged DEF NullDbnameCrash
<1>4. CASE DumpStart
  BY <1>4, DumpStartIInv
<1>5. CASE DumpRow
  BY <1>5, DumpRowIInv
<1>6. CASE ConfigItem
  BY <1>6, ConfigItemIInv
<1>7. CASE ConfigEnd
  BY <1>7, ConfigEndIInv
<1>8. CASE QueryLost
  BY <1>8, QueryLostIInv
<1>9. CASE DumpEnd
  BY <1>9, DumpEndIInv
<1>10. CASE UNCHANGED allVars
  BY <1>10, DumpVarsUnchanged DEF allVars
<1>. QED
  BY <1>1, <1>2, <1>3, <1>4, <1>5, <1>6, <1>7, <1>8, <1>9, <1>10 DEF DumpNext

(***************************************************************************)
(* For every setconfig array, server version and MaxAttempts, and every    *)
(* command line: the script dumpCreateDB() prints replays on a fresh       *)
(* cluster.  No CREATE DATABASE names template1, postgres or a database    *)
(* created before, and every GRANT, REVOKE and ALTER DATABASE ... SET      *)
(* names a database the script has by then.  It holds at every step, so   *)
(* also for the truncated script of a run whose connection is lost.        *)
(***************************************************************************)
THEOREM ScriptReplaysHolds == DumpSpec => []ScriptReplays
<1>1. IInv => ScriptReplays
  BY DEF IInv
<1>. QED
  BY InitIInv, NextIInv, <1>1, PTL DEF DumpSpec

=============================================================================
