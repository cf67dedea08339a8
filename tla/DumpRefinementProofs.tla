------------------------ MODULE DumpRefinementProofs ------------------------
(***************************************************************************)
(* The proof that main() implements DumpAbstract under the refinement      *)
(* mapping of DumpDriver (Abs), for every setconfig array, server version, *)
(* MaxAttempts and command line.  The inductive invariant RInv says what   *)
(* OPF holds at every step: the blocks of the rows already done, and in    *)
(* dumpDatabaseConfig() the current row's CREATE and ACL and its first     *)
(* count - 1 settings; that is a prefix of the script of the rows.  The    *)
(* script is a recursive function of the rows, unfolded with              *)
(* FiniteNatInductiveDef; the datname query returns at most six rows, so   *)
(* its prefixes are reached by six unfoldings instead of an induction.     *)
(***************************************************************************)
EXTENDS DumpDriverProofs, NaturalsInduction, SequenceTheorems

\* The abstract block of a database and the script of a sequence of rows.
Blk(d) == RowStmts(d) \o [k \in DOMAIN Settings[d] |-> Stmt("alter", d, Settings[d][k])]
ScF(s) ==
  CHOOSE f : f = [n \in 0..Len(s) |-> IF n = 0 THEN <<>> ELSE f[n - 1] \o Blk(s[n])]

\* The script of the first n rows of s.
Scr(s, n) == ScF(s)[n]

\* The ALTER DATABASE ... SET statements of database d, in array order.
AltersOf(d) == [k \in DOMAIN Settings[d] |-> Stmt("alter", d, Settings[d][k])]

(***************************************************************************)
(* The inductive invariant of the refinement.  PhaseInv relates main()'s   *)
(* phase to the dump's progress: the connection code runs only while     *)
(* dumpCreateDB() has not started, and the exits are where the loop ends. *)
(* OutIsScript says exactly what OPF holds: the blocks of the rows before  *)
(* the current one, and inside dumpDatabaseConfig() the current row's     *)
(* CREATE and ACL statements and its first count - 1 settings.            *)
(***************************************************************************)
\* The database of the current row.
CurDb == rows[ri]

\* What the current row prints before its settings, its settings, and the
\* one at count.
CurHead == Scr(rows, ri - 1) \o RowStmts(CurDb)
CurAlters == AltersOf(CurDb)
CurItem == Stmt("alter", CurDb, Setting(CurDb, count))

ConnectPhases == {"start", "connect", "first", "env", "postgres"}
FailPhases == {"exit_oom", "exit_connect", "exit_main", "exit_query", "crash"}

PhaseInv ==
  /\ ret \in {"start", "first", "env", "postgres"}
  /\ cpc # "idle" => phase = "connect"
  /\ phase \in ConnectPhases \cup FailPhases => dpc = "idle"
  /\ dpc \in {"row", "config"} => phase = "dump"
  /\ dpc = "done" <=> phase = "exit_ok"
  /\ dpc = "lost" <=> phase = "exit_lost"

OutIsScript ==
  /\ dpc = "idle" => rows = <<>>
  /\ dpc \in {"row", "config", "done"} => rows = Rows
  /\ dpc = "done" => ri = Len(rows) + 1
  /\ dpc \in {"row", "done"} => out = Scr(rows, ri - 1)
  /\ dpc = "config" =>
       /\ count \in 1..(Len(Settings[CurDb]) + 1)
       /\ out = CurHead \o SubSeq(CurAlters, 1, count - 1)

RInv == IInv /\ PhaseInv /\ OutIsScript

-----------------------------------------------------------------------------
(***************************************************************************)
(* Lemmas on the script.                                                   *)
(***************************************************************************)

\* Abs!Script is the last value of its recursive function.
LEMMA ScriptIsScF ==
  ASSUME NEW s PROVE Abs!Script(s) = Scr(s, Len(s))
<1>1. \A d : Abs!Block(d) = Blk(d)
  BY DEF Abs!Block, Abs!Stmt, Abs!NoSetting, Blk, RowStmts, Stmt, NoSetting
<1>. QED
  BY <1>1 DEF Abs!Script, ScF, Scr

\* The recursion of ScF.
LEMMA ScFDef ==
  ASSUME NEW s \in Seq(DumpNames)
  PROVE  FiniteNatInductiveDefConclusion(ScF(s), <<>>, LAMBDA v, n : v \o Blk(s[n]), 0, Len(s))
<1>1. FiniteNatInductiveDefHypothesis(ScF(s), <<>>, LAMBDA v, n : v \o Blk(s[n]), 0, Len(s))
  BY DEF FiniteNatInductiveDefHypothesis, ScF
<1>2. 0 \in Nat /\ Len(s) \in Nat
  OBVIOUS
<1>. QED
  BY <1>1, <1>2, FiniteNatInductiveDef, Zenon

\* Concatenation is associative.
LEMMA ConcatAssoc ==
  ASSUME NEW a \in Seq(StmtSet), NEW b \in Seq(StmtSet), NEW c \in Seq(StmtSet)
  PROVE  (a \o b) \o c = a \o (b \o c)
OBVIOUS

\* Appending to a concatenation appends to its second part.
LEMMA AppendConcat ==
  ASSUME NEW a \in Seq(StmtSet), NEW b \in Seq(StmtSet), NEW x \in StmtSet
  PROVE  Append(a \o b, x) = a \o Append(b, x)
OBVIOUS

\* The first c elements, then the next one.
LEMMA SubSeqGrow ==
  ASSUME NEW a \in Seq(StmtSet), NEW c \in 1..Len(a), NEW x, x = a[c]
  PROVE  /\ Append(SubSeq(a, 1, c - 1), x) = SubSeq(a, 1, c)
         /\ SubSeq(a, 1, c - 1) \in Seq(StmtSet)
OBVIOUS

\* A sequence is its first c elements followed by the rest.
LEMMA SubSeqSplit ==
  ASSUME NEW a \in Seq(StmtSet), NEW c \in 0..Len(a)
  PROVE  /\ a = SubSeq(a, 1, c) \o SubSeq(a, c + 1, Len(a))
         /\ SubSeq(a, 1, c) \in Seq(StmtSet) /\ SubSeq(a, c + 1, Len(a)) \in Seq(StmtSet)
<1>1. SubSeq(a, 1, c) \in Seq(StmtSet) /\ SubSeq(a, c + 1, Len(a)) \in Seq(StmtSet)
  BY SubSeqProperties
<1>2. SubSeq(a, 1, c) \o SubSeq(a, c + 1, Len(a)) = SubSeq(a, 1, Len(a))
  <2>1. 1 \in 1..(Len(a) + 1) /\ c \in (1 - 1)..Len(a) /\ Len(a) \in c..Len(a)
    OBVIOUS
  <2>. QED
    BY <2>1, ConcatAdjacentSubSeq
<1>3. SubSeq(a, 1, Len(a)) = a
  BY SubSeqFull
<1>. QED
  BY <1>1, <1>2, <1>3

\* A sequence is the prefix of its length of any extension of it.
LEMMA PrefixOfConcat ==
  ASSUME NEW a \in Seq(StmtSet), NEW b \in Seq(StmtSet)
  PROVE  /\ SubSeq(a \o b, 1, Len(a)) = a
         /\ Len(a \o b) = Len(a) + Len(b)
OBVIOUS

\* Each database's setconfig array is a sequence of strings, none of them
\* the NULL past its end.
LEMMA SettingsType ==
  ASSUME NEW d \in DumpNames
  PROVE  /\ Settings[d] \in Seq(STRING)
         /\ \A k \in DOMAIN Settings[d] : Settings[d][k] # NoSetting
<1>1. Settings \in [DumpNames -> Seq(STRING)]
  BY DumpAssumption
<1>2. Settings[d] \in Seq(STRING)
  BY <1>1, Zenon
<1>3. \A e \in DumpNames : \A k \in DOMAIN Settings[e] : Settings[e][k] # NoSetting
  BY DumpAssumption
<1>4. \A k \in DOMAIN Settings[d] : Settings[d][k] # NoSetting
  BY <1>3, Zenon
<1>. QED
  BY <1>2, <1>4

\* A block is the row's CREATE and ACL statements, then its settings.
LEMMA BlkDef ==
  ASSUME NEW d \in DumpNames
  PROVE  /\ Blk(d) = RowStmts(d) \o AltersOf(d)
         /\ RowStmts(d) \in Seq(StmtSet) /\ AltersOf(d) \in Seq(StmtSet)
         /\ Len(RowStmts(d)) > 0
<1>1. Settings[d] \in Seq(STRING)
  BY SettingsType
<1>2. RowStmts(d) \in Seq(StmtSet) /\ Len(RowStmts(d)) > 0
  BY StmtType DEF RowStmts
<1>3. AltersOf(d) \in Seq(StmtSet)
  <2>1. \A k \in DOMAIN Settings[d] : Settings[d][k] \in SetVals
    BY <1>1 DEF SetVals
  <2>2. \A k \in DOMAIN Settings[d] : Stmt("alter", d, Settings[d][k]) \in StmtSet
    BY <2>1 DEF Stmt, StmtSet
  <2>. QED
    BY <1>1, <2>2 DEF AltersOf
<1>4. Blk(d) = RowStmts(d) \o AltersOf(d)
  BY DEF Blk, AltersOf
<1>. QED
  BY <1>2, <1>3, <1>4

\* A block is a sequence of statements.
LEMMA BlkType ==
  ASSUME NEW d \in DumpNames PROVE Blk(d) \in Seq(StmtSet)
<1>1. Blk(d) = RowStmts(d) \o AltersOf(d)
      /\ RowStmts(d) \in Seq(StmtSet) /\ AltersOf(d) \in Seq(StmtSet)
  BY BlkDef
<1>. QED
  BY <1>1

\* One more row adds its block.
LEMMA ScFStep ==
  ASSUME NEW s \in Seq(DumpNames)
  PROVE  /\ Scr(s, 0) = <<>>
         /\ \A n \in 1..Len(s) : Scr(s, n) = Scr(s, n - 1) \o Blk(s[n])
<1>1. FiniteNatInductiveDefConclusion(ScF(s), <<>>, LAMBDA v, n : v \o Blk(s[n]), 0, Len(s))
  BY ScFDef
<1>. QED
  BY <1>1 DEF FiniteNatInductiveDefConclusion, Scr

(***************************************************************************)
(* The script of the first k rows is a sequence of statements, and the     *)
(* scripts of fewer rows are its prefixes.  The library's theorems that    *)
(* would give this for every k take the recursion as an operator argument  *)
(* under a quantifier, which the installed provers cannot instantiate; the *)
(* datname query returns at most the six names of SortedNames, so six     *)
(* unfoldings of the recursion cover every k.                              *)
(***************************************************************************)
ScriptPrefixes(s, k) ==
  \A i \in 0..k :
    /\ Scr(s, i) \in Seq(StmtSet)
    /\ \E t \in Seq(StmtSet) : Scr(s, k) = Scr(s, i) \o t

LEMMA ScriptPrefixesStep ==
  ASSUME NEW s \in Seq(DumpNames), NEW k \in 1..Len(s), ScriptPrefixes(s, k - 1)
  PROVE  ScriptPrefixes(s, k)
<1>1. Scr(s, k) = Scr(s, k - 1) \o Blk(s[k])
  BY ScFStep
<1>2. Blk(s[k]) \in Seq(StmtSet)
  <2>1. s[k] \in DumpNames
    OBVIOUS
  <2>. QED
    BY <2>1, BlkType
<1>3. Scr(s, k - 1) \in Seq(StmtSet)
  <2>1. k - 1 \in 0..(k - 1)
    OBVIOUS
  <2>. QED
    BY <2>1 DEF ScriptPrefixes
<1>4. Scr(s, k) \in Seq(StmtSet)
  BY <1>1, <1>2, <1>3
<1>5. ASSUME NEW i \in 0..k
      PROVE  /\ Scr(s, i) \in Seq(StmtSet)
             /\ \E t \in Seq(StmtSet) : Scr(s, k) = Scr(s, i) \o t
  <2>1. CASE i = k
    <3>1. Scr(s, k) = Scr(s, i) \o <<>>
      BY <1>4, <2>1
    <3>2. \E t \in Seq(StmtSet) : Scr(s, k) = Scr(s, i) \o t
      <4>. WITNESS <<>> \in Seq(StmtSet)
      <4>. QED
        BY <3>1
    <3>. QED
      BY <1>4, <2>1, <3>2
  <2>2. CASE i # k
    <3>0. i \in 0..(k - 1)
      BY <2>2
    <3>1. Scr(s, i) \in Seq(StmtSet)
      BY <3>0 DEF ScriptPrefixes
    <3>2. PICK t \in Seq(StmtSet) : Scr(s, k - 1) = Scr(s, i) \o t
      BY <3>0 DEF ScriptPrefixes
    <3>3. Scr(s, k) = (Scr(s, i) \o t) \o Blk(s[k])
      BY <1>1, <3>2
    <3>4. (Scr(s, i) \o t) \o Blk(s[k]) = Scr(s, i) \o (t \o Blk(s[k]))
      BY <1>2, <3>1, ConcatAssoc
    <3>5. t \o Blk(s[k]) \in Seq(StmtSet)
      BY <1>2
    <3>. QED
      BY <3>1, <3>3, <3>4, <3>5
  <2>. QED
    BY <2>1, <2>2
<1>. QED
  BY <1>5 DEF ScriptPrefixes

LEMMA ScriptPrefixesAll ==
  ASSUME NEW s \in Seq(DumpNames), Len(s) <= 6, NEW k \in 0..Len(s)
  PROVE  ScriptPrefixes(s, k)
<1>0. ScriptPrefixes(s, 0)
  <2>1. Scr(s, 0) = <<>>
    BY ScFStep
  <2>2. <<>> \in Seq(StmtSet)
    OBVIOUS
  <2>3. Scr(s, 0) = Scr(s, 0) \o <<>>
    BY <2>1
  <2>4. \E t \in Seq(StmtSet) : Scr(s, 0) = Scr(s, 0) \o t
    <3>. WITNESS <<>> \in Seq(StmtSet)
    <3>. QED
      BY <2>3
  <2>5. Scr(s, 0) \in Seq(StmtSet)
    BY <2>1, <2>2, Zenon
  <2>6. \A i \in 0..0 : i = 0
    OBVIOUS
  <2>. QED
    BY <2>4, <2>5, <2>6, Zenon DEF ScriptPrefixes
<1>1. 1 <= Len(s) => ScriptPrefixes(s, 1)
  BY <1>0, ScriptPrefixesStep
<1>2. 2 <= Len(s) => ScriptPrefixes(s, 2)
  BY <1>1, ScriptPrefixesStep
<1>3. 3 <= Len(s) => ScriptPrefixes(s, 3)
  BY <1>2, ScriptPrefixesStep
<1>4. 4 <= Len(s) => ScriptPrefixes(s, 4)
  BY <1>3, ScriptPrefixesStep
<1>5. 5 <= Len(s) => ScriptPrefixes(s, 5)
  BY <1>4, ScriptPrefixesStep
<1>6. 6 <= Len(s) => ScriptPrefixes(s, 6)
  BY <1>5, ScriptPrefixesStep
<1>. QED
  BY <1>0, <1>1, <1>2, <1>3, <1>4, <1>5, <1>6

\* The script of the first i rows is a prefix of the script of all of them.
LEMMA ScFPrefix ==
  ASSUME NEW s \in Seq(DumpNames), Len(s) <= 6, NEW i \in 0..Len(s)
  PROVE  /\ Scr(s, i) \in Seq(StmtSet)
         /\ \E t \in Seq(StmtSet) : Scr(s, Len(s)) = Scr(s, i) \o t
<1>1. ScriptPrefixes(s, Len(s)) /\ ScriptPrefixes(s, i)
  BY ScriptPrefixesAll
<1>. QED
  BY <1>1 DEF ScriptPrefixes

-----------------------------------------------------------------------------
(***************************************************************************)
(* The rows of the datname query are a selection of DumpAbstract: ORDER BY *)
(* 1 returns them in the order of SortedNames, so each row sits at a later *)
(* place of SortedNames than the one before it (g gives the places).       *)
(***************************************************************************)
RowsSorted(s, k) ==
  /\ s \in Seq(DumpNames)
  /\ Len(s) <= k - 1
  /\ \E g \in [1..Len(s) -> 1..(k - 1)] :
       /\ \A i \in 1..Len(s) : s[i] = SortedNames[g[i]]
       /\ \A i \in 1..(Len(s) - 1) : g[i] < g[i + 1]

\* AddRow of the k-th name of SortedNames keeps the rows sorted.
LEMMA RowsSortedStep ==
  ASSUME NEW k \in 1..6, NEW s, RowsSorted(s, k)
  PROVE  RowsSorted(AddRow(s, SortedNames[k]), k + 1)
<1>1. SortedNames[k] \in DumpNames
  BY DEF SortedNames, DumpNames, Dbs
<1>2. PICK g \in [1..Len(s) -> 1..(k - 1)] :
        /\ \A i \in 1..Len(s) : s[i] = SortedNames[g[i]]
        /\ \A i \in 1..(Len(s) - 1) : g[i] < g[i + 1]
  BY DEF RowsSorted
<1>3. CASE Selected(SortedNames[k])
  <2> DEFINE h == [i \in 1..(Len(s) + 1) |-> IF i <= Len(s) THEN g[i] ELSE k]
             t == Append(s, SortedNames[k])
  <2>1. AddRow(s, SortedNames[k]) = t
    BY <1>3 DEF AddRow
  <2>2. t \in Seq(DumpNames) /\ Len(t) = Len(s) + 1 /\ Len(t) <= k
    BY <1>1 DEF RowsSorted
  <2>3. h \in [1..Len(t) -> 1..k]
    BY <1>2, <2>2
  <2>4. \A i \in 1..Len(t) : t[i] = SortedNames[h[i]]
    BY <1>2, <2>2 DEF RowsSorted
  <2>5. \A i \in 1..(Len(t) - 1) : h[i] < h[i + 1]
    BY <1>2, <2>2 DEF RowsSorted
  <2>6. \E f \in [1..Len(t) -> 1..k] :
          /\ \A i \in 1..Len(t) : t[i] = SortedNames[f[i]]
          /\ \A i \in 1..(Len(t) - 1) : f[i] < f[i + 1]
    BY <2>3, <2>4, <2>5
  <2>. QED
    BY <2>1, <2>2, <2>6 DEF RowsSorted
<1>4. CASE ~Selected(SortedNames[k])
  <2>1. AddRow(s, SortedNames[k]) = s
    BY <1>4 DEF AddRow
  <2>2. g \in [1..Len(s) -> 1..k]
    BY <1>2 DEF RowsSorted
  <2>3. \E f \in [1..Len(s) -> 1..k] :
          /\ \A i \in 1..Len(s) : s[i] = SortedNames[f[i]]
          /\ \A i \in 1..(Len(s) - 1) : f[i] < f[i + 1]
    BY <1>2, <2>2
  <2>4. s \in Seq(DumpNames) /\ Len(s) <= (k + 1) - 1 /\ (k + 1) - 1 = k
    BY DEF RowsSorted
  <2>. QED
    BY <2>1, <2>3, <2>4 DEF RowsSorted
<1>. QED
  BY <1>3, <1>4

\* The rows are a selection of DumpAbstract, of at most six names.
LEMMA RowsSelection == Rows \in Abs!Selections /\ Len(Rows) <= 6
<1>0. RowsSorted(<<>>, 1)
  <2>1. <<>> \in Seq(DumpNames) /\ Len(<<>>) <= 1 - 1
    OBVIOUS
  <2>2. \E f \in [1..Len(<<>>) -> 1..(1 - 1)] :
          /\ \A i \in 1..Len(<<>>) : <<>>[i] = SortedNames[f[i]]
          /\ \A i \in 1..(Len(<<>>) - 1) : f[i] < f[i + 1]
    <3>. WITNESS <<>> \in [1..Len(<<>>) -> 1..(1 - 1)]
    <3>. QED
      OBVIOUS
  <2>. QED
    BY <2>1, <2>2 DEF RowsSorted
<1>1. RowsSorted(AddRow(<<>>, "conn"), 2)
  BY <1>0, RowsSortedStep DEF SortedNames
<1>2. RowsSorted(AddRow(AddRow(<<>>, "conn"), "d"), 3)
  BY <1>1, RowsSortedStep DEF SortedNames
<1>3. RowsSorted(AddRow(AddRow(AddRow(<<>>, "conn"), "d"), "env"), 4)
  BY <1>2, RowsSortedStep DEF SortedNames
<1>4. RowsSorted(AddRow(AddRow(AddRow(AddRow(<<>>, "conn"), "d"), "env"), "postgres"), 5)
  BY <1>3, RowsSortedStep DEF SortedNames
<1>5. RowsSorted(AddRow(AddRow(AddRow(AddRow(AddRow(<<>>, "conn"), "d"), "env"), "postgres"), "template1"), 6)
  BY <1>4, RowsSortedStep DEF SortedNames
<1>6. RowsSorted(Rows, 7)
  BY <1>5, RowsSortedStep DEF SortedNames, Rows
<1>7. PICK g \in [1..Len(Rows) -> 1..6] :
        /\ \A i \in 1..Len(Rows) : Rows[i] = SortedNames[g[i]]
        /\ \A i \in 1..(Len(Rows) - 1) : g[i] < g[i + 1]
  BY <1>6 DEF RowsSorted
<1>8. Rows \in Seq(DumpNames) /\ Len(Rows) <= 6
  BY <1>6 DEF RowsSorted
<1>9. DOMAIN SortedNames = 1..6
  BY DEF SortedNames
<1>10. Rows \in [1..Len(Rows) -> Abs!Names]
  BY <1>7, <1>8, <1>9 DEF Abs!Names
<1>11. Abs!InOrder(Rows)
  BY <1>7, <1>8, <1>9 DEF Abs!InOrder
<1>12. Len(Rows) \in 0..Len(SortedNames)
  BY <1>8 DEF SortedNames
<1>. QED
  BY <1>8, <1>10, <1>11, <1>12 DEF Abs!Selections

-----------------------------------------------------------------------------
(***************************************************************************)
(* The refinement's invariant is inductive.                                *)
(***************************************************************************)

\* A step of the connection code starts in a connecting phase, with the
\* dump not begun, and ends in one, in dumpCreateDB() or in an exit of the
\* connection code.
LEMMA ConnectStepPhase ==
  ASSUME PhaseInv, ConnectStep
  PROVE  /\ phase \in ConnectPhases /\ dpc = "idle" /\ dpc' = "idle"
         /\ phase' \in ConnectPhases \cup {"dump", "exit_oom", "exit_connect", "exit_main"}
         /\ PhaseInv'
<1>0. Next /\ UNCHANGED dumpVars
  BY DEF ConnectStep
<1>1. CASE MainFirst
  BY <1>0, <1>1 DEF MainFirst, Call, PhaseInv, ConnectPhases, FailPhases, dumpVars, callVars
<1>2. CASE Enter
  BY <1>0, <1>2 DEF Enter, PhaseInv, ConnectPhases, FailPhases, dumpVars, callVars
<1>3. CASE Build
  BY <1>0, <1>3 DEF Build, PhaseInv, ConnectPhases, FailPhases, dumpVars, callVars
<1>4. CASE Attempt
  BY <1>0, <1>4 DEF Attempt, PhaseInv, ConnectPhases, FailPhases, dumpVars, callVars
<1>5. CASE ConnNull
  BY <1>0, <1>5 DEF ConnNull, PhaseInv, ConnectPhases, FailPhases, dumpVars, callVars
<1>6. CASE Retry
  BY <1>0, <1>6 DEF Retry, PhaseInv, ConnectPhases, FailPhases, dumpVars, callVars
<1>7. CASE Connected
  BY <1>0, <1>7 DEF Connected, PhaseInv, ConnectPhases, FailPhases, dumpVars, callVars
<1>8. CASE FailExit
  BY <1>0, <1>8 DEF FailExit, PhaseInv, ConnectPhases, FailPhases, dumpVars, callVars
<1>9. CASE FailReturn
  BY <1>0, <1>9 DEF FailReturn, PhaseInv, ConnectPhases, FailPhases, dumpVars, callVars
<1>10. CASE AfterConnstr
  BY <1>0, <1>10 DEF AfterConnstr, PhaseInv, ConnectPhases, FailPhases, dumpVars, callVars
<1>11. CASE RetryEnv
  BY <1>0, <1>11 DEF RetryEnv, Call, PhaseInv, ConnectPhases, FailPhases, dumpVars, callVars
<1>12. CASE SkipEnv
  BY <1>0, <1>12 DEF SkipEnv, PhaseInv, ConnectPhases, FailPhases, dumpVars, callVars
<1>13. CASE FallbackPostgres
  BY <1>0, <1>13 DEF FallbackPostgres, Call, PhaseInv, ConnectPhases, FailPhases, dumpVars, callVars
<1>14. CASE Proceed
  BY <1>0, <1>14 DEF Proceed, PhaseInv, ConnectPhases, FailPhases, dumpVars, callVars
<1>. QED
  BY <1>0, <1>1, <1>2, <1>3, <1>4, <1>5, <1>6, <1>7, <1>8, <1>9, <1>10, <1>11, <1>12, <1>13, <1>14 DEF Next

\* setconfig[count] is NULL exactly past the end of the array.
LEMMA SettingFacts ==
  ASSUME NEW d \in DumpNames, NEW c \in Nat
  PROVE  /\ Setting(d, c) # NoSetting <=> c \in 1..Len(Settings[d])
         /\ c \in 1..Len(Settings[d]) => Setting(d, c) = AltersOf(d)[c].set
         /\ c \in 1..Len(Settings[d]) =>
              AltersOf(d)[c] = Stmt("alter", d, Setting(d, c))
         /\ Len(AltersOf(d)) = Len(Settings[d])
<1>1. Settings[d] \in Seq(STRING)
      /\ \A k \in DOMAIN Settings[d] : Settings[d][k] # NoSetting
  BY SettingsType
<1>. QED
  BY <1>1 DEF Setting, AltersOf, Stmt

\* The rows the datname query returns depend on the command line only.
LEMMA RowsUnchanged ==
  ASSUME opt' = opt, pgdb' = pgdb
  PROVE  Rows' = Rows
BY DEF Rows, AddRow, Selected, Existing

\* The for loop prints a row's CREATE and ACL statements.
LEMMA DumpRowRInv ==
  ASSUME RInv, DumpRow
  PROVE  PhaseInv' /\ OutIsScript'
<1>1. /\ rows \in Seq(DumpNames) /\ ri \in 1..Len(rows)
      /\ out = Scr(rows, ri - 1) /\ rows = Rows
  BY DEF RInv, IInv, DumpShape, OutIsScript, DumpRow
<1>2. Len(rows) <= 6
  BY <1>1, RowsSelection
<1>3. CurDb \in DumpNames
  BY <1>1 DEF CurDb
<1>4. RowStmts(CurDb) \in Seq(StmtSet) /\ AltersOf(CurDb) \in Seq(StmtSet)
  BY <1>3, BlkDef
<1>5. Scr(rows, ri - 1) \in Seq(StmtSet)
  <2>1. ri - 1 \in 0..Len(rows)
    BY <1>1
  <2>. QED
    BY <1>1, <1>2, <2>1, ScFPrefix
<1>6. SubSeq(AltersOf(CurDb), 1, 1 - 1) = <<>>
  BY <1>4
<1>7. out' = CurHead \o SubSeq(CurAlters, 1, 1 - 1)
  BY <1>1, <1>4, <1>5, <1>6 DEF DumpRow, CurDb, CurHead, CurAlters
<1>8. PhaseInv'
  BY DEF RInv, PhaseInv, DumpRow, vars
<1>9. count' \in 1..(Len(Settings[CurDb]) + 1)
  <2>1. Settings[CurDb] \in Seq(STRING)
    BY <1>3, SettingsType
  <2>. QED
    BY <2>1 DEF DumpRow
<1>10. dpc' = "config" /\ rows' = rows /\ ri' = ri /\ count' = 1
  BY DEF DumpRow
<1>11. CurDb' = CurDb /\ CurHead' = CurHead /\ CurAlters' = CurAlters
  BY <1>10 DEF CurDb, CurHead, CurAlters
<1>12. Rows' = Rows
  BY RowsUnchanged DEF DumpRow, vars
<1>. QED
  BY <1>1, <1>7, <1>8, <1>9, <1>10, <1>11, <1>12 DEF OutIsScript

\* dumpDatabaseConfig() prints setconfig[count] and moves to the next one.
LEMMA ConfigItemRInv ==
  ASSUME RInv, ConfigItem
  PROVE  PhaseInv' /\ OutIsScript'
<1>1. /\ rows \in Seq(DumpNames) /\ ri \in 1..Len(rows) /\ rows = Rows
      /\ count \in 1..(Len(Settings[CurDb]) + 1)
      /\ out = CurHead \o SubSeq(CurAlters, 1, count - 1)
  BY DEF RInv, IInv, DumpShape, OutIsScript, ConfigItem
<1>2. Len(rows) <= 6
  BY <1>1, RowsSelection
<1>3. CurDb \in DumpNames
  BY <1>1 DEF CurDb
<1>4. RowStmts(CurDb) \in Seq(StmtSet) /\ CurAlters \in Seq(StmtSet)
  BY <1>3, BlkDef DEF CurAlters
<1>5. Scr(rows, ri - 1) \in Seq(StmtSet)
  <2>1. ri - 1 \in 0..Len(rows)
    BY <1>1
  <2>. QED
    BY <1>1, <1>2, <2>1, ScFPrefix
<1>6. CurHead \in Seq(StmtSet)
  BY <1>4, <1>5 DEF CurHead
<1>7. count \in 1..Len(Settings[CurDb]) /\ Len(CurAlters) = Len(Settings[CurDb]) /\ CurItem = CurAlters[count]
  <2>1. Setting(CurDb, count) # NoSetting
    BY DEF ConfigItem, CurDb
  <2>. QED
    BY <1>1, <1>3, <2>1, SettingFacts DEF CurAlters, CurItem
<1>8. CurItem \in StmtSet
  BY <1>1, <1>3, StmtType DEF CurItem
<1>9. Append(SubSeq(CurAlters, 1, count - 1), CurItem) = SubSeq(CurAlters, 1, count)
      /\ SubSeq(CurAlters, 1, count - 1) \in Seq(StmtSet)
  BY <1>4, <1>7, SubSeqGrow
<1>10. out' = CurHead \o SubSeq(CurAlters, 1, count)
  <2>1. out' = Append(out, CurItem)
    BY DEF ConfigItem, CurDb, CurItem
  <2>2. Append(CurHead \o SubSeq(CurAlters, 1, count - 1), CurItem)
        = CurHead \o Append(SubSeq(CurAlters, 1, count - 1), CurItem)
    BY <1>6, <1>8, <1>9, AppendConcat
  <2>. QED
    BY <1>1, <1>9, <2>1, <2>2
<1>11. dpc' = "config" /\ rows' = rows /\ ri' = ri /\ count' = count + 1
  BY DEF ConfigItem
<1>12. count' \in 1..(Len(Settings[CurDb]) + 1) /\ count' - 1 = count
  BY <1>7, <1>11
<1>13. CurDb' = CurDb /\ Rows' = Rows
  BY <1>11, RowsUnchanged DEF CurDb, ConfigItem, vars
<1>15. CurHead' = CurHead /\ CurAlters' = CurAlters
  BY <1>11, <1>13 DEF CurHead, CurAlters
<1>14. PhaseInv'
  BY DEF RInv, PhaseInv, ConfigItem, vars
<1>. QED
  BY <1>1, <1>10, <1>11, <1>12, <1>13, <1>14, <1>15 DEF OutIsScript

\* setconfig[count] is NULL: the block of the current row is complete.
LEMMA ConfigEndRInv ==
  ASSUME RInv, ConfigEnd
  PROVE  PhaseInv' /\ OutIsScript'
<1>1. /\ rows \in Seq(DumpNames) /\ ri \in 1..Len(rows) /\ rows = Rows
      /\ count \in 1..(Len(Settings[CurDb]) + 1)
      /\ out = CurHead \o SubSeq(CurAlters, 1, count - 1)
  BY DEF RInv, IInv, DumpShape, OutIsScript, ConfigEnd
<1>2. Len(rows) <= 6
  BY <1>1, RowsSelection
<1>3. CurDb \in DumpNames
  BY <1>1 DEF CurDb
<1>4. /\ Blk(CurDb) = RowStmts(CurDb) \o CurAlters
      /\ RowStmts(CurDb) \in Seq(StmtSet) /\ CurAlters \in Seq(StmtSet)
  BY <1>3, BlkDef DEF CurAlters
<1>5. Scr(rows, ri - 1) \in Seq(StmtSet)
  <2>1. ri - 1 \in 0..Len(rows)
    BY <1>1
  <2>. QED
    BY <1>1, <1>2, <2>1, ScFPrefix
<1>6. count - 1 = Len(CurAlters)
  <2>1. Setting(CurDb, count) = NoSetting
    BY DEF ConfigEnd, CurDb
  <2>2. count \notin 1..Len(Settings[CurDb]) /\ Len(CurAlters) = Len(Settings[CurDb])
    BY <1>1, <1>3, <2>1, SettingFacts DEF CurAlters
  <2>. QED
    BY <1>1, <2>2
<1>7. out = Scr(rows, ri)
  <2>1. SubSeq(CurAlters, 1, Len(CurAlters)) = CurAlters
    BY <1>4, SubSeqFull
  <2>2. out = (Scr(rows, ri - 1) \o RowStmts(CurDb)) \o CurAlters
    BY <1>1, <1>6, <2>1 DEF CurHead
  <2>3. (Scr(rows, ri - 1) \o RowStmts(CurDb)) \o CurAlters
        = Scr(rows, ri - 1) \o (RowStmts(CurDb) \o CurAlters)
    BY <1>4, <1>5, ConcatAssoc
  <2>4. Scr(rows, ri) = Scr(rows, ri - 1) \o Blk(CurDb)
    BY <1>1, ScFStep DEF CurDb
  <2>. QED
    BY <1>4, <2>2, <2>3, <2>4
<1>8. dpc' = "row" /\ rows' = rows /\ ri' = ri + 1 /\ out' = out
  BY DEF ConfigEnd
<1>9. Rows' = Rows
  BY RowsUnchanged DEF ConfigEnd, vars
<1>10. PhaseInv'
  BY DEF RInv, PhaseInv, ConfigEnd, vars
<1>. QED
  BY <1>1, <1>7, <1>8, <1>9, <1>10 DEF OutIsScript

\* The datname query's rows arrive; nothing is printed yet.
LEMMA DumpStartRInv ==
  ASSUME RInv, DumpStart
  PROVE  PhaseInv' /\ OutIsScript'
<1>1. out = <<>>
  BY DEF RInv, IInv, DumpShape, DumpStart
<1>2. Rows \in Seq(DumpNames)
  BY RowsFacts
<1>3. Scr(Rows, 1 - 1) = <<>>
  BY <1>2, ScFStep
<1>4. dpc' = "row" /\ rows' = Rows /\ ri' = 1 /\ out' = out /\ Rows' = Rows
  BY RowsUnchanged DEF DumpStart, vars
<1>5. PhaseInv'
  BY DEF RInv, PhaseInv, DumpStart, vars, ConnectPhases, FailPhases
<1>. QED
  BY <1>1, <1>3, <1>4, <1>5 DEF OutIsScript

\* The loop is over: exit(0).
LEMMA DumpEndRInv ==
  ASSUME RInv, DumpEnd
  PROVE  PhaseInv' /\ OutIsScript'
<1>1. rows \in Seq(DumpNames) /\ ri = Len(rows) + 1 /\ out = Scr(rows, ri - 1) /\ rows = Rows
  BY DEF RInv, IInv, DumpShape, OutIsScript, DumpEnd
<1>2. dpc' = "done" /\ rows' = rows /\ ri' = ri /\ out' = out /\ Rows' = Rows
  BY RowsUnchanged DEF DumpEnd
<1>3. PhaseInv'
  BY DEF RInv, PhaseInv, DumpEnd, ConnectPhases, FailPhases, callVars
<1>. QED
  BY <1>1, <1>2, <1>3 DEF OutIsScript

\* executeQuery() loses the connection: exit(1).
LEMMA QueryLostRInv ==
  ASSUME RInv, QueryLost
  PROVE  PhaseInv' /\ OutIsScript'
BY DEF RInv, PhaseInv, OutIsScript, QueryLost, ConnectPhases, FailPhases, callVars

\* An old server, or printf's crash: main() ends before the rows.
LEMMA QueryFailedRInv ==
  ASSUME RInv, QueryFailed \/ NullDbnameCrash
  PROVE  PhaseInv' /\ OutIsScript'
BY DEF RInv, PhaseInv, OutIsScript, QueryFailed, NullDbnameCrash, ConnectPhases,
       FailPhases, callVars, dumpVars

\* The connection code leaves the dump alone.
LEMMA ConnectStepRInv ==
  ASSUME RInv, ConnectStep
  PROVE  PhaseInv' /\ OutIsScript'
<1>1. PhaseInv' /\ dpc = "idle" /\ dpc' = "idle"
  BY ConnectStepPhase DEF RInv
<1>2. rows' = rows
  BY DEF ConnectStep, dumpVars
<1>. QED
  BY <1>1, <1>2 DEF RInv, OutIsScript

\* A stuttering step.
LEMMA StutterRInv ==
  ASSUME RInv, UNCHANGED allVars
  PROVE  PhaseInv' /\ OutIsScript'
<1>1. Rows' = Rows
  BY RowsUnchanged DEF allVars, vars
<1>. QED
  BY <1>1 DEF RInv, PhaseInv, OutIsScript, allVars, vars, dumpVars, CurDb, CurHead,
             CurAlters

\* RInv holds before main() connects, and every step keeps it.
LEMMA InitRInv == DumpInit => RInv
BY InitIInv DEF DumpInit, Init, RInv, PhaseInv, OutIsScript, ConnectPhases, FailPhases

LEMMA NextRInv == RInv /\ [DumpNext]_allVars => RInv'
<1> SUFFICES ASSUME RInv, [DumpNext]_allVars PROVE RInv'
  OBVIOUS
<1>1. IInv'
  BY NextIInv DEF RInv
<1>2. PhaseInv' /\ OutIsScript'
  BY ConnectStepRInv, QueryFailedRInv, DumpStartRInv, DumpRowRInv, ConfigItemRInv,
     ConfigEndRInv, QueryLostRInv, DumpEndRInv, StutterRInv DEF DumpNext
<1>. QED
  BY <1>1, <1>2 DEF RInv

-----------------------------------------------------------------------------
(***************************************************************************)
(* Every step of main() is a step of DumpAbstract or leaves its variables *)
(* alone.                                                                  *)
(***************************************************************************)
\* What OPF holds inside dumpDatabaseConfig() of row i of s, before
\* setconfig[c]; the settings printed so far and the ones still to come.
Mid(s, i, c) == (Scr(s, i - 1) \o RowStmts(s[i])) \o SubSeq(AltersOf(s[i]), 1, c - 1)
Done(s, i, c) == SubSeq(AltersOf(s[i]), 1, c - 1)
ToCome(s, i, c) == SubSeq(AltersOf(s[i]), c, Len(AltersOf(s[i])))

\* That is a prefix of the script of s.
LEMMA MidPrefix ==
  ASSUME NEW s \in Seq(DumpNames), Len(s) <= 6, NEW i \in 1..Len(s),
         NEW c \in 1..(Len(Settings[s[i]]) + 1)
  PROVE  /\ Mid(s, i, c) \in Seq(StmtSet)
         /\ \E t \in Seq(StmtSet) : Abs!Script(s) = Mid(s, i, c) \o t
<1>1. s[i] \in DumpNames
  OBVIOUS
<1>2. /\ Blk(s[i]) = RowStmts(s[i]) \o AltersOf(s[i])
      /\ RowStmts(s[i]) \in Seq(StmtSet) /\ AltersOf(s[i]) \in Seq(StmtSet)
  BY <1>1, BlkDef
<1>3. Len(AltersOf(s[i])) = Len(Settings[s[i]])
  BY <1>1, SettingFacts
<1>4. /\ AltersOf(s[i]) = Done(s, i, c) \o ToCome(s, i, c)
      /\ Done(s, i, c) \in Seq(StmtSet) /\ ToCome(s, i, c) \in Seq(StmtSet)
  <2>1. c - 1 \in 0..Len(AltersOf(s[i])) /\ (c - 1) + 1 = c
    BY <1>3
  <2>. QED
    BY <1>2, <2>1, SubSeqSplit DEF Done, ToCome
<1>5. i - 1 \in 0..Len(s) /\ i \in 0..Len(s)
  OBVIOUS
<1>6. Scr(s, i - 1) \in Seq(StmtSet)
  BY <1>5, ScFPrefix
<1>7. PICK t \in Seq(StmtSet) : Scr(s, Len(s)) = Scr(s, i) \o t
  BY <1>5, ScFPrefix
<1>8. Abs!Script(s) = ((Scr(s, i - 1) \o RowStmts(s[i])) \o Done(s, i, c))
                      \o (ToCome(s, i, c) \o t)
  <2>1. Scr(s, i) = Scr(s, i - 1) \o Blk(s[i])
    BY ScFStep
  <2>2. Abs!Script(s) = Scr(s, Len(s))
    BY ScriptIsScF
  <2>3. Abs!Script(s) = (Scr(s, i - 1) \o (RowStmts(s[i]) \o (Done(s, i, c) \o ToCome(s, i, c)))) \o t
    BY <1>2, <1>4, <1>7, <2>1, <2>2
  <2>4. RowStmts(s[i]) \o (Done(s, i, c) \o ToCome(s, i, c))
        = (RowStmts(s[i]) \o Done(s, i, c)) \o ToCome(s, i, c)
    BY <1>2, <1>4, ConcatAssoc
  <2>0. /\ RowStmts(s[i]) \o Done(s, i, c) \in Seq(StmtSet)
        /\ Scr(s, i - 1) \o RowStmts(s[i]) \in Seq(StmtSet)
        /\ (Scr(s, i - 1) \o RowStmts(s[i])) \o Done(s, i, c) \in Seq(StmtSet)
    BY <1>2, <1>4, <1>6
  <2>5. Scr(s, i - 1) \o ((RowStmts(s[i]) \o Done(s, i, c)) \o ToCome(s, i, c))
        = (Scr(s, i - 1) \o (RowStmts(s[i]) \o Done(s, i, c))) \o ToCome(s, i, c)
    BY <1>4, <1>6, <2>0, ConcatAssoc
  <2>6. Scr(s, i - 1) \o (RowStmts(s[i]) \o Done(s, i, c))
        = (Scr(s, i - 1) \o RowStmts(s[i])) \o Done(s, i, c)
    BY <1>2, <1>4, <1>6, ConcatAssoc
  <2>7. (((Scr(s, i - 1) \o RowStmts(s[i])) \o Done(s, i, c)) \o ToCome(s, i, c)) \o t
        = ((Scr(s, i - 1) \o RowStmts(s[i])) \o Done(s, i, c)) \o (ToCome(s, i, c) \o t)
    BY <1>4, <2>0, ConcatAssoc
  <2>. QED
    BY <2>3, <2>4, <2>5, <2>6, <2>7
<1>9. Mid(s, i, c) = (Scr(s, i - 1) \o RowStmts(s[i])) \o Done(s, i, c)
  BY DEF Mid, Done
<1>. QED
  <2>1. Mid(s, i, c) \in Seq(StmtSet)
    BY <1>2, <1>4, <1>6, <1>9
  <2>2. ToCome(s, i, c) \o t \in Seq(StmtSet)
    BY <1>4
  <2>. QED
    BY <1>8, <1>9, <2>1, <2>2

\* A longer prefix of a sequence is an Emit of DumpAbstract.
LEMMA EmitStep ==
  ASSUME NEW a \in Seq(StmtSet), NEW b \in Seq(StmtSet), NEW t \in Seq(StmtSet),
         Len(a) < Len(b)
  PROVE  \E n \in (Len(a) + 1)..Len(b \o t) : b = SubSeq(b \o t, 1, n)
<1>1. SubSeq(b \o t, 1, Len(b)) = b /\ Len(b \o t) = Len(b) + Len(t)
  BY PrefixOfConcat
<1>2. Len(b) \in (Len(a) + 1)..Len(b \o t)
  BY <1>1
<1>. WITNESS Len(b) \in (Len(a) + 1)..Len(b \o t)
<1>. QED
  BY <1>1

\* Connecting is DumpAbstract's connecting stage; its exits are a Fail.
LEMMA ConnectStepRefines ==
  ASSUME RInv, ConnectStep
  PROVE  [Abs!ANext]_Abs!avars
<1>1. /\ phase \in ConnectPhases /\ dpc = "idle" /\ dpc' = "idle"
      /\ phase' \in ConnectPhases \cup {"dump", "exit_oom", "exit_connect", "exit_main"}
  BY ConnectStepPhase DEF RInv
<1>2. rows' = rows /\ out' = out
  BY DEF ConnectStep, dumpVars
<1>3. AbsStage = "connecting"
  BY <1>1 DEF AbsStage, ConnectPhases
<1>4. CASE phase' \in ConnectPhases \cup {"dump"}
  <2>1. AbsStage' = "connecting"
    BY <1>1, <1>4 DEF AbsStage, ConnectPhases
  <2>. QED
    BY <1>1, <1>2, <1>3, <2>1 DEF Abs!avars
<1>5. CASE phase' \in {"exit_oom", "exit_connect", "exit_main"}
  <2>1. AbsStage' = "failed"
    <3>1. phase' # "exit_ok"
      BY <1>5
    <3>. QED
      BY <1>5, <3>1, Zenon DEF AbsStage
  <2>. QED
    BY <1>1, <1>2, <1>3, <2>1 DEF Abs!ANext, Abs!Fail
<1>. QED
  BY <1>1, <1>4, <1>5

\* An old server or printf's crash before the rows: a Fail.
LEMMA QueryFailedRefines ==
  ASSUME RInv, QueryFailed \/ NullDbnameCrash
  PROVE  Abs!Fail
<1>1. phase = "dump" /\ dpc = "idle" /\ phase' \in {"exit_query", "crash"}
      /\ UNCHANGED <<dpc, rows, out>>
  BY DEF QueryFailed, NullDbnameCrash, dumpVars
<1>2. AbsStage = "connecting"
  BY <1>1 DEF AbsStage
<1>3. AbsStage' = "failed"
  <2>1. phase' # "exit_ok"
    BY <1>1
  <2>. QED
    BY <1>1, <2>1, Zenon DEF AbsStage
<1>. QED
  BY <1>1, <1>2, <1>3 DEF Abs!Fail

\* The rows of the datname query are the selection of a Begin.
LEMMA DumpStartRefines ==
  ASSUME RInv, DumpStart
  PROVE  Abs!Begin
<1>1. phase = "dump" /\ dpc = "idle" /\ phase' = "dump" /\ dpc' = "row"
      /\ rows' = Rows /\ out' = out
  BY DEF DumpStart, vars
<1>2. AbsStage = "connecting" /\ AbsStage' = "dumping"
  BY <1>1 DEF AbsStage
<1>3. Rows \in Abs!Selections
  BY RowsSelection
<1>. QED
  BY <1>1, <1>2, <1>3 DEF Abs!Begin

\* A row's CREATE and ACL statements, or one of its settings, printed: an
\* Emit of the longer prefix of the script.
LEMMA PrintRefines ==
  ASSUME RInv, RInv', DumpRow \/ ConfigItem
  PROVE  Abs!Emit
<1>1. /\ dpc \in {"row", "config"} /\ dpc' = "config"
      /\ rows' = rows /\ ri' = ri /\ phase' = phase
  BY DEF DumpRow, ConfigItem, vars
<1>2. phase = "dump"
  BY <1>1 DEF RInv, PhaseInv
<1>3. AbsStage = "dumping" /\ AbsStage' = "dumping"
  BY <1>1, <1>2 DEF AbsStage
<1>4. /\ rows \in Seq(DumpNames) /\ rows = Rows /\ ri \in 1..Len(rows)
      /\ out \in Seq(StmtSet)
  BY <1>1 DEF RInv, IInv, DumpShape, OutIsScript
<1>5. Len(rows) <= 6
  BY <1>4, RowsSelection
<1>6. /\ count' \in 1..(Len(Settings[rows[ri]]) + 1)
      /\ out' = Mid(rows, ri, count')
  BY <1>1 DEF RInv, OutIsScript, CurHead, CurAlters, CurDb, Mid
<1>7. PICK t \in Seq(StmtSet) : Abs!Script(rows) = out' \o t
  <2>1. Mid(rows, ri, count') \in Seq(StmtSet)
        /\ \E u \in Seq(StmtSet) : Abs!Script(rows) = Mid(rows, ri, count') \o u
    BY <1>4, <1>5, <1>6, MidPrefix
  <2>. QED
    BY <1>6, <2>1
<1>8. out' \in Seq(StmtSet) /\ Len(out) < Len(out')
  <2>1. rows[ri] \in DumpNames
    BY <1>4
  <2>2. CASE DumpRow
    <3>1. RowStmts(rows[ri]) \in Seq(StmtSet) /\ Len(RowStmts(rows[ri])) > 0
      BY <2>1, BlkDef
    <3>. QED
      BY <1>4, <2>2, <3>1 DEF DumpRow
  <2>3. CASE ConfigItem
    <3>1. Stmt("alter", rows[ri], Setting(rows[ri], count)) \in StmtSet
      <4>1. count \in Nat
        BY DEF RInv, IInv, DumpShape
      <4>. QED
        BY <2>1, <4>1, StmtType
    <3>. QED
      BY <1>4, <2>3, <3>1 DEF ConfigItem
  <2>. QED
    BY <2>2, <2>3
<1>9. \E n \in (Len(out) + 1)..Len(out' \o t) : out' = SubSeq(out' \o t, 1, n)
  BY <1>4, <1>8, EmitStep
<1>10. (IF dpc = "idle" THEN <<>> ELSE rows) = rows
       /\ (IF dpc' = "idle" THEN <<>> ELSE rows') = rows
  BY <1>1
<1>. QED
  BY <1>3, <1>7, <1>9, <1>10 DEF Abs!Emit

\* The end of a row's settings prints nothing: a stutter.
LEMMA ConfigEndRefines ==
  ASSUME RInv, ConfigEnd
  PROVE  UNCHANGED Abs!avars
<1>1. dpc = "config" /\ dpc' = "row" /\ phase' = phase /\ rows' = rows /\ out' = out
  BY DEF ConfigEnd, vars
<1>2. phase = "dump"
  BY <1>1 DEF RInv, PhaseInv
<1>. QED
  BY <1>1, <1>2 DEF Abs!avars, AbsStage

\* exit(0) after the last row: the whole script is out, a Succeed.
LEMMA DumpEndRefines ==
  ASSUME RInv, DumpEnd
  PROVE  Abs!Succeed
<1>1. /\ rows \in Seq(DumpNames) /\ rows = Rows
      /\ ri = Len(rows) + 1 /\ out = Scr(rows, ri - 1)
  BY DEF RInv, IInv, DumpShape, OutIsScript, DumpEnd
<1>2. out = Abs!Script(rows)
  BY <1>1, ScriptIsScF
<1>3. dpc = "row" /\ dpc' = "done" /\ phase' = "exit_ok" /\ UNCHANGED <<rows, out>>
  BY DEF DumpEnd
<1>4. phase = "dump"
  BY <1>3 DEF RInv, PhaseInv
<1>5. AbsStage = "dumping" /\ AbsStage' = "ok"
  BY <1>3, <1>4 DEF AbsStage
<1>. QED
  BY <1>2, <1>3, <1>5 DEF Abs!Succeed

\* A lost connection during the queries or the loop: a Fail.
LEMMA QueryLostRefines ==
  ASSUME RInv, QueryLost
  PROVE  Abs!Fail
<1>1. phase = "dump" /\ dpc \in {"idle", "config"} /\ phase' = "exit_lost"
      /\ dpc' = "lost" /\ UNCHANGED <<rows, out>>
  BY DEF QueryLost
<1>2. AbsStage \in {"connecting", "dumping"} /\ AbsStage' = "failed"
  BY <1>1 DEF AbsStage
<1>3. dpc = "idle" => rows = <<>>
  BY DEF RInv, OutIsScript
<1>. QED
  BY <1>1, <1>2, <1>3 DEF Abs!Fail

\* Every step of main() is a step of DumpAbstract or a stutter of it.
LEMMA StepRefines ==
  RInv /\ RInv' /\ [DumpNext]_allVars => [Abs!ANext]_Abs!avars
<1> SUFFICES ASSUME RInv, RInv', [DumpNext]_allVars PROVE [Abs!ANext]_Abs!avars
  OBVIOUS
<1>1. CASE ConnectStep
  BY <1>1, ConnectStepRefines
<1>2. CASE QueryFailed \/ NullDbnameCrash
  BY <1>2, QueryFailedRefines DEF Abs!ANext
<1>3. CASE DumpStart
  BY <1>3, DumpStartRefines DEF Abs!ANext
<1>4. CASE DumpRow \/ ConfigItem
  BY <1>4, PrintRefines DEF Abs!ANext
<1>5. CASE ConfigEnd
  BY <1>5, ConfigEndRefines
<1>6. CASE DumpEnd
  BY <1>6, DumpEndRefines DEF Abs!ANext
<1>7. CASE QueryLost
  BY <1>7, QueryLostRefines DEF Abs!ANext
<1>8. CASE UNCHANGED allVars
  BY <1>8 DEF allVars, vars, dumpVars, Abs!avars, AbsStage
<1>. QED
  BY <1>1, <1>2, <1>3, <1>4, <1>5, <1>6, <1>7, <1>8 DEF DumpNext

(***************************************************************************)
(* main() implements DumpAbstract: the property DumpRefinesAbstract that   *)
(* the main run checks on the model's command lines holds for every one,  *)
(* every setconfig array and every server version.  OPF only ever holds a *)
(* prefix of the script of the datname rows in ORDER BY order, the prefix *)
(* only grows, and exit(0) comes with the whole script printed.            *)
(***************************************************************************)
THEOREM DumpRefines == DumpSpec => DumpRefinesAbstract
<1>1. DumpSpec => []RInv
  BY InitRInv, NextRInv, PTL DEF DumpSpec
<1>2. DumpInit => Abs!AInit
  BY DEF DumpInit, Init, AbsStage, Abs!AInit
<1>. QED
  BY <1>1, <1>2, StepRefines, PTL DEF DumpSpec, DumpRefinesAbstract, Abs!ASpec

=============================================================================
