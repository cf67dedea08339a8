---------------------------- MODULE DumpDriver ----------------------------
(***************************************************************************)
(* What main() does once connected: dumpCreateDB(conn, pgdb, dump_all_db)  *)
(* (lines 648-806) with its per-database loop, dumpDatabaseConfig()        *)
(* (lines 1446-1485) and makeAlterConfigCommand() (lines 1506-1543), then  *)
(* exit(0).  It extends ConnectDriver: the dump starts where main() leaves *)
(* the connection code, with phase = "dump", so the two together are the   *)
(* whole program run.                                                      *)
(*                                                                         *)
(* The output is the sequence of statements printed to OPF, each a record  *)
(* naming its kind and its database: "create" (CREATE DATABASE and the     *)
(* datistemplate UPDATE after it), "acl" (what buildACLCommands() returns  *)
(* for the database, modelled by AclEngine) and "alter" (one ALTER         *)
(* DATABASE ... SET).  Formatting and quoting are left out (IdentQuoter    *)
(* and StringLiteral model them).                                          *)
(***************************************************************************)
EXTENDS ConnectDriver

CONSTANTS
  Settings,   \* the setconfig array of each database: a sequence of names
  Versions    \* the server versions connectDatabase() lets through

\* The databases the catalog may hold: the ones ConnectDriver names and
\* template1.  Sorted as ORDER BY datname sorts them.
DumpNames == Dbs \cup {"template1"}
SortedNames == <<"conn", "d", "env", "postgres", "template1", "user">>

\* dumpCreateDB() writes no CREATE DATABASE for these: "they are presumably
\* already there in the destination cluster".
Preexisting == {"template1", "postgres"}

NoSetting == "none"

\* NoSetting stands for the NULL that PQgetisnull() reports past the end of
\* the array: no entry of the array is it.
ASSUME DumpAssumption ==
  /\ Settings \in [DumpNames -> Seq(STRING)]
  /\ \A d \in DumpNames : \A k \in DOMAIN Settings[d] : Settings[d][k] # NoSetting
  /\ Versions \subseteq 80000..110000

VARIABLES
  serverVersion,  \* the global server_version set by connectDatabase()
  rows,           \* the rows of the datname query, in order
  ri,             \* the loop index i of dumpCreateDB(), from 1
  count,          \* dumpDatabaseConfig()'s count
  out,            \* the statements printed so far
  dpc             \* "idle", "row" (the for loop), "config" (the for (;;)
                  \* of dumpDatabaseConfig), "done" or "lost"

dumpVars == <<serverVersion, rows, ri, count, out, dpc>>
allVars == <<vars, dumpVars>>

\* The databases that accept connections: datallowconn.  The connection
\* code's server accepts the ones in opt.accepting; template1 always.
Existing == opt.accepting \cup {"template1"}

\* The WHERE clause of the datname query: every database allowing
\* connections, or with a dbname the one whose name the "%s" prints.  With
\* pgdb NULL glibc prints "(null)", which names no database.
Selected(d) == d \in Existing /\ (opt.allDb \/ d = pgdb)

\* The rows, ORDER BY 1: the selected names of SortedNames, in its order.
AddRow(s, d) == IF Selected(d) THEN Append(s, d) ELSE s
Rows ==
  AddRow(AddRow(AddRow(AddRow(AddRow(AddRow(<<>>, "conn"), "d"), "env"),
                              "postgres"), "template1"), "user")

\* The catalog columns the two queries of dumpCreateDB() read exist from
\* this version on: datcollate/datctype (8.4) in the template0 query,
\* datminmxid (9.3) in the datname query.
CatalogVersion == 90300

\* setconfig[count]: NULL past the end of the array (PQgetisnull).
Setting(d, k) == IF k \in 1..Len(Settings[d]) THEN Settings[d][k] ELSE NoSetting

Stmt(kind, d, s) == [kind |-> kind, db |-> d, set |-> s]

\* The statements of one pass of the for loop before dumpDatabaseConfig():
\* the CREATE DATABASE block (skipped for template1 and postgres), then the
\* ACL statements, printed together.
RowStmts(d) ==
  (IF d \notin Preexisting THEN <<Stmt("create", d, NoSetting)>> ELSE <<>>)
  \o <<Stmt("acl", d, NoSetting)>>

-----------------------------------------------------------------------------
\* main() before its first connection, and the dump's variables.
DumpInit ==
  /\ Init
  /\ serverVersion \in Versions
  /\ rows = <<>> /\ ri = 1 /\ count = 1 /\ out = <<>>
  /\ dpc = "idle"

\* Each step of the connection code leaves the dump alone.
ConnectStep == Next /\ UNCHANGED dumpVars

\* An old server: executeQuery() finds a column missing, prints "query
\* failed" and exits.
QueryFailed ==
  /\ phase = "dump" /\ dpc = "idle"
  /\ serverVersion < CatalogVersion
  /\ phase' = "exit_query"
  /\ UNCHANGED <<opt, pgdb, connstrDbname, conn, callVars, havePassword,
                 prompts, dumpVars>>

\* printf's "%s" of a NULL dbname is undefined: other C libraries crash.
NullDbnameCrash ==
  /\ phase = "dump" /\ dpc = "idle"
  /\ serverVersion >= CatalogVersion
  /\ pgdb = "none" /\ ~opt.allDb
  /\ phase' = "crash"
  /\ UNCHANGED <<opt, pgdb, connstrDbname, conn, callVars, havePassword,
                 prompts, dumpVars>>

\* Mutant: the datname query without its ORDER BY 1: the rows come in
\* the catalog's order.
DumpStartUnordered ==
  /\ phase = "dump" /\ dpc = "idle"
  /\ serverVersion >= CatalogVersion
  /\ rows' = AddRow(AddRow(AddRow(AddRow(AddRow(AddRow(<<>>, "user"), "template1"),
                                       "env"), "postgres"), "d"), "conn")
  /\ ri' = 1
  /\ dpc' = "row"
  /\ UNCHANGED <<vars, serverVersion, count, out>>

\* The template0 query and the datname query succeed.
DumpStart ==
  /\ phase = "dump" /\ dpc = "idle"
  /\ serverVersion >= CatalogVersion
  /\ rows' = Rows /\ ri' = 1
  /\ dpc' = "row"
  /\ UNCHANGED <<vars, serverVersion, count, out>>

\* Mutant: template1 and postgres get a CREATE DATABASE too.
DumpRowNoSkip ==
  /\ dpc = "row" /\ ri <= Len(rows)
  /\ out' = out \o <<Stmt("create", rows[ri], NoSetting),
                     Stmt("acl", rows[ri], NoSetting)>>
  /\ count' = 1 /\ dpc' = "config"
  /\ UNCHANGED <<vars, serverVersion, rows, ri>>

\* Mutant: dumpDatabaseConfig() starts at count = 0.
DumpRowCount0 ==
  /\ dpc = "row" /\ ri <= Len(rows)
  /\ out' = out \o RowStmts(rows[ri])
  /\ count' = 0 /\ dpc' = "config"
  /\ UNCHANGED <<vars, serverVersion, rows, ri>>

\* One pass of the for loop up to dumpDatabaseConfig(), which every server
\* connectDatabase() accepts (>= 8.0) reaches: server_version >= 70300.
DumpRow ==
  /\ dpc = "row" /\ ri <= Len(rows)
  /\ out' = out \o RowStmts(rows[ri])
  /\ count' = 1 /\ dpc' = "config"
  /\ UNCHANGED <<vars, serverVersion, rows, ri>>

\* setconfig[count] is there: makeAlterConfigCommand() prints it (every
\* entry the server stores has its '='); count++.
ConfigItem ==
  /\ dpc = "config"
  /\ Setting(rows[ri], count) # NoSetting
  /\ out' = Append(out, Stmt("alter", rows[ri], Setting(rows[ri], count)))
  /\ count' = count + 1
  /\ UNCHANGED <<vars, serverVersion, rows, ri, dpc>>

\* setconfig[count] is NULL: break; the for loop goes on with i + 1.
ConfigEnd ==
  /\ dpc = "config"
  /\ Setting(rows[ri], count) = NoSetting
  /\ ri' = ri + 1 /\ dpc' = "row"
  /\ UNCHANGED <<vars, serverVersion, rows, count, out>>

\* The connection to the server is lost (the server shuts down, the network
\* fails) at one of the queries of dumpCreateDB(): the template0 and
\* datname queries, or the setconfig[count] query of each turn of
\* dumpDatabaseConfig().  executeQuery() prints "query failed", calls
\* PQfinish() and exit(1); what OPF holds stays printed.
QueryLost ==
  /\ phase = "dump" /\ dpc \in {"idle", "config"}
  /\ phase' = "exit_lost" /\ dpc' = "lost"
  /\ UNCHANGED <<opt, pgdb, connstrDbname, conn, callVars, havePassword,
                 prompts, serverVersion, rows, ri, count, out>>

\* Mutant: the loop stops one row late.
DumpEndLate ==
  /\ dpc = "row" /\ ri > Len(rows) + 1
  /\ dpc' = "done" /\ phase' = "exit_ok"
  /\ UNCHANGED <<opt, pgdb, connstrDbname, conn, callVars, havePassword,
                 prompts, serverVersion, rows, ri, count, out>>

\* The loop is over: main() calls exit(0).
DumpEnd ==
  /\ dpc = "row" /\ ri > Len(rows)
  /\ dpc' = "done" /\ phase' = "exit_ok"
  /\ UNCHANGED <<opt, pgdb, connstrDbname, conn, callVars, havePassword,
                 prompts, serverVersion, rows, ri, count, out>>

DumpNext ==
  \/ ConnectStep \/ QueryFailed \/ NullDbnameCrash \/ DumpStart \/ DumpRow
  \/ ConfigItem \/ ConfigEnd \/ QueryLost \/ DumpEnd

DumpSpec == DumpInit /\ [][DumpNext]_allVars

\* pg_dumpacl is one sequential process: whenever it can take a step it
\* takes one.  A libpq call that never returns is outside this assumption.
FairSpec == DumpSpec /\ WF_allVars(DumpNext)

-----------------------------------------------------------------------------
\* Type invariant.
DumpTypeOK ==
  /\ serverVersion \in Versions
  /\ rows \in Seq(DumpNames)
  /\ ri \in 1..(Len(rows) + 1)
  /\ count \in Nat
  /\ out \in Seq([kind : {"create", "acl", "alter"}, db : DumpNames,
                  set : {NoSetting} \cup UNION {{Settings[d][k] : k \in DOMAIN Settings[d]} : d \in DumpNames}])
  /\ dpc \in {"idle", "row", "config", "done", "lost"}

\* The databases a replay has when it reaches statement k of the output: the
\* preexisting ones and those an earlier CREATE DATABASE made.
CreatedBefore(k) ==
  Preexisting \cup {out[j].db : j \in {j2 \in 1..(k - 1) : out[j2].kind = "create"}}

(***************************************************************************)
(* The printed script replays on a fresh cluster: a CREATE DATABASE names  *)
(* a database the destination does not have yet (not template1 or         *)
(* postgres, not one created before), and every GRANT, REVOKE or ALTER     *)
(* DATABASE ... SET names one it has by then, whatever databases the dump  *)
(* covers and in whatever order dumpCreateDB() meets them.                 *)
(***************************************************************************)
ScriptReplays ==
  \A k \in 1..Len(out) :
    IF out[k].kind = "create" THEN out[k].db \notin CreatedBefore(k)
                              ELSE out[k].db \in CreatedBefore(k)

(***************************************************************************)
(* When dumpCreateDB() returns, the output covers exactly the databases    *)
(* the datname query selects (all databases allowing connections with -a,  *)
(* else the one named pgdb): one block of ACL statements each, and for     *)
(* each every entry of its setconfig array, in the array's order, as one   *)
(* ALTER DATABASE ... SET.                                                 *)
(***************************************************************************)
DumpComplete ==
  dpc = "done" =>
    \A d \in DumpNames :
      LET selected == \E k \in DOMAIN Rows : Rows[k] = d
          acls     == SelectSeq(out, LAMBDA s : s.db = d /\ s.kind = "acl")
          alters   == SelectSeq(out, LAMBDA s : s.db = d /\ s.kind = "alter")
      IN  /\ Len(acls) = IF selected THEN 1 ELSE 0
          /\ [k \in DOMAIN alters |-> alters[k].set]
               = IF selected THEN Settings[d] ELSE <<>>

(***************************************************************************)
(* Without -a, a run that ends with exit(0) has printed the database the   *)
(* user named (or connected to): main() hands pgdb to dumpCreateDB().      *)
(***************************************************************************)
DumpTargetDumped ==
  phase = "exit_ok" /\ ~opt.allDb => \E k \in 1..Len(out) : out[k].db = pgdb

(***************************************************************************)
(* connectDatabase() accepts any server from 8.0 on (lines 563-576, "We     *)
(* allow the server to be back to 8.0"): a server it accepts is dumped,   *)
(* not refused by a failing query.                                         *)
(***************************************************************************)
AcceptedServerDumped == phase # "exit_query"

(***************************************************************************)
(* Every run of main() ends: the connection code, the fallbacks, the row   *)
(* loop of dumpCreateDB() and the for (;;) of dumpDatabaseConfig() (which  *)
(* stops at the first NULL setconfig[count]) all terminate, in one of the  *)
(* exits or with exit(0).                                                  *)
(***************************************************************************)
Terminates ==
  <>(phase \in {"exit_oom", "exit_connect", "exit_main", "exit_query",
                "exit_lost", "crash", "exit_ok"})

-----------------------------------------------------------------------------
\* The refinement mapping: main() is "connecting" until dumpCreateDB() has
\* its rows, "dumping" until it exits; the databases chosen are the rows of
\* the datname query and the abstract output is OPF.
\* An exit of the connection code also has the dump idle: the exits come
\* first.
AbsStage ==
  IF phase = "exit_ok" THEN "ok"
  ELSE IF phase \in {"exit_oom", "exit_connect", "exit_main", "exit_query",
                     "exit_lost", "crash"} THEN "failed"
  ELSE IF dpc = "idle" THEN "connecting"
  ELSE "dumping"

Abs == INSTANCE DumpAbstract
         WITH Order <- SortedNames, stage <- AbsStage,
              sel <- IF dpc = "idle" THEN <<>> ELSE rows, aout <- out

(***************************************************************************)
(* main() implements DumpAbstract: at every step OPF holds a prefix of the *)
(* script of the rows, in name order; it only grows; and exit(0) comes     *)
(* once all of it is printed.  A run cut short by a lost connection, a     *)
(* failing query or a crash leaves the beginning of that script.           *)
(***************************************************************************)
DumpRefinesAbstract == Abs!ASpec

=============================================================================
