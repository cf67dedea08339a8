--------------------------- MODULE ConnectDriver ---------------------------
(***************************************************************************)
(* How pg_dumpacl.c connects: main()'s sequence of connectDatabase() calls *)
(* (lines 217-284) and connectDatabase() itself (lines 357-579), built for *)
(* a client of version 10 or later (PG_VERSION_NUM > 100000), with its     *)
(* password loop, the keyword/value arrays it hands to PQconnectdbParams() *)
(* and the static have_password.                                           *)
(*                                                                         *)
(* A database is named by a string: "d" (-d), "env" (PGDATABASE), "conn"   *)
(* (dbname= in the -c connection string), "user" (libpq's default, the     *)
(* user's name), "postgres", "template1"; "none" is a NULL dbname.  The    *)
(* command line and the server are the record opt, chosen in Init.         *)
(***************************************************************************)
EXTENDS Integers, Sequences, FiniteSets

CONSTANTS
  MaxAttempts  \* bound on the PQconnectdbParams() calls of one connectDatabase()

ASSUME DriverAssumption == MaxAttempts \in Nat \ {0}

Dbs == {"d", "env", "conn", "user", "postgres"}
ConnKeys == {"dbname", "sslmode"}        \* options a -c string may set
\* What a fresh pg_malloc(101) holds: nothing meaningful.
Uninit == {"empty", "junk"}

Opts ==
  [dOpt : BOOLEAN, cOpt : BOOLEAN, copts : SUBSET ConnKeys,
   flags : {{}, {"host", "port", "user"}},      \* -h, -p, -U
   prompt : {"yes", "no", "default"},           \* -W, -w, neither
   envSet : BOOLEAN, allDb : BOOLEAN,
   accepting : SUBSET Dbs, needsPw : BOOLEAN]

VARIABLES
  opt,           \* command line, environment and server
  phase,         \* main()'s progress
  pgdb,          \* main()'s pgdb
  connstrDbname, \* the global connstr_dbname is set
  conn,          \* the last connectDatabase() result: "null" or a database
  cdb, failOnError, ret,  \* the running connectDatabase()'s arguments,
                          \* and where main() goes on after it
  cpc,           \* connectDatabase()'s progress
  attempts,      \* its PQconnectdbParams() calls so far
  pw,            \* what its password block holds: "typed" or Uninit
  kw, argcount, term,  \* keywords[0..i-1], argcount, keywords[i]
  res,           \* the last attempt: "ok", "needpw" or "bad"
  havePassword,  \* static have_password
  prompts        \* the password prompts the user has seen

vars == <<opt, phase, pgdb, connstrDbname, conn, cdb, failOnError, ret, cpc,
          attempts, pw, kw, argcount, term, res, havePassword, prompts>>
callVars == <<cdb, failOnError, ret, cpc, attempts, pw, kw, argcount, term, res>>

\* The database PQconnectdbParams() connects to: the last dbname keyword,
\* else PGDATABASE, else the user's name.
Target(db) ==
  IF db # "none" THEN db
  ELSE IF "dbname" \in opt.copts THEN "conn"
  ELSE IF opt.envSet THEN "env" ELSE "user"

\* The server's answer to the keywords sent.
Outcome ==
  IF opt.needsPw /\ (\A k \in 1..Len(kw) : kw[k] # "password")
  THEN "needpw"
  ELSE IF opt.needsPw /\ pw = "empty" THEN "needpw"
  ELSE IF opt.needsPw /\ pw # "typed" THEN "bad"
  ELSE IF Target(cdb) \in opt.accepting THEN "ok" ELSE "bad"

\* The keywords connectDatabase() fills in, in order: the non-empty options
\* of the connection string, then one per "if" of lines 457-483.
\* Opt(b, k) is the one-keyword block "if (b) keywords[i++] = k".
Opt(b, k) == IF b THEN <<k>> ELSE <<>>
KeyNames == {"c_dbname", "c_sslmode", "host", "port", "user", "password",
             "dbname", "fallback_application_name"}
Keywords ==
  Opt("dbname" \in opt.copts, "c_dbname") \o Opt("sslmode" \in opt.copts, "c_sslmode")
  \o Opt("host" \in opt.flags, "host") \o Opt("port" \in opt.flags, "port")
  \o Opt("user" \in opt.flags, "user") \o Opt(havePassword, "password")
  \o Opt(cdb # "none", "dbname") \o <<"fallback_application_name">>

\* main() calls connectDatabase(db, ..., fail) and goes on at phase r.
Call(db, fail, r) ==
  /\ cdb' = db /\ failOnError' = fail /\ ret' = r
  /\ cpc' = "enter" /\ phase' = "connect"
-----------------------------------------------------------------------------
Init ==
  /\ opt \in {o \in Opts : ~o.cOpt => o.copts = {}}
  /\ phase = "start"
  /\ pgdb = IF opt.dOpt THEN "d" ELSE "none"
  /\ connstrDbname = FALSE
  /\ conn = "null"
  /\ cdb = "none" /\ failOnError = FALSE /\ ret = "start"
  /\ cpc = "idle" /\ attempts = 0 /\ pw = "empty"
  /\ kw = <<>> /\ argcount = 0 /\ term = "null" /\ res = "bad"
  /\ havePassword = FALSE
  /\ prompts = 0

\* main(): the first connectDatabase(pgdb, connstr, ..., false).
MainFirst ==
  /\ phase = "start"
  /\ Call(pgdb, FALSE, "first")
  /\ UNCHANGED <<opt, pgdb, connstrDbname, conn, attempts, pw, kw, argcount,
                 term, res, havePassword, prompts>>

\* Mutant: have_password as an automatic variable, false on every call.
EnterNonStatic ==
  /\ cpc = "enter"
  /\ \E p \in Uninit : pw' = IF opt.prompt = "yes" THEN "typed" ELSE p
  /\ havePassword' = (opt.prompt = "yes")
  /\ prompts' = prompts + (IF opt.prompt = "yes" THEN 1 ELSE 0)
  /\ attempts' = 0 /\ cpc' = "build"
  /\ UNCHANGED <<opt, phase, pgdb, connstrDbname, conn, cdb, failOnError, ret,
                 kw, argcount, term, res>>

\* password = pg_malloc(101); with -W it is prompted for at once.
Enter ==
  /\ cpc = "enter"
  /\ \E p \in Uninit : pw' = IF opt.prompt = "yes" THEN "typed" ELSE p
  /\ havePassword' = (havePassword \/ opt.prompt = "yes")
  /\ prompts' = prompts + (IF opt.prompt = "yes" THEN 1 ELSE 0)
  /\ attempts' = 0 /\ cpc' = "build"
  /\ UNCHANGED <<opt, phase, pgdb, connstrDbname, conn, cdb, failOnError, ret,
                 kw, argcount, term, res>>

\* Mutant: argcount = 5.
BuildShort ==
  /\ cpc = "build"
  /\ argcount' = 5 + Cardinality(opt.copts)
  /\ kw' = Keywords
  /\ term' \in {"null", "junk"}
  /\ connstrDbname' = (connstrDbname \/ ("dbname" \in opt.copts /\ cdb = "none"))
  /\ cpc' = "call"
  /\ UNCHANGED <<opt, phase, pgdb, conn, cdb, failOnError, ret, attempts, pw,
                 res, havePassword, prompts>>

\* One pass of the do-while loop up to PQconnectdbParams(): argcount counts
\* the non-empty options of the connection string, the arrays get
\* argcount + 1 slots, filled up to i; keywords[i] is never written, so it
\* holds whatever pg_malloc() returned.  A dbname of the connection string
\* is kept, and saved in connstr_dbname when no dbname is passed.
Build ==
  /\ cpc = "build"
  /\ argcount' = 6 + Cardinality(opt.copts)
  /\ kw' = Keywords
  /\ term' \in {"null", "junk"}
  /\ connstrDbname' = (connstrDbname \/ ("dbname" \in opt.copts /\ cdb = "none"))
  /\ cpc' = "call"
  /\ UNCHANGED <<opt, phase, pgdb, conn, cdb, failOnError, ret, attempts, pw,
                 res, havePassword, prompts>>

\* PQconnectdbParams(keywords, values, true) returns a connection.
Attempt ==
  /\ cpc = "call"
  /\ res' = Outcome
  /\ attempts' = attempts + 1
  /\ cpc' = "check"
  /\ UNCHANGED <<opt, phase, pgdb, connstrDbname, conn, cdb, failOnError, ret,
                 pw, kw, argcount, term, havePassword, prompts>>

\* PQconnectdbParams() returns NULL: exit(1).
ConnNull ==
  /\ cpc = "call"
  /\ phase' = "exit_oom" /\ cpc' = "idle"
  /\ UNCHANGED <<opt, pgdb, connstrDbname, conn, cdb, failOnError, ret,
                 attempts, pw, kw, argcount, term, res, havePassword, prompts>>

\* The condition of the second try: the server wants a password, none was
\* given yet, and -w is absent.
WantsPassword ==
  res = "needpw" /\ ~havePassword /\ opt.prompt # "no"

\* Mutant: the password is asked for again whatever have_password says.
RetryAlways ==
  /\ cpc = "check" /\ res = "needpw" /\ opt.prompt # "no"
  /\ attempts < MaxAttempts
  /\ pw' = "typed" /\ havePassword' = TRUE /\ prompts' = prompts + 1
  /\ cpc' = "build"
  /\ UNCHANGED <<opt, phase, pgdb, connstrDbname, conn, cdb, failOnError, ret,
                 attempts, kw, argcount, term, res>>

\* PQfinish(conn); simple_prompt(); have_password = new_pass = true.
Retry ==
  /\ cpc = "check" /\ WantsPassword
  /\ attempts < MaxAttempts
  /\ pw' = "typed" /\ havePassword' = TRUE /\ prompts' = prompts + 1
  /\ cpc' = "build"
  /\ UNCHANGED <<opt, phase, pgdb, connstrDbname, conn, cdb, failOnError, ret,
                 attempts, kw, argcount, term, res>>

\* Connected: constructConnStr(); the server version is accepted; return.
Connected ==
  /\ cpc = "check" /\ res = "ok"
  /\ conn' = Target(cdb)
  /\ phase' = ret /\ cpc' = "idle"
  /\ UNCHANGED <<opt, pgdb, connstrDbname, cdb, failOnError, ret, attempts, pw,
                 kw, argcount, term, res, havePassword, prompts>>

\* CONNECTION_BAD with fail_on_error: exit(1) with the server's message.
FailExit ==
  /\ cpc = "check" /\ res # "ok" /\ ~WantsPassword /\ failOnError
  /\ phase' = "exit_connect" /\ cpc' = "idle"
  /\ UNCHANGED <<opt, pgdb, connstrDbname, conn, cdb, failOnError, ret,
                 attempts, pw, kw, argcount, term, res, havePassword, prompts>>

\* CONNECTION_BAD otherwise: return NULL.
FailReturn ==
  /\ cpc = "check" /\ res # "ok" /\ ~WantsPassword /\ ~failOnError
  /\ conn' = "null"
  /\ phase' = ret /\ cpc' = "idle"
  /\ UNCHANGED <<opt, pgdb, connstrDbname, cdb, failOnError, ret, attempts, pw,
                 kw, argcount, term, res, havePassword, prompts>>
-----------------------------------------------------------------------------
\* With -c: pgdb from connstr_dbname, else from PGDATABASE; no connection
\* is fatal.
AfterConnstr ==
  /\ phase = "first" /\ opt.cOpt
  /\ pgdb' = IF pgdb # "none" THEN pgdb
             ELSE IF connstrDbname THEN "conn"
             ELSE IF opt.envSet THEN "env" ELSE "none"
  /\ phase' = IF conn = "null" THEN "exit_main" ELSE "dump"
  /\ UNCHANGED <<opt, connstrDbname, conn, callVars, havePassword, prompts>>

\* Without -c: a failed first call with no pgdb is retried with PGDATABASE.
RetryEnv ==
  /\ phase = "first" /\ ~opt.cOpt
  /\ conn = "null" /\ pgdb = "none" /\ opt.envSet
  /\ pgdb' = "env"
  /\ Call("env", FALSE, "env")
  /\ UNCHANGED <<opt, connstrDbname, conn, attempts, pw, kw, argcount, term,
                 res, havePassword, prompts>>

SkipEnv ==
  /\ phase = "first" /\ ~opt.cOpt
  /\ ~(conn = "null" /\ pgdb = "none" /\ opt.envSet)
  /\ phase' = "env"
  /\ UNCHANGED <<opt, pgdb, connstrDbname, conn, callVars, havePassword, prompts>>

\* Then connectDatabase("postgres", ..., true).  Its fail_on_error makes a
\* failure exit(1) inside it, so the connectDatabase("template1", ...) and
\* the "could not connect to either database" exit after it (lines 261-271)
\* are never reached, and have no action here.
FallbackPostgres ==
  /\ phase = "env" /\ conn = "null"
  /\ Call("postgres", TRUE, "postgres")
  /\ UNCHANGED <<opt, pgdb, connstrDbname, conn, attempts, pw, kw, argcount,
                 term, res, havePassword, prompts>>

\* A connection: on to dumpCreateDB(conn, pgdb, dump_all_db).
Proceed ==
  /\ phase \in {"env", "postgres"} /\ conn # "null"
  /\ phase' = "dump"
  /\ UNCHANGED <<opt, pgdb, connstrDbname, conn, callVars, havePassword, prompts>>

Next ==
  \/ MainFirst \/ Enter \/ Build \/ Attempt \/ ConnNull \/ Retry \/ Connected
  \/ FailExit \/ FailReturn \/ AfterConnstr \/ RetryEnv \/ SkipEnv
  \/ FallbackPostgres \/ Proceed

Spec == Init /\ [][Next]_vars
-----------------------------------------------------------------------------
\* Type invariant.
TypeOK ==
  /\ opt \in Opts
  /\ phase \in {"start", "connect", "first", "env", "postgres",
                "dump", "exit_oom", "exit_connect", "exit_main"}
  /\ pgdb \in Dbs \cup {"none"} /\ cdb \in Dbs \cup {"none"}
  /\ connstrDbname \in BOOLEAN /\ failOnError \in BOOLEAN
  /\ ret \in {"start", "first", "env", "postgres"}
  /\ conn \in Dbs \cup {"null"}
  /\ cpc \in {"idle", "enter", "build", "call", "check"}
  /\ attempts \in Nat
  /\ pw \in Uninit \cup {"typed"}
  /\ kw \in Seq(KeyNames) /\ argcount \in Nat /\ term \in {"null", "junk"}
  /\ res \in {"ok", "needpw", "bad"}
  /\ havePassword \in BOOLEAN /\ prompts \in Nat

(***************************************************************************)
(* connectDatabase() writes keywords[i] and values[i] for i below the      *)
(* argcount + 1 slots it allocates, whatever the options: argcount = 6     *)
(* plus the non-empty options of the connection string covers -h, -p, -U,  *)
(* the password, the dbname and fallback_application_name.                *)
(***************************************************************************)
SlotsWithinArray == cpc \in {"call", "check"} => Len(kw) <= argcount

(***************************************************************************)
(* Without -W the user is asked for a password at most once in the whole  *)
(* run, however many connectDatabase() calls main() falls back to: the     *)
(* purpose of the static have_password.                                    *)
(***************************************************************************)
PromptedOnce == opt.prompt # "yes" => prompts <= 1

(***************************************************************************)
(* PQconnectdbParams() and constructConnStr() read the keywords array up   *)
(* to its NULL entry: the slot after the last one connectDatabase() fills  *)
(* must hold NULL when the array is handed over.                           *)
(***************************************************************************)
KeywordsTerminated == cpc = "call" => term = "null"

(***************************************************************************)
(* A password sent to the server is the one the user typed (the prompt     *)
(* fills the block that values[] points to).                               *)
(***************************************************************************)
SentPasswordIsTyped ==
  cpc = "call" /\ (\E k \in 1..Len(kw) : kw[k] = "password") => pw = "typed"

(***************************************************************************)
(* main()'s last message says the program could not connect to pgdb,      *)
(* "postgres" or "template1": a failed connection to postgres is followed  *)
(* by one to template1.                                                    *)
(***************************************************************************)
Template1Tried == phase = "exit_connect" => cdb # "postgres"

(***************************************************************************)
(* The comment of connectDatabase(): "Explicitly discard any dbname value  *)
(* in the connection string; otherwise, PQconnectdbParams() would          *)
(* interpret that value as being itself a connection string."              *)
(***************************************************************************)
ConnstrDbnameDiscarded ==
  cpc = "call" => \A k \in 1..Len(kw) : kw[k] # "c_dbname"

=============================================================================
