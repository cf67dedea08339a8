# A TLA+ verification of pg_dumpacl

`pg_dumpacl` (src/pg_dumpacl.c) connects to a PostgreSQL server and prints,
for one database or for all, the `CREATE DATABASE` statement, the
`GRANT`/`REVOKE` statements that rebuild the database's access-control list
(ACL) and its `ALTER DATABASE ... SET` settings. This directory holds TLA+
models of its parts, the TLC runs that check them on small instances, and
TLAPS proofs of their main invariants for every value of the constants.
PROJECT.json lists every component, run, mutant, finding, hazard and
theorem, and maps every definition to the lines of the code it models.

## The system's parts and how they interact

| part | code (src/pg_dumpacl.c) | module |
|---|---|---|
| driver: connection sequence | `main` 217-288 | ConnectDriver |
| connection | `connectDatabase` 357-546 | ConnectDriver |
| database dumper | `dumpCreateDB` 648-806, `executeQuery` 807-826 | DumpDriver, DumpAbstract, DumpDriverProofs, DumpRefinementProofs |
| settings dumper | `dumpDatabaseConfig` 1446-1485, `makeAlterConfigCommand` 1506-1543 | DumpDriver |
| ACL engine | `buildACLCommands` 928-1113, `parseAclItem` 1115-1270, `AddAcl` 1272-1280 | AclEngine, AclReplay |
| item tokenizer | `parseAclItem` 1128-1153, `copyAclUserName` 1283-1317 | NameScanner, NameScannerRef |
| array decoder | `parsePGArray` 1374-1444 | ArrayDecoder, ArrayDecoderRef |
| identifier quoter | `fmtId` 1319-1372, `defaultGetLocalPQExpBuffer` 1487-1504 | IdentQuoter, IdentQuoterRef |
| literal escaper | `appendStringLiteral`, `appendStringLiteralConn` 828-926 | StringLiteral, StringLiteralProofs |

`main` connects, with fallbacks: it tries the `-d` database, then
`PGDATABASE`, then `postgres`. It then calls `dumpCreateDB`. That function
queries `pg_database` and, for each selected database, does three things:
- prints `CREATE DATABASE`, skipped for `template1` and `postgres`;
- calls `buildACLCommands` on the `datacl` text;
- calls `dumpDatabaseConfig`, which prints one `ALTER DATABASE ... SET` per
  entry of `setconfig`.

`buildACLCommands` works in three stages:
1. It splits the array with `parsePGArray`.
2. It tokenizes each item with `copyAclUserName`, and maps the privilege codes
   to keywords.
3. It writes two streams, `firstsql` (the owner's statements) and `secondsql`
   (everyone else's). These are pasted into the caller's buffer only once
   every item has parsed.

`fmtId` and `appendStringLiteralConn` format names and values throughout.

## Modules

Each module translates the code step by step. An action is one pass of the
innermost running loop, or one whole handler, with its guard taken from the
code's conditions and early returns. The data is abstracted to what the
properties tell apart.

- **AclEngine**: one call of `buildACLCommands`.
  - Inputs, fixed by Init: the object type, the server version, whether a
    column is given, the owner, and the decoded array.
  - Where the array comes from: it is drawn from `ServerAcls`, the arrays a
    server can hold.
  - Actions: `DefaultPermissions`, `ArrayDecodeError`, `BeginScan`,
    `ItemSyntaxError`, `UnsupportedType` (the `abort()`), `EmptyItem`,
    `OwnerItem`, `GranteeItem` and `Finish`.
  - Helpers: `PrivTable` is the CONVERT_PRIV table with its type, version and
    column gates.
  - Representation: a statement is a record `[op, privs, to, wgo]`.
- **AclReplay**: a model of the server, not of the program. It replays a
  statement list on a fresh object:
  - the owner holds everything with grant option;
  - SET SESSION AUTHORIZATION makes a role the grantor;
  - a GRANT without the grant option grants nothing.
- **NameScanner**: the tokenizer of one item. It runs `strdup`, then
  `copyAclUserName` up to `=`, then the `strchr` for `/`, then the grantor.
  The state is the text, the read position, the two output buffers and the
  code text. `NameScannerRef` is the server's `aclitemout()`/`putid()` format.
- **ArrayDecoder**: `parsePGArray`, with the counters of its one malloc'ed
  block. `ArrayDecoderRef` is the server's `array_out()` format.
- **IdentQuoter**: `fmtId`. The model covers:
  - the wipe of the static buffer;
  - the first-character test;
  - the checking loop;
  - the quoting loop that doubles `"`.

  `IdentQuoterRef` is the identifier production.
- **StringLiteral**: `appendStringLiteralConn`, byte by byte. The model covers:
  - the `E''` prefix with its separating space;
  - `enlargePQExpBuffer` and its failure;
  - the ASCII fast path;
  - the multibyte copy;
  - the padding of a cut character up to `stop`;
  - the closing quote.

  `PQescapeStringConn` is libpq's code, not this repository's. It is one step
  taken from its documented contract (`LibEscaped`).
- **ConnectDriver**: `main`'s connection sequence and `connectDatabase`, for a
  client of version 10 or later.
  - The record `opt` holds the command line, the environment and the server.
    It is chosen in Init.
  - The state covers: the do-while password loop, the keyword array with its
    `argcount`, the static `have_password`, the freshly malloc'ed password
    block, `connstr_dbname`, and the `fail_on_error` exit.
  - The server's answer is `Outcome`: ok, wants a password, or refused.
  - `Keywords` is the sequence the `if` blocks of lines 453-487 write. Each
    block is `Opt(b, k)`.
- **DumpDriver**: extends ConnectDriver.
  - The composition: the dump starts where `main` leaves the connection code
    (`phase = "dump"`), so a behaviour is a whole run of the program.
  - Output: `out` is the sequence of printed statements, each a record of
    kind (`create`, `acl`, `alter`) and database.
  - Query: `Rows` is the datname query. `Selected(d)` is its `WHERE`
    clause (`datallowconn`, and `datname = dbname` without -a), and `AddRow`
    appends each selected name in turn, taking the fixed catalog in name
    order (`ORDER BY 1`). Written as this chain rather than a `SelectSeq`,
    it gives the same rows and the same state count, and the provers can
    see that the rows are distinct.
  - Actions: `QueryFailed` (`executeQuery`'s exit on an old server),
    `NullDbnameCrash`, `DumpStart`, `DumpRow`, `ConfigItem`, `ConfigEnd`,
    `QueryLost` and `DumpEnd`.
  - Fault model: `QueryLost` is a connection lost at any query of the dump.
    That is the template0 and datname queries (`dpc = "idle"`), or the
    `setconfig[count]` query of each turn of `dumpDatabaseConfig`
    (`dpc = "config"`). `executeQuery` then exits 1 (lines 816-823), and what
    OPF already holds stays printed.
  - Refinement: `Abs` instantiates DumpAbstract with the mapping below, and
    `DumpRefinesAbstract` is its specification.
- **DumpAbstract**: what a run promises of its output.
  - State: `stage` (connecting, dumping, ok, failed), `sel` (the databases
    chosen, in order) and `aout` (the output).
  - `Script(sel)` is the blocks of the chosen databases, one after the
    other. A block is the CREATE DATABASE (unless the database is preexisting),
    the ACL, then one ALTER per setconfig entry.
  - Actions:
    - `Begin` picks a name-ordered selection without duplicates;
    - `Emit` extends the output to a longer prefix of the script;
    - `Succeed` needs the whole script;
    - `Fail` can come at any time before the end.
  - The refinement mapping (DumpDriver's `AbsStage`):
    - `stage` is ok at `exit_ok`, failed at every other exit or crash,
      connecting while `dpc = "idle"`, and dumping after that;
    - `sel` is `rows` once the datname query has run;
    - `aout` is `out`.
  - Step correspondence: `DumpStart` is `Begin`; `DumpRow` and `ConfigItem`
    are `Emit`; `DumpEnd` is `Succeed`; the exits are `Fail`; the connection
    steps and `ConfigEnd` are stutters.
- **MC_*** modules give the constants for TLC.
- **\*Proofs** modules hold the TLAPS proofs.

## Runs

| run | checks | shows |
|---|---|---|
| acl_database | TypeOK, NoPartialOutput, ReplayFaithful, SessionRestored | For database ACLs of up to two items (roles alice and bob, one group, 8.1 and 8.4 servers), the script rebuilds the source ACL on replay, restores the session, and writes nothing on failure. |
| acl_relation | ReplayFaithful | One-item ACLs of a table, a column, a sequence, and a type with no table (VIEW). The privilege tables of these types depend on the version and on the column; `main` itself only passes `DATABASE`, so this checks code the program does not reach. |
| acl_order (violation) | ReplayFaithfulAnyOrder | The order of the array matters (finding 1). |
| array_decoder | TypeOK, StorageBound, DecodesArrayOut | On every text of up to 7 characters over `{ } , " \ a`, the block never overflows, and every array the server prints is decoded to its items. |
| name_scanner | TypeOK, ScansAclItemOut | On every item of up to 7 characters over `a r = / "`, the scan never reads past the `\0`, and every item the server prints is split into its grantee, codes and grantor. |
| ident_quoter | TypeOK, IdentifierSafe | For every name of up to 4 characters over `a A 0 _ "` and space, the result reads back as the same name. |
| string_literal | TypeOK, WithinBuffer, OnePadAtLeast, PadRoom, LiteralReadsBack | For every value of up to 4 bytes, on servers before and after 8.1, and with 0 to 2 bytes of slack in the buffer: the write stays inside the buffer, the padding loop is entered with room for a space, a cut multibyte character is padded, and an uncut literal reads back as the value. |
| main | SlotsWithinArray, PromptedOnce, ScriptReplays, DumpComplete, Terminates, DumpRefinesAbstract | These are whole runs of `main` for every option record, with the connection lost at any query. The keyword slots fit the array, and the prompt is shown at most once. The script replays on a fresh cluster, and it covers every selected database with all its settings in order. Every run ends. The program implements DumpAbstract: the output is a prefix of the name-ordered script at every step, including the last step of a run cut short. |
| connect_terminator (violation) | KeywordsTerminated | Finding 2. |
| connect_password (violation) | SentPasswordIsTyped | Finding 3. |
| dump_null_dbname (violation) | DumpTargetDumped | Finding 4. |
| dump_old_server (violation) | AcceptedServerDumped | Finding 5. |

Every property of a passing run has a mutant in PROJECT.json: a plausible bug
in the code it is about, which TLC shows breaks the property under that run's
configuration. Examples: a `""` pair skipped, a missing end check,
`argcount = 5`, `have_password` made automatic, `count = 0`, or `postgres`
created. The loop's end test off by one (the run then never ends) breaks
`Terminates`. A datname query without `ORDER BY 1` breaks
`DumpRefinesAbstract`, while `ScriptReplays` and `DumpComplete` still hold
under that mutant.

### Bounds

- **Two ACL items** are the fewest that relate: a grant and the grant option
  it depends on, or the owner and someone else.
- **Versions 8.1 and 8.4** straddle the 8.2 (CONNECT) and 8.4 (TRUNCATE)
  gates. The 7.x gates are unreachable, because `connectDatabase` refuses
  servers before 8.0. Through `main`, no server before 9.3 reaches the ACL
  engine at all (finding 5). The engine is still checked on its own across
  its gates, and the proofs cover every version.
- **Texts of 7 characters** hold a quoted item with an escape, an
  unterminated quote and junk after the closing `}` (decoder). For the
  tokenizer, they hold quoted names with `=`, `/` and `""`.
- **Values of 4 bytes** hold a quote, a backslash, a 3-byte character cut
  after its lead byte, and a trail byte equal to `\`. Slack 0 to 2 makes the
  buffer's `stop` bound bite.
- **The option record** enumerates the connection choices: -d, -c with its
  options, -h/-p/-U, -W/-w, PGDATABASE, -a, the databases the server accepts,
  and whether it wants a password. `MaxAttempts = 2` allows the password
  retry and a second call.
- **The catalog** has the six databases DumpDriver names, with settings on a
  created database, on `postgres` and on `template1`. It is checked on a 9.6
  server and an 8.4 one.

### Fairness

The main run uses `FairSpec == DumpSpec /\ WF_allVars(DumpNext)`: weak
fairness of the whole next-state relation. The program is one sequential
process with no threads or signal handlers, so whenever it can take a step it
takes one. That is exactly weak fairness of `DumpNext`.

The assumption leaves out a libpq call that blocks forever on a server that
never answers. The code sets no timeout, so such a run hangs, and the model
does not claim otherwise.

`QueryLost` is a disjunct of `DumpNext` but is never forced. Weak fairness
only requires that some step be taken, and every exit is terminal.

`Terminates` says every run reaches one of the exits. That needs three
things: the password loop stops once `have_password` is set, the row loop
ends after the last row, and the `for (;;)` of `dumpDatabaseConfig` stops at
the first NULL entry.

The other runs check safety only. The terminal states are real exits
(`exit(0)`, `exit(1)`, the end of a call), so every run sets
`CHECK_DEADLOCK FALSE`.

## Findings

1. **ACL array order** (acl_order, line 999). `buildACLCommands` emits the
   other grantees' grants in the order of the ACL array. The trace has a
   database owned by alice with the array `{alice=C*T*/bob, bob=C*T*/alice}`,
   where the owner's default entry has been revoked. The script runs, in
   this order:
   - `SET SESSION AUTHORIZATION bob; GRANT CREATE, TEMPORARY ... TO alice
     WITH GRANT OPTION; RESET SESSION AUTHORIZATION`;
   - then, from alice's session, the grant to bob `WITH GRANT OPTION`.

   Replayed on a fresh cluster, bob grants before holding the option, so
   alice's item is not restored. Spec §4.1 says the order is not significant.

   The array is unusual. PostgreSQL's `aclupdate` appends new entries, so
   ordinary GRANTs and REVOKEs leave arrays in dependency order. This one
   records bob granting an option back to the role his own option comes
   from, which the server allows only when bob is a member of the owner
   role. `ReplayFaithful` holds for dependency-ordered arrays (acl_database,
   acl_relation).
2. **The keyword array is never terminated** (line 486). `connectDatabase`
   allocates `argcount + 1` slots and fills `keywords[0..i-1]`. It never
   stores the `NULL` in `keywords[i]`, which `PQconnectdbParams` reads up to.
3. **The password block** (line 369). With a client of version 10 or later,
   `password` is a fresh `pg_malloc(101)` in every call, while
   `have_password` is static. A later call sends `"password"` pointing at
   uninitialized memory.
4. **A NULL dbname** (line 699). Without -d, -a, a dbname in -c or
   `PGDATABASE`, `pgdb` stays NULL, and `datname = '%s'` is formatted with a
   NULL pointer. glibc prints `(null)`, so the program prints no database and
   exits 0. Other C libraries crash (`NullDbnameCrash`).
5. **The server-version check disagrees with the queries** (line 691). Servers
   back to 8.0 are accepted. But the template0 query reads `datcollate` (8.4)
   and the datname query reads `datminmxid` (9.3), so every server before 9.3
   fails with "query failed" and exit 1.

### Other divergences

Each of the following is stated as a definition beside its model, and TLC finds
it violated on that model. None has a run of its own.

- `UnsupportedTypeReported` (AclEngine): a type with no table reaches
  `abort()` (line 1248); the spec wants a reported error. `main` only passes
  DATABASE.
- `BackslashPairCopied` (ArrayDecoderRef): inside quotes the decoder drops
  the escaping backslash (line 1424). That is what the server's format needs
  (`DecodesArrayOut` passes); the spec's wording is wrong.
- `UnterminatedQuoteRejected` (NameScannerRef): `copyAclUserName` returns at
  the `\0` of an open quote, and an item such as `=/"` is accepted with an
  empty grantor (lines 1145, 1303). The server never prints such an item.
- `QuotesOnlyWhenRequired` (IdentQuoterRef): `fmtId` starts with
  `need_quotes = true` (line 1325), so every name is quoted. Quoting is still
  correct.
- `PadsToWidth` (StringLiteral): a cut multibyte character is padded only
  while `target < maxlen - 2` (line 885), so it can get one space where two
  are missing. `OnePadAtLeast` holds, which is what makes the server reject
  the literal.
- `ConnstrDbnameDiscarded` (ConnectDriver): the comment at line 408 says a
  dbname of the connection string is discarded. The loop copies it (line 444).
- `Template1Tried` (ConnectDriver): `connectDatabase("postgres", ..., true)`
  exits on failure inside the call, so the `template1` fallback and its
  message (lines 261-271) are dead code. The model has no action for them.

## Proofs

TLAPS (`tlapm`) proves the following for every value of the constants, from
the `ASSUME` of the module each theorem is about:
- `ConstantsAssumption` (AclEngine): the constants' types.
- `DecoderAssumption` (ArrayDecoder): distinct special characters and
  natural bounds.
- `QuoterAssumption` (IdentQuoter): the identifier characters are
  characters, `NUL` is not.
- `ScannerAssumption` (NameScanner): `MaxLen \in Nat`, distinct special
  characters.
- `DriverAssumption` (ConnectDriver): `MaxAttempts \in Nat \ {0}`.
- `DumpAssumption` (DumpDriver): each database's `setconfig` is a
  sequence of strings, none of them the NULL (`NoSetting`) that
  `PQgetisnull` reports past its end, and the versions lie between 8.0
  and 11.
- `LiteralAssumption` (StringLiteral): the byte constants, with `NUL`
  distinct from every byte of a value, from ' ' and from 'E'.

| module | theorem | statement |
|---|---|---|
| AclEngineProofs | TypeCorrect | `Spec => []TypeOK`. TypeOK is inductive by itself, from lemmas that the privilege table is a set of (code, keyword) pairs and that each block is a `Seq(Stmt)`. |
| AclEngineProofs | NoPartialOutputHolds | `Spec => []NoPartialOutput`, through `OutputOnlyWhenDone`: the caller's buffer stays empty until `Finish`. |
| ArrayDecoderProofs | StorageBoundHolds | `Spec => []StorageBound`, through `Consumed`, which ties the counters to the read position. Every character written and every item begun consumes a character already read, except the closing `}`. |
| NameScannerProofs | TypeCorrect | `Spec => []TypeOK`: the scan never reads past the item's `\0`. A lemma shows that `strchr` after `=` finds a `/` inside the item. The least element it picks comes from `WFMin`. |
| IdentQuoterProofs | TypeCorrect | `Spec => []TypeOK`: neither loop of `fmtId` reads past the name's `\0`, since the checking loop stops at the `\0`, which is no identifier character. |
| ConnectDriverProofs | PromptedOnceHolds | `Spec => []PromptedOnce`. |
| ConnectDriverProofs | SlotsWithinArrayHolds | `Spec => []SlotsWithinArray`. |
| ArrayDecoderProofs | TypeCorrect | `Spec => []TypeOK`, from the same `IInv` as `StorageBoundHolds`: the read position never passes the text's `\0`. |
| DumpDriverProofs | ScriptReplaysHolds | `DumpSpec => []ScriptReplays`: every prefix of the output, including that of a run cut short, replays on a fresh cluster. |
| DumpRefinementProofs | DumpRefines | `DumpSpec => DumpRefinesAbstract`: main() implements DumpAbstract. OPF is always a prefix of the name-ordered script of the rows, it only grows, and exit(0) comes with all of it. |
| StringLiteralProofs | PadRoomHolds | `Spec => []PadRoom`: the padding loop is entered with room for at least one space. |
| StringLiteralProofs | EscapedWithinBuffer | `Spec => [](EscapeSyntax => WithinBuffer)`: on the raw-pointer path, the bytes written and the `\0` stay within `maxlen`. |

Both ConnectDriver theorems rest on the inductive invariant `IInv`:

    TypeOK
    /\ (opt.prompt # "yes" => prompts = IF havePassword THEN 1 ELSE 0)
    /\ SlotsWithinArray

`PromptedOnce` alone is not inductive. A state with one prompt and
`have_password` false would allow a second prompt. The second conjunct says
that the static `have_password` counts the prompts, and the retry's guard
`!have_password` is what keeps it so. The lemma `KeywordsFacts` bounds the
keyword sequence by `6 + |copts|`, from `OptFacts` (one block writes at most
one keyword) and `CoptsCount`. TLC checked `IInv` as an invariant before it
was proved.

`ScriptReplays` is not inductive either: a `DumpRow` step appends a GRANT
for the current row, which replays only if that row was not printed before.
DumpDriverProofs' `IInv` adds:
- `DumpShape`: the rows are distinct database names (`NoDup`), and the
  indices and `out` are typed. The lemma `RowsFacts` proves the rows
  distinct along the `AddRow` chain, because each name is greater than all
  before it in `SortedNames`.
- `OutFromRows`: every printed statement names a row at or before the
  current one.
- `CurrentCreated`: while settings are printed, the current database is
  preexisting or its CREATE was printed.

The lemmas `CBAppend` and `ReplaysAppend` show how appending statements
keeps the script replayable.

`DumpRefines` follows the usual refinement argument. The initial state maps
to `AInit`. Under the inductive invariant `RInv`, every step maps to a step
of DumpAbstract or to a stutter (`StepRefines`, one lemma per action). The
correspondence is the one listed under DumpAbstract. `RInv` is
DumpDriverProofs' `IInv` and two more conjuncts:
- `PhaseInv`: the connection code runs only while the dump is idle, and
  `done` and `lost` are exactly the phases `exit_ok` and `exit_lost`. With
  it, the exits of the connection code map to `Fail` and its other steps to
  stutters.
- `OutIsScript`: what OPF holds exactly. Between rows it is `Scr(rows,
  ri - 1)`, the script of the rows already done. Inside
  `dumpDatabaseConfig` it is that, then the current row's CREATE and ACL,
  then its first `count - 1` settings.

`ConfigEnd` needs the whole of `OutIsScript`: it prints nothing, yet after
it `out` must be the script of one more row. That holds only because
`count - 1` is the length of the settings array when `setconfig[count]` is
NULL. The `Emit` of `DumpRow` and `ConfigItem` needs the
fact that every such `out` is a prefix of the script of all the rows
(`MidPrefix`). The script is a recursive function. `ScFDef` unfolds it with
`FiniteNatInductiveDef`. Its prefixes are reached by six explicit
unfoldings, because the datname query returns at most the six names of
`SortedNames` (`RowsSelection`). The library theorems that would do this
for every length take the recursion as an operator argument under a
quantifier, and the installed provers cannot instantiate them. TLC checked
`RInv` as an invariant of the main run's state space before it was proved.

Writing this proof exposed one point in the mapping. `AbsStage` was a CASE
whose "failed" and "connecting" arms overlap: an exit of the connection code
also has the dump idle. TLC takes the first true arm, but in TLA+ an
overlapping CASE is an unspecified choice between the arms. The mapping is
now an IF chain with the exits first, which is what TLC had been checking.

StringLiteralProofs counts the room that `enlargePQExpBuffer(buf, 2 *
length + 2)` reserves. Its `Room` says that the bytes written, plus two
for each byte of the value not yet read (`Left`), plus the closing quote
and the `\0`, fit in `maxlen`.
- In the multibyte copy, `i` counts the second halves not used, because
  such a byte is copied once, not doubled.
- At a cut, `i >= 1` holds, because the lead byte was copied. That leaves
  the three bytes `PadRoom` needs.

`WithinBuffer` alone is not inductive, since it says nothing about the
bytes still to come. TLC checked both `IInv`s as invariants before they
were proved.

The following stay with TLC only:
- `ReplayFaithful` and `SessionRestored`: the oracle is a recursive replay
  over the script, and the property quantifies over all arrays.
- `DecodesArrayOut`, `ScansAclItemOut`, `IdentifierSafe` and
  `LiteralReadsBack`: what a loop computes for every input is induction over
  data, which the provers cannot instantiate.
- StringLiteral's `WithinBuffer` on the library path (no backslash, or a
  server before 8.1), together with `OnePadAtLeast` and `TypeOK`. They
  concern `LibEscaped` or `Lit`, recursive functions of the value, so again
  induction over data. The raw-pointer path is proved (`EscapedWithinBuffer`).
- `DumpComplete`: it compares `SelectSeq` of the output with the settings of
  each row, and what `SelectSeq` returns is induction over data.
- `Terminates`: liveness and ENABLED, which TLAPS does not handle.

A limitation of the provers shapes some of the models. Their SMT backend
fails on string literals that hold a space or a comma. So such names are
written with `_`, and the decoder's and scanner's characters are constants.

## Not modelled

- `constructConnStr` and `doConnStrQuoting`: they format a string no later
  step reads.
- `PQconninfoParse` failing on a malformed -c, and the server-version
  checks after connecting: the latter are folded into `AcceptedServerDumped`,
  from the dump side.
- The pre-10 password API.
- The exit when `buildACLCommands` fails inside `dumpCreateDB`: the server's
  arrays always parse, as `array_decoder` and `name_scanner` show.
- `makeAlterConfigCommand`'s return on an entry without `=`: the server
  stores `name=value`.
- The encoding, locale, tablespace and connection-limit clauses, and the
  unquoted `DateStyle`/`search_path` values: formatting only.
- `help`, the getopt loop and opening the output file: pure I/O.
- `pg_malloc` and `pg_strdup`: they only exit.
- The `exit(1)` when the output file cannot be opened (lines 279-288,
  `Proceed`): it comes before any output.
- The quoting of `pgdb` in the datname query: line 702 pastes it into
  `datname = '%s'` unescaped, so a `'` in the name makes the query fail.
  Database names are model values here.
- Which databases accept a connection: `Existing` takes the databases the
  user may connect to as the rows with `datallowconn`. No property rests
  on the difference.
