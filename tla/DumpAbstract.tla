--------------------------- MODULE DumpAbstract ---------------------------
(***************************************************************************)
(* What a run of pg_dumpacl promises of its standard output, whatever      *)
(* happens to the connection: it first connects, then picks the databases  *)
(* to dump, in name order and each once (the datname query's ORDER BY 1),  *)
(* and prints their blocks one after the other (dumpCreateDB()'s for loop, *)
(* lines 706-800, and dumpDatabaseConfig(), lines 1446-1485).  The output  *)
(* only ever grows, and is at every moment a prefix of the script of the   *)
(* chosen databases: a run that fails part way has printed the beginning   *)
(* of that script, and a run that ends with exit(0) has printed all of it. *)
(* DumpDriver implements this specification.                               *)
(***************************************************************************)
EXTENDS Integers, Sequences

CONSTANTS
  Order,        \* every database name, in the order ORDER BY datname sorts them
  Settings,     \* the setconfig array of each database
  Preexisting   \* the databases that get no CREATE DATABASE

VARIABLES
  stage,  \* "connecting", "dumping", "ok" (exit(0)) or "failed" (any exit(1))
  sel,    \* the databases being dumped, in order
  aout    \* the statements printed so far

avars == <<stage, sel, aout>>

NoSetting == "none"

Stmt(kind, d, s) == [kind |-> kind, db |-> d, set |-> s]

\* The statements printed for database d: the CREATE DATABASE unless it is
\* preexisting, its ACL statements, then one ALTER DATABASE ... SET per entry
\* of its setconfig array, in order.
Block(d) ==
  (IF d \notin Preexisting THEN <<Stmt("create", d, NoSetting)>> ELSE <<>>)
  \o <<Stmt("acl", d, NoSetting)>>
  \o [k \in DOMAIN Settings[d] |-> Stmt("alter", d, Settings[d][k])]

\* The whole script for the databases s, block after block.
Script(s) ==
  LET f[n \in 0..Len(s)] == IF n = 0 THEN <<>> ELSE f[n - 1] \o Block(s[n])
  IN  f[Len(s)]

\* The selections the datname query can return: some of the databases, in
\* name order, none twice: each one comes later in Order than the one
\* before it.
Names == {Order[i] : i \in DOMAIN Order}
InOrder(s) ==
  \A i \in 1..(Len(s) - 1) :
    \E j, k \in DOMAIN Order : j < k /\ Order[j] = s[i] /\ Order[k] = s[i + 1]
Selections ==
  {s \in UNION {[1..n -> Names] : n \in 0..Len(Order)} : InOrder(s)}

-----------------------------------------------------------------------------
AInit ==
  /\ stage = "connecting"
  /\ sel = <<>>
  /\ aout = <<>>

\* Connected, the databases are chosen.
Begin ==
  /\ stage = "connecting"
  /\ stage' = "dumping"
  /\ sel' \in Selections
  /\ UNCHANGED aout

\* More of the script is printed.
Emit ==
  /\ stage = "dumping"
  /\ \E n \in (Len(aout) + 1)..Len(Script(sel)) :
       aout' = SubSeq(Script(sel), 1, n)
  /\ UNCHANGED <<stage, sel>>

\* exit(0) once the whole script is out.
Succeed ==
  /\ stage = "dumping"
  /\ aout = Script(sel)
  /\ stage' = "ok"
  /\ UNCHANGED <<sel, aout>>

\* exit(1), or a crash, before or during the dump: what is printed stays.
Fail ==
  /\ stage \in {"connecting", "dumping"}
  /\ stage' = "failed"
  /\ UNCHANGED <<sel, aout>>

ANext == Begin \/ Emit \/ Succeed \/ Fail

ASpec == AInit /\ [][ANext]_avars

=============================================================================
