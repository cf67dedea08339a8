------------------------ MODULE ConnectDriverProofs ------------------------
(***************************************************************************)
(* Proofs about main()'s connections and connectDatabase(), for every      *)
(* command line, environment, server and MaxAttempts.                      *)
(***************************************************************************)
EXTENDS ConnectDriver, FiniteSetTheorems, TLAPS

(***************************************************************************)
(* The inductive invariant.  Without -W the only prompt is the one of the  *)
(* do-while loop, which sets the static have_password, and every later     *)
(* prompt needs it false: so prompts counts have_password.  The keywords   *)
(* written in the running call fit its argcount.                           *)
(***************************************************************************)
IInv ==
  /\ TypeOK
  /\ opt.prompt # "yes" => prompts = IF havePassword THEN 1 ELSE 0
  /\ SlotsWithinArray

-----------------------------------------------------------------------------
\* A one-keyword block writes one keyword or none.
LEMMA OptFacts ==
  ASSUME NEW b \in BOOLEAN, NEW k \in KeyNames
  PROVE  /\ Opt(b, k) \in Seq(KeyNames)
         /\ Len(Opt(b, k)) <= 1
<1>1. CASE b
  <2>1. <<k>> \in Seq(KeyNames) /\ Len(<<k>>) = 1
    OBVIOUS
  <2>. QED
    BY <1>1, <2>1 DEF Opt
<1>2. CASE ~b
  <2>1. <<>> \in Seq(KeyNames) /\ Len(<<>>) = 0
    OBVIOUS
  <2>. QED
    BY <1>2, <2>1 DEF Opt
<1>. QED
  BY <1>1, <1>2

\* The options of the connection string are counted by argcount++ exactly
\* as the first two blocks write them.
LEMMA CoptsCount ==
  ASSUME NEW c \in SUBSET ConnKeys
  PROVE  /\ IsFiniteSet(c)
         /\ Len(Opt("dbname" \in c, "c_dbname")) + Len(Opt("sslmode" \in c, "c_sslmode"))
              = Cardinality(c)
<1>1. c = {} \/ c = {"dbname"} \/ c = {"sslmode"} \/ c = {"dbname"} \cup {"sslmode"}
  BY DEF ConnKeys
<1>2. /\ IsFiniteSet({}) /\ Cardinality({}) = 0
      /\ IsFiniteSet({"dbname"}) /\ Cardinality({"dbname"}) = 1
      /\ IsFiniteSet({"sslmode"}) /\ Cardinality({"sslmode"}) = 1
  BY FS_EmptySet, FS_Singleton
<1>3. /\ IsFiniteSet({"dbname"} \cup {"sslmode"})
      /\ Cardinality({"dbname"} \cup {"sslmode"}) = 2
  BY <1>2, FS_AddElement
<1>. QED
  BY <1>1, <1>2, <1>3 DEF Opt

\* The keywords one pass writes, and how many.
LEMMA KeywordsFacts ==
  ASSUME TypeOK
  PROVE  /\ Keywords \in Seq(KeyNames)
         /\ Cardinality(opt.copts) \in Nat
         /\ Len(Keywords) <= 6 + Cardinality(opt.copts)
<1>1. opt.copts \in SUBSET ConnKeys /\ opt.flags \in SUBSET {"host", "port", "user"}
      /\ havePassword \in BOOLEAN /\ cdb \in Dbs \cup {"none"}
  BY DEF TypeOK, Opts
<1>2. /\ IsFiniteSet(opt.copts)
      /\ Len(Opt("dbname" \in opt.copts, "c_dbname")) + Len(Opt("sslmode" \in opt.copts, "c_sslmode"))
           = Cardinality(opt.copts)
  BY <1>1, CoptsCount
<1>3. Cardinality(opt.copts) \in Nat
  BY <1>2, FS_CardinalityType
<1>4. /\ ("dbname" \in opt.copts) \in BOOLEAN /\ ("sslmode" \in opt.copts) \in BOOLEAN
      /\ ("host" \in opt.flags) \in BOOLEAN /\ ("port" \in opt.flags) \in BOOLEAN
      /\ ("user" \in opt.flags) \in BOOLEAN /\ havePassword \in BOOLEAN
      /\ (cdb # "none") \in BOOLEAN
      /\ {"c_dbname", "c_sslmode", "host", "port", "user", "password", "dbname",
          "fallback_application_name"} \subseteq KeyNames
  BY <1>1 DEF KeyNames
<1>5. /\ Opt("dbname" \in opt.copts, "c_dbname") \in Seq(KeyNames)
      /\ Opt("sslmode" \in opt.copts, "c_sslmode") \in Seq(KeyNames)
      /\ Opt("host" \in opt.flags, "host") \in Seq(KeyNames)
      /\ Opt("port" \in opt.flags, "port") \in Seq(KeyNames)
      /\ Opt("user" \in opt.flags, "user") \in Seq(KeyNames)
      /\ Opt(havePassword, "password") \in Seq(KeyNames)
      /\ Opt(cdb # "none", "dbname") \in Seq(KeyNames)
  BY <1>4, OptFacts
<1>7. <<"fallback_application_name">> \in Seq(KeyNames)
  BY <1>4
<1>6. /\ Len(Opt("host" \in opt.flags, "host")) <= 1
      /\ Len(Opt("port" \in opt.flags, "port")) <= 1
      /\ Len(Opt("user" \in opt.flags, "user")) <= 1
      /\ Len(Opt(havePassword, "password")) <= 1
      /\ Len(Opt(cdb # "none", "dbname")) <= 1
  BY <1>4, OptFacts
<1>. QED
  BY <1>2, <1>3, <1>5, <1>6, <1>7 DEF Keywords

-----------------------------------------------------------------------------
\* IInv holds initially.
LEMMA InitIInv == Init => IInv
<1> SUFFICES ASSUME Init PROVE IInv
  OBVIOUS
<1>1. opt \in Opts
  BY DEF Init
<1>2. kw \in Seq(KeyNames)
  <2>1. <<>> \in Seq(KeyNames)
    OBVIOUS
  <2>. QED
    BY <2>1 DEF Init
<1>. QED
  BY <1>1, <1>2 DEF Init, IInv, TypeOK, SlotsWithinArray, Uninit, Dbs

\* Every step of main() and connectDatabase() keeps IInv.
LEMMA NextIInv == IInv /\ [Next]_vars => IInv'
<1> SUFFICES ASSUME IInv, [Next]_vars PROVE IInv'
  OBVIOUS
<1>1. TypeOK
  BY DEF IInv
<1>2. CASE MainFirst
  BY <1>1, <1>2 DEF MainFirst, Call, IInv, TypeOK, SlotsWithinArray
<1>3. CASE Enter
  BY <1>1, <1>3 DEF Enter, IInv, TypeOK, SlotsWithinArray, Uninit
<1>4. CASE Build
  <2>1. /\ Keywords \in Seq(KeyNames)
        /\ Cardinality(opt.copts) \in Nat
        /\ Len(Keywords) <= 6 + Cardinality(opt.copts)
    BY <1>1, KeywordsFacts
  <2>. QED
    BY <1>1, <1>4, <2>1 DEF Build, IInv, TypeOK, SlotsWithinArray
<1>5. CASE Attempt
  <2>1. Outcome \in {"ok", "needpw", "bad"}
    BY DEF Outcome
  <2>. QED
    BY <1>1, <1>5, <2>1 DEF Attempt, IInv, TypeOK, SlotsWithinArray
<1>6. CASE ConnNull
  BY <1>1, <1>6 DEF ConnNull, IInv, TypeOK, SlotsWithinArray
<1>7. CASE Retry
  BY <1>1, <1>7 DEF Retry, WantsPassword, IInv, TypeOK, SlotsWithinArray
<1>8. CASE Connected
  <2>1. Target(cdb) \in Dbs
    BY <1>1 DEF Target, TypeOK, Dbs
  <2>. QED
    BY <1>1, <1>8, <2>1 DEF Connected, IInv, TypeOK, SlotsWithinArray
<1>9. CASE FailExit
  BY <1>1, <1>9 DEF FailExit, IInv, TypeOK, SlotsWithinArray
<1>10. CASE FailReturn
  BY <1>1, <1>10 DEF FailReturn, IInv, TypeOK, SlotsWithinArray
<1>11. CASE AfterConnstr
  BY <1>1, <1>11 DEF AfterConnstr, callVars, IInv, TypeOK, SlotsWithinArray, Dbs
<1>12. CASE RetryEnv
  BY <1>1, <1>12 DEF RetryEnv, Call, IInv, TypeOK, SlotsWithinArray, Dbs
<1>13. CASE SkipEnv
  BY <1>1, <1>13 DEF SkipEnv, callVars, IInv, TypeOK, SlotsWithinArray
<1>14. CASE FallbackPostgres
  BY <1>1, <1>14 DEF FallbackPostgres, Call, IInv, TypeOK, SlotsWithinArray, Dbs
<1>15. CASE Proceed
  BY <1>1, <1>15 DEF Proceed, callVars, IInv, TypeOK, SlotsWithinArray
<1>16. CASE UNCHANGED vars
  BY <1>16 DEF vars, IInv, TypeOK, SlotsWithinArray
<1>. QED
  BY <1>2, <1>3, <1>4, <1>5, <1>6, <1>7, <1>8, <1>9, <1>10, <1>11, <1>12,
     <1>13, <1>14, <1>15, <1>16 DEF Next

(***************************************************************************)
(* Whatever the options, the server and MaxAttempts, a user who did not    *)
(* give -W sees the password prompt of connectDatabase() at most once,     *)
(* however many connections main() falls back to: the static              *)
(* have_password survives the calls, and the retry asks only while it is   *)
(* false.                                                                  *)
(***************************************************************************)
THEOREM PromptedOnceHolds == Spec => []PromptedOnce
<1>1. IInv => PromptedOnce
  BY DEF IInv, PromptedOnce, TypeOK
<1>. QED
  BY InitIInv, NextIInv, <1>1, PTL DEF Spec

(***************************************************************************)
(* Whatever the options, connectDatabase() hands PQconnectdbParams() no    *)
(* more keywords than the argcount + 1 slots it allocated hold.            *)
(***************************************************************************)
THEOREM SlotsWithinArrayHolds == Spec => []SlotsWithinArray
<1>1. IInv => SlotsWithinArray
  BY DEF IInv
<1>. QED
  BY InitIInv, NextIInv, <1>1, PTL DEF Spec

=============================================================================
