---------------------------- MODULE MC_DumpDriver ----------------------------
EXTENDS DumpDriver, TLC

\* template1 and postgres hold settings too: their ALTER DATABASE lines are
\* printed although no CREATE DATABASE is.
MCSettings ==
  [d \in DumpNames |->
     CASE d = "d"         -> <<"work_mem", "search_path">>
       [] d = "postgres"  -> <<"work_mem">>
       [] d = "template1" -> <<"search_path">>
       [] OTHER           -> <<>>]

\* 8.4 passes connectDatabase()'s check and lacks datminmxid; 9.6 has it.
MCVersions == {80400, 90600}
=============================================================================
