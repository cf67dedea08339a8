--------------------------- MODULE IdentQuoterRef ---------------------------
(***************************************************************************)
(* The two forms of an SQL identifier the server reads back as the name    *)
(* itself, and the properties that compare fmtId() with them and with the  *)
(* spec.                                                                   *)
(***************************************************************************)
EXTENDS IdentQuoter, SequencesExt

\* A name the identifier production reads as itself: a lower-case letter or
\* '_', then lower-case letters, digits and '_'.
PlainIdent(n) ==
  /\ Len(n) >= 1
  /\ n[1] \in Lower \cup {Underscore}
  /\ \A k \in 1..Len(n) : n[k] \in IdentChars

\* A delimited identifier: the name between '"', each '"' in it doubled
\* (SQL99).
Delimited(n) ==
  <<DQuote>> \o FlattenSeq([k \in 1..Len(n) |->
                  IF n[k] = DQuote THEN <<DQuote, DQuote>> ELSE <<n[k]>>])
             \o <<DQuote>>

(***************************************************************************)
(* What fmtId() returns is read back by the server as the name it was      *)
(* given: the name itself only if the identifier production reads it so,  *)
(* otherwise its delimited form, whatever '"' it holds.  Every role,       *)
(* database and setting name of the dump goes through it.                  *)
(***************************************************************************)
IdentifierSafe ==
  pc = "done" => \/ idReturn = Delimited(rawid)
                 \/ idReturn = rawid /\ PlainIdent(rawid)

(***************************************************************************)
(* The spec (4.3, 8): delimiting is "required unless the first character   *)
(* is a lowercase ASCII letter or underscore AND every subsequent          *)
(* character is a lowercase ASCII letter, digit, or underscore"; a name    *)
(* that needs none (name_ok) is returned unchanged.  fmtId() starts with   *)
(* need_quotes = true and never sets it false.                             *)
(***************************************************************************)
QuotesOnlyWhenRequired ==
  pc = "done" /\ PlainIdent(rawid) => idReturn = rawid

=============================================================================
