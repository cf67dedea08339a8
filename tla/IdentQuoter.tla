---------------------------- MODULE IdentQuoter ----------------------------
(***************************************************************************)
(* fmtId() of pg_dumpacl.c: the quoting of an identifier (a role, database *)
(* or setting name) for the statements the program prints.  One step is    *)
(* one pass of one of its two loops, or the decision between them.  The    *)
(* result is written into the one static buffer getLocalPQExpBuffer()      *)
(* returns, wiped on every call.                                           *)
(*                                                                         *)
(* The name is a sequence of characters of Chars, the name's '\0' is NUL.  *)
(* Lower, Digits and Underscore are the characters the identifier          *)
(* production admits ('a'..'z', '0'..'9', '_').                            *)
(***************************************************************************)
EXTENDS Integers, Sequences

CONSTANTS
  Chars,       \* the characters a name may hold
  Lower,       \* 'a'..'z' among them
  Digits,      \* '0'..'9' among them
  Underscore,  \* '_'
  DQuote,      \* '"'
  NUL,         \* '\0'
  MaxLen       \* the longest name considered

ASSUME QuoterAssumption ==
  /\ Lower \cup Digits \cup {Underscore, DQuote} \subseteq Chars
  /\ Lower \cap Digits = {}
  /\ Underscore \notin Lower \cup Digits
  /\ DQuote \notin Lower \cup Digits \cup {Underscore}
  /\ NUL \notin Chars
  /\ MaxLen \in Nat

Names == UNION {[1..n -> Chars] : n \in 0..MaxLen}

VARIABLES
  rawid,       \* the name
  cp,          \* index of the character cp points to
  needQuotes,  \* need_quotes
  idReturn,    \* the contents of the static buffer id_return
  pc           \* "start", "check" (the checking loop), "decide", "copy"
               \* (the quoting loop) or "done" (the buffer is returned)

vars == <<rawid, cp, needQuotes, idReturn, pc>>

Ch(k) == IF k \in 1..Len(rawid) THEN rawid[k] ELSE NUL

\* The characters of the identifier production after the first one.
IdentChars == Lower \cup Digits \cup {Underscore}

-----------------------------------------------------------------------------
Init ==
  /\ rawid \in Names
  /\ cp = 1
  /\ needQuotes = FALSE
  /\ idReturn = <<>>
  /\ pc = "start"

\* getLocalPQExpBuffer() wipes the buffer; need_quotes starts TRUE; the
\* first character is tested, and only a lower-case letter or '_' leads to
\* the loop that checks the whole name.
Start ==
  /\ pc = "start"
  /\ idReturn' = <<>>
  /\ needQuotes' = TRUE
  /\ pc' = IF Ch(1) \in Lower \cup {Underscore} THEN "check" ELSE "decide"
  /\ UNCHANGED <<rawid, cp>>

\* A character of the identifier production: go on.
CheckChar ==
  /\ pc = "check" /\ Ch(cp) \in IdentChars
  /\ cp' = cp + 1
  /\ UNCHANGED <<rawid, needQuotes, idReturn, pc>>

\* Any other character: need_quotes = true; break.
CheckOther ==
  /\ pc = "check" /\ Ch(cp) \notin IdentChars \cup {NUL}
  /\ needQuotes' = TRUE
  /\ pc' = "decide"
  /\ UNCHANGED <<rawid, cp, idReturn>>

\* The end of the name.
CheckEnd ==
  /\ pc = "check" /\ Ch(cp) = NUL
  /\ pc' = "decide"
  /\ UNCHANGED <<rawid, cp, needQuotes, idReturn>>

\* The name is appended as it is, or the opening '"' is, and the quoting
\* loop starts at the first character.
Decide ==
  /\ pc = "decide"
  /\ idReturn' = IF needQuotes THEN <<DQuote>> ELSE rawid
  /\ cp' = 1
  /\ pc' = IF needQuotes THEN "copy" ELSE "done"
  /\ UNCHANGED <<rawid, needQuotes>>

\* Mutant: the copy loop steps over the second '"' of a doubled one, as
\* copyAclUserName() does when it reads "".
CopyCharSkipPair ==
  /\ pc = "copy" /\ Ch(cp) # NUL
  /\ idReturn' = idReturn \o (IF Ch(cp) = DQuote THEN <<DQuote, DQuote>> ELSE <<Ch(cp)>>)
  /\ cp' = cp + (IF Ch(cp) = DQuote THEN 2 ELSE 1)
  /\ UNCHANGED <<rawid, needQuotes, pc>>

\* Mutant: a '"' is copied without being doubled.
CopyCharNoDouble ==
  /\ pc = "copy" /\ Ch(cp) # NUL
  /\ idReturn' = Append(idReturn, Ch(cp))
  /\ cp' = cp + 1
  /\ UNCHANGED <<rawid, needQuotes, pc>>

\* A character is copied, a '"' doubled.
CopyChar ==
  /\ pc = "copy" /\ Ch(cp) # NUL
  /\ idReturn' = idReturn \o (IF Ch(cp) = DQuote THEN <<DQuote, DQuote>> ELSE <<Ch(cp)>>)
  /\ cp' = cp + 1
  /\ UNCHANGED <<rawid, needQuotes, pc>>

\* The closing '"'.
CloseQuote ==
  /\ pc = "copy" /\ Ch(cp) = NUL
  /\ idReturn' = Append(idReturn, DQuote)
  /\ pc' = "done"
  /\ UNCHANGED <<rawid, cp, needQuotes>>

Next ==
  \/ Start \/ CheckChar \/ CheckOther \/ CheckEnd \/ Decide \/ CopyChar
  \/ CloseQuote

Spec == Init /\ [][Next]_vars

-----------------------------------------------------------------------------
\* Type invariant.
TypeOK ==
  /\ rawid \in Names
  /\ cp \in 1..(Len(rawid) + 1)
  /\ needQuotes \in BOOLEAN
  /\ idReturn \in Seq(Chars)
  /\ pc \in {"start", "check", "decide", "copy", "done"}

=============================================================================
