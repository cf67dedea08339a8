---------------------------- MODULE NameScanner ----------------------------
(***************************************************************************)
(* The tokenizer of one ACL item in parseAclItem() of pg_dumpacl.c: the    *)
(* strdup() of the item, copyAclUserName() for the grantee up to '=', the  *)
(* search for '/' after it, and copyAclUserName() again for the grantor.   *)
(* One step is one pass of the innermost loop of copyAclUserName() that is *)
(* running, or the caller's test when it returns.                          *)
(*                                                                         *)
(* The item is a sequence of characters of Chars; the four that matter are *)
(* constants, and the item's terminating '\0' is NUL, what Ch returns past *)
(* the end.  buf holds the two output buffers, grantee and grantor; codes  *)
(* is the text between '=' and the '/' (or the end), where CONVERT_PRIV    *)
(* looks for the privilege codes.                                          *)
(***************************************************************************)
EXTENDS Integers, Sequences

CONSTANTS
  Chars,     \* the characters an item may hold
  Eq, Slash, DQuote,
             \* the characters '=', '/' and '"' among them
  NUL,       \* '\0'
  MaxLen     \* the longest item considered

ASSUME ScannerAssumption ==
  /\ {Eq, Slash, DQuote} \subseteq Chars
  /\ NUL \notin Chars
  /\ Eq # Slash /\ Eq # DQuote /\ Slash # DQuote
  /\ MaxLen \in Nat

\* Every item text, up to MaxLen characters.
Texts == UNION {[1..n -> Chars] : n \in 0..MaxLen}

Fields == {"grantee", "grantor"}

VARIABLES
  text,      \* the item (buf, the strdup()'ed copy)
  pos,       \* index in text of the character "input" points to
  field,     \* the buffer the running copyAclUserName() writes: its output
  buf,       \* [grantee |-> ..., grantor |-> ...]
  codes,     \* the privilege-code text between '=' and '/' or the end
  pc         \* "start", "scan" (outer loop of copyAclUserName), "quoted"
             \* (inner loop), "ok" (parseAclItem goes on to the codes),
             \* "failed" or "nomem" (parseAclItem returns false)

vars == <<text, pos, field, buf, codes, pc>>

len == Len(text)

\* *input: the character at k, '\0' past the end.
Ch(k) == IF k \in 1..len THEN text[k] ELSE NUL

\* copyAclUserName() returns "input": the outer loop stops at '\0' or '=',
\* the quoted loop at '\0' ("really a syntax error...").
Returned ==
  \/ pc = "scan" /\ Ch(pos) \in {NUL, Eq}
  \/ pc = "quoted" /\ Ch(pos) = NUL

\* Mutant: strchr(buf, '/'), the first '/' of the whole item.
SlashAnywhere(k) ==
  LET S == {j \in 1..len : text[j] = Slash}
  IN  IF S = {} THEN 0 ELSE CHOOSE j \in S : \A j2 \in S : j <= j2

\* strchr(eqpos + 1, '/'): the first '/' after the '=' at pos, or 0.
SlashAfter(k) ==
  LET S == {j \in (k + 1)..len : text[j] = Slash}
  IN  IF S = {} THEN 0 ELSE CHOOSE j \in S : \A j2 \in S : j <= j2

-----------------------------------------------------------------------------
Init ==
  /\ text \in Texts
  /\ pos = 1
  /\ field = "grantee"
  /\ buf = [f \in Fields |-> <<>>]
  /\ codes = <<>>
  /\ pc = "start"

\* strdup(item) fails: return false.
NoMemory ==
  /\ pc = "start"
  /\ pc' = "nomem"
  /\ UNCHANGED <<text, pos, field, buf, codes>>

\* copyAclUserName(grantee, buf) begins: resetPQExpBuffer(output).
Start ==
  /\ pc = "start"
  /\ buf' = [buf EXCEPT !.grantee = <<>>]
  /\ pc' = "scan"
  /\ UNCHANGED <<text, pos, field, codes>>

\* An unquoted character is copied.
CopyPlain ==
  /\ pc = "scan" /\ Ch(pos) \notin {NUL, Eq, DQuote}
  /\ buf' = [buf EXCEPT ![field] = Append(@, Ch(pos))]
  /\ pos' = pos + 1
  /\ UNCHANGED <<text, field, codes, pc>>

\* A '"' opens a quoted span.
OpenQuote ==
  /\ pc = "scan" /\ Ch(pos) = DQuote
  /\ pos' = pos + 1
  /\ pc' = "quoted"
  /\ UNCHANGED <<text, field, buf, codes>>

\* Mutant: the quoted loop without its '\0' test.
QuotedCharNoEndCheck ==
  /\ pc = "quoted" /\ Ch(pos) # DQuote
  /\ buf' = [buf EXCEPT ![field] = Append(@, Ch(pos))]
  /\ pos' = pos + 1
  /\ UNCHANGED <<text, field, codes, pc>>

\* Inside quotes, a character other than '"' is copied.
QuotedChar ==
  /\ pc = "quoted" /\ Ch(pos) \notin {DQuote, NUL}
  /\ buf' = [buf EXCEPT ![field] = Append(@, Ch(pos))]
  /\ pos' = pos + 1
  /\ UNCHANGED <<text, field, codes, pc>>

\* Inside quotes, "" stands for one '"'.
QuotedPair ==
  /\ pc = "quoted" /\ Ch(pos) = DQuote /\ Ch(pos + 1) = DQuote
  /\ buf' = [buf EXCEPT ![field] = Append(@, DQuote)]
  /\ pos' = pos + 2
  /\ UNCHANGED <<text, field, codes, pc>>

\* A '"' not followed by another closes the span.
CloseQuote ==
  /\ pc = "quoted" /\ Ch(pos) = DQuote /\ Ch(pos + 1) # DQuote
  /\ pos' = pos + 1
  /\ pc' = "scan"
  /\ UNCHANGED <<text, field, buf, codes>>

\* The grantee scan did not stop at '=': return false.
NoEquals ==
  /\ Returned /\ field = "grantee"
  /\ Ch(pos) # Eq
  /\ pc' = "failed"
  /\ UNCHANGED <<text, pos, field, buf, codes>>

\* No '/' after the '=': the grantor buffer is reset, the codes run to the
\* end of the item.
NoGrantor ==
  /\ Returned /\ field = "grantee"
  /\ Ch(pos) = Eq /\ SlashAfter(pos) = 0
  /\ buf' = [buf EXCEPT !.grantor = <<>>]
  /\ codes' = SubSeq(text, pos + 1, len)
  /\ pc' = "ok"
  /\ UNCHANGED <<text, pos, field>>

\* "*slpos++ = '\0'": the codes end at the '/', and copyAclUserName(grantor,
\* slpos) begins after it.
GrantorFollows ==
  /\ Returned /\ field = "grantee"
  /\ Ch(pos) = Eq /\ SlashAfter(pos) # 0
  /\ codes' = SubSeq(text, pos + 1, SlashAfter(pos) - 1)
  /\ pos' = SlashAfter(pos) + 1
  /\ field' = "grantor"
  /\ buf' = [buf EXCEPT !.grantor = <<>>]
  /\ pc' = "scan"
  /\ UNCHANGED text

\* The grantor scan returned: the item must end there.
GrantorEnd ==
  /\ Returned /\ field = "grantor"
  /\ pc' = IF Ch(pos) = NUL THEN "ok" ELSE "failed"
  /\ UNCHANGED <<text, pos, field, buf, codes>>

Next ==
  \/ NoMemory \/ Start \/ CopyPlain \/ OpenQuote \/ QuotedChar \/ QuotedPair
  \/ CloseQuote \/ NoEquals \/ NoGrantor \/ GrantorFollows \/ GrantorEnd

Spec == Init /\ [][Next]_vars

-----------------------------------------------------------------------------
\* Type invariant: in particular the scanner never reads beyond the '\0'.
TypeOK ==
  /\ text \in Texts
  /\ pos \in 1..(len + 1)
  /\ field \in Fields
  /\ buf \in [Fields -> Seq(Chars)]
  /\ codes \in Seq(Chars)
  /\ pc \in {"start", "scan", "quoted", "ok", "failed", "nomem"}

=============================================================================
