--------------------------- MODULE StringLiteral ---------------------------
(***************************************************************************)
(* appendStringLiteralConn() and appendStringLiteral() of pg_dumpacl.c:    *)
(* the quoting of a text value (an encoding or locale name, a database     *)
(* name, a setting's value) as an SQL literal appended to a PQExpBuffer.   *)
(* One step is one pass of the loops of appendStringLiteral(), or one of   *)
(* the buffer operations around them.                                      *)
(*                                                                         *)
(* The value is a sequence of bytes of Bytes: Plain stands for any ASCII   *)
(* byte that needs no escaping, Lead2 and Lead3 for the first byte of a    *)
(* two- and a three-byte character of the client encoding (UTF-8), Cont   *)
(* for a continuation byte; NUL is the value's '\0'.  data is the buffer's *)
(* contents (its len is Len(data)), maxlen its allocated size.            *)
(***************************************************************************)
EXTENDS Integers, Sequences, FiniteSets

CONSTANTS
  Bytes,           \* the bytes a value may hold
  Plain, Quote, BSlash, Lead2, Lead3, Cont,
  Space, LetterE,  \* ' ' and the ESCAPE_STRING_SYNTAX 'E'
  NUL,
  Versions,        \* server versions
  MaxLen,          \* the longest value considered
  MaxSlack         \* the most room a buffer may have beyond what is asked

ASSUME LiteralAssumption ==
  /\ Bytes = {Plain, Quote, BSlash, Lead2, Lead3, Cont}
  /\ Cardinality(Bytes \cup {Space, LetterE, NUL}) = 9
  /\ NUL \notin Bytes \cup {Space, LetterE}
  /\ Versions \subseteq Nat /\ MaxLen \in Nat /\ MaxSlack \in Nat

\* IS_HIGHBIT_SET, and PQmblen() in UTF-8 on such a byte.
High == {Lead2, Lead3, Cont}
MbLen(b) == IF b = Lead2 THEN 2 ELSE IF b = Lead3 THEN 3 ELSE 1

Values == UNION {[1..n -> Bytes] : n \in 0..MaxLen}

VARIABLES
  str, version,  \* the value and PQserverVersion(conn)
  data, maxlen,  \* the buffer
  src,           \* index of the byte "source" points to
  mblen, i,      \* len and i of the multibyte copy
  pc

vars == <<str, version, data, maxlen, src, mblen, i, pc>>

Ch(k) == IF k \in 1..Len(str) THEN str[k] ELSE NUL

\* enlargePQExpBuffer(buf, needed) succeeds: the size afterwards.
Grown(needed) ==
  IF Len(data) + needed + 1 <= maxlen THEN {maxlen}
  ELSE (Len(data) + needed + 1)..(Len(data) + needed + 1 + MaxSlack)

\* strchr(str, '\\') != NULL && PQserverVersion(conn) >= 80100
EscapeSyntax == (\E k \in 1..Len(str) : str[k] = BSlash) /\ version >= 80100

(***************************************************************************)
(* The value read character by character, as both escaping loops read it:  *)
(* an ASCII byte is one character, doubled if it is a quote or a           *)
(* backslash; a high-bit byte starts a character of MbLen bytes, copied    *)
(* whole whatever its later bytes are.  Lit(s).out is what is written      *)
(* between the quotes up to the end or up to a character cut short by the  *)
(* end, Lit(s).miss the number of bytes that character lacks (0 if none).  *)
(* The suffix of s of length n is read by step n.                           *)
(***************************************************************************)
Lit(s) ==
  LET f[n \in 0..Len(s)] ==
        LET k == Len(s) - n + 1
        IN  IF n = 0 THEN [out |-> <<>>, miss |-> 0]
            ELSE IF s[k] \notin High
            THEN [out  |-> (IF s[k] \in {Quote, BSlash} THEN <<s[k], s[k]>>
                            ELSE <<s[k]>>) \o f[n - 1].out,
                  miss |-> f[n - 1].miss]
            ELSE IF MbLen(s[k]) > n
            THEN [out |-> <<>>, miss |-> MbLen(s[k]) - n]
            ELSE [out  |-> SubSeq(s, k, k + MbLen(s[k]) - 1) \o f[n - MbLen(s[k])].out,
                  miss |-> f[n - MbLen(s[k])].miss]
  IN  f[Len(s)]

\* What PQescapeStringConn() (libpq) writes between the quotes: each quote
\* doubled, and each backslash as the server does not use standard strings
\* before 8.1; of a value whose last character is cut short, the whole
\* characters before it.
LibEscaped(s) == Lit(s).out

-----------------------------------------------------------------------------
Init ==
  /\ str \in Values
  /\ version \in Versions
  /\ data = <<Space>>          \* every caller's text ends with "= " or "TO "
  /\ maxlen \in 2..(2 + MaxSlack)
  /\ src = 1 /\ mblen = 1 /\ i = 0
  /\ pc = "start"

\* The kluge of appendStringLiteralConn(): a separating ' ' unless the
\* buffer ends with one, the 'E', then appendStringLiteral(..., false).
EscapeSyntaxPrefix ==
  /\ pc = "start" /\ EscapeSyntax
  /\ data' = data \o (IF data # <<>> /\ data[Len(data)] # Space THEN <<Space>> ELSE <<>>)
                  \o <<LetterE>>
  /\ \E m \in (IF Len(data') + 1 <= maxlen THEN {maxlen}
               ELSE (Len(data') + 1)..(Len(data') + 1 + MaxSlack)) : maxlen' = m
  /\ pc' = "enlarge"
  /\ UNCHANGED <<str, version, src, mblen, i>>

\* Mutant: enlargePQExpBuffer(buf, 2 * length + 1).
OpenLiteralShort ==
  /\ pc = "enlarge"
  /\ \E m \in Grown(2 * Len(str) + 1) : maxlen' = m
  /\ data' = Append(data, Quote)
  /\ pc' = "loop"
  /\ UNCHANGED <<str, version, src, mblen, i>>

\* enlargePQExpBuffer(buf, 2 * length + 2) succeeds; the opening quote.
OpenLiteral ==
  /\ pc = "enlarge"
  /\ \E m \in Grown(2 * Len(str) + 2) : maxlen' = m
  /\ data' = Append(data, Quote)
  /\ pc' = "loop"
  /\ UNCHANGED <<str, version, src, mblen, i>>

\* enlargePQExpBuffer() fails (lines 836 and 920): return with nothing
\* appended.
OutOfMemory ==
  /\ pc = "enlarge" \/ (pc = "start" /\ ~EscapeSyntax)
  /\ pc' = "nomem"
  /\ UNCHANGED <<str, version, data, maxlen, src, mblen, i>>

\* Mutant: the backslash is not doubled (std_strings passed as true).
PlainByteStd ==
  /\ pc = "loop" /\ Ch(src) \notin High \cup {NUL}
  /\ data' = data \o (IF Ch(src) = Quote THEN <<Quote, Quote>> ELSE <<Ch(src)>>)
  /\ src' = src + 1
  /\ UNCHANGED <<str, version, maxlen, mblen, i, pc>>

\* The fast path: an ASCII byte, doubled if SQL_STR_DOUBLE(c, true).
PlainByte ==
  /\ pc = "loop" /\ Ch(src) \notin High \cup {NUL}
  /\ data' = data \o (IF Ch(src) \in {Quote, BSlash} THEN <<Ch(src), Ch(src)>> ELSE <<Ch(src)>>)
  /\ src' = src + 1
  /\ UNCHANGED <<str, version, maxlen, mblen, i, pc>>

\* The slow path: len = PQmblen(source, encoding).
MbStart ==
  /\ pc = "loop" /\ Ch(src) \in High
  /\ mblen' = MbLen(Ch(src)) /\ i' = 0
  /\ pc' = "mbcopy"
  /\ UNCHANGED <<str, version, data, maxlen, src>>

\* Mutant: the copy loop without "if (*source == '\0') break".
MbByteNoEndCheck ==
  /\ pc = "mbcopy" /\ i < mblen
  /\ data' = Append(data, Ch(src))
  /\ src' = src + 1 /\ i' = i + 1
  /\ UNCHANGED <<str, version, maxlen, mblen, pc>>

\* One byte of the character is copied.
MbByte ==
  /\ pc = "mbcopy" /\ i < mblen /\ Ch(src) # NUL
  /\ data' = Append(data, Ch(src))
  /\ src' = src + 1 /\ i' = i + 1
  /\ UNCHANGED <<str, version, maxlen, mblen, pc>>

\* The character is complete: back to the outer loop.
MbDone ==
  /\ pc = "mbcopy" /\ i = mblen
  /\ pc' = "loop"
  /\ UNCHANGED <<str, version, data, maxlen, src, mblen, i>>

\* "i < len": the value ends inside the character; pad with spaces up to
\* stop = data + maxlen - 2, then leave the outer loop.
MbCut ==
  /\ pc = "mbcopy" /\ i < mblen /\ Ch(src) = NUL
  /\ pc' = "pad"
  /\ UNCHANGED <<str, version, data, maxlen, src, mblen, i>>

\* Mutant: stop = buf->data + buf->maxlen - 3.
Stop3 == maxlen - 3

\* stop = buf->data + buf->maxlen - 2, as an offset in the buffer.
Stop == maxlen - 2

Pad ==
  /\ pc = "pad" /\ i < mblen /\ Len(data) < Stop
  /\ data' = Append(data, Space) /\ i' = i + 1
  /\ UNCHANGED <<str, version, maxlen, src, mblen, pc>>

\* Mutant: the padding loop left out: the quote follows the cut character.
CloseLiteralNoPad ==
  /\ \/ pc = "loop" /\ Ch(src) = NUL
     \/ pc = "pad"
  /\ data' = Append(data, Quote)
  /\ pc' = "done"
  /\ UNCHANGED <<str, version, maxlen, src, mblen, i>>

\* The terminating quote (and '\0', at index Len(data) + 1); buf->len set.
CloseLiteral ==
  /\ \/ pc = "loop" /\ Ch(src) = NUL
     \/ pc = "pad" /\ (i = mblen \/ Len(data) >= Stop)
  /\ data' = Append(data, Quote)
  /\ pc' = "done"
  /\ UNCHANGED <<str, version, maxlen, src, mblen, i>>

\* No backslash, or a server before 8.1: enlargePQExpBuffer(buf, 2 * length
\* + 2), the quote, PQescapeStringConn(), the quote.
LibraryLiteral ==
  /\ pc = "start" /\ ~EscapeSyntax
  /\ \E m \in Grown(2 * Len(str) + 2) : maxlen' = m
  /\ data' = data \o <<Quote>> \o LibEscaped(str) \o <<Quote>>
  /\ pc' = "done"
  /\ UNCHANGED <<str, version, src, mblen, i>>

Next ==
  \/ EscapeSyntaxPrefix \/ OpenLiteral \/ OutOfMemory \/ PlainByte \/ MbStart
  \/ MbByte \/ MbDone \/ MbCut \/ Pad \/ CloseLiteral \/ LibraryLiteral

Spec == Init /\ [][Next]_vars

-----------------------------------------------------------------------------
\* Type invariant: in particular "source" never passes the value's '\0'.
TypeOK ==
  /\ str \in Values
  /\ version \in Versions
  /\ data \in Seq(Bytes \cup {Space, LetterE})
  /\ maxlen \in Nat
  /\ src \in 1..(Len(str) + 1)
  /\ mblen \in 1..3 /\ i \in 0..3
  /\ pc \in {"start", "enlarge", "loop", "mbcopy", "pad", "done", "nomem"}

(***************************************************************************)
(* appendStringLiteral() writes through a raw pointer sized by one         *)
(* enlargePQExpBuffer(buf, 2 * length + 2) call: whatever the value (every *)
(* byte a quote or a backslash, a character cut short and padded), the     *)
(* bytes written and the '\0' after them stay within buf->maxlen.          *)
(***************************************************************************)
WithinBuffer == Len(data) + 1 <= maxlen

\* The value ends inside a character; the bytes it lacks.
CutShort == Lit(str).miss > 0
Missing == Lit(str).miss

(***************************************************************************)
(* The comment of appendStringLiteral(): when the value ends inside a      *)
(* multibyte character, "we will always be able to insert at least one pad *)
(* space", whatever room the buffer happens to have, so that the server    *)
(* rejects the literal.                                                    *)
(***************************************************************************)
OnePadAtLeast ==
  pc = "done" /\ EscapeSyntax /\ CutShort => data[Len(data) - 1] = Space

(***************************************************************************)
(* The same comment, at the padding loop: when appendStringLiteral()       *)
(* reaches it, no pad space written yet (the byte before is one of the     *)
(* cut character), the loop's test "i < len && target < stop" holds, so    *)
(* the first space goes in.  It rests on the 2 * length + 2 bytes          *)
(* reserved by the one enlargePQExpBuffer() call and the lead byte having  *)
(* been copied once, not doubled.                                          *)
(***************************************************************************)
PadRoom ==
  pc = "pad" /\ data[Len(data)] # Space => Len(data) < Stop /\ i < mblen

(***************************************************************************)
(* A value made of whole characters comes out as the literal the server    *)
(* reads back as that value: after the caller's text, 'E' exactly when it  *)
(* holds a '\' and the server is 8.1 or later, then the quoted value with  *)
(* each ''' and '\' doubled (neither kind of literal reads '\' as itself   *)
(* there).                                                                 *)
(***************************************************************************)
LiteralReadsBack ==
  pc = "done" /\ ~CutShort =>
    data = <<Space>> \o (IF EscapeSyntax THEN <<LetterE>> ELSE <<>>)
             \o <<Quote>> \o Lit(str).out \o <<Quote>>

(***************************************************************************)
(* The spec (4.4): a multibyte sequence cut short at the end of the value  *)
(* is padded "with spaces up to the expected width".  The padding loop of  *)
(* appendStringLiteral() stops at buf->maxlen - 2.                         *)
(***************************************************************************)
PadsToWidth ==
  pc = "done" /\ EscapeSyntax /\ CutShort =>
    \A k \in 1..Missing : data[Len(data) - k] = Space

=============================================================================
