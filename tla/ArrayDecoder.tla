---------------------------- MODULE ArrayDecoder ----------------------------
(***************************************************************************)
(* parsePGArray() of pg_dumpacl.c: the decoder of the text form of an ACL  *)
(* array, "{item,item,...}", into its items.  One step of the model is one *)
(* pass of the code's innermost loop that is running.                      *)
(*                                                                         *)
(* The text is a sequence of characters of Chars, the five that matter to *)
(* the syntax named by constants; the C string's terminating '\0' is NUL,  *)
(* what Ch returns past the end.  The                                      *)
(* code writes every item into one malloc'ed block of inputlen pointers     *)
(* followed by inputlen characters: curitem counts the pointers used and    *)
(* written the characters (the offset of the "strings" pointer).  items    *)
(* and cur are the contents of the finished items and of the item being    *)
(* copied.                                                                 *)
(***************************************************************************)
EXTENDS Integers, Sequences

CONSTANTS
  Chars,     \* the characters the text may hold
  LBrace, RBrace, Comma, DQuote, BSlash,
             \* the characters '{', '}', ',', '"' and '\\' among them
  NUL,       \* '\0'
  MaxLen     \* the longest text considered

ASSUME DecoderAssumption ==
  /\ {LBrace, RBrace, Comma, DQuote, BSlash} \subseteq Chars
  /\ NUL \notin Chars
  /\ LBrace \notin {RBrace, Comma, DQuote, BSlash}
  /\ RBrace \notin {Comma, DQuote, BSlash}
  /\ Comma \notin {DQuote, BSlash}
  /\ DQuote # BSlash
  /\ MaxLen \in Nat

\* Every text the decoder may be given, up to MaxLen characters.
Texts == UNION {[1..n -> Chars] : n \in 0..MaxLen}

VARIABLES
  atext,     \* the input text
  pos,       \* index in atext of the character "atext" points to
  curitem,   \* items begun (curitem, then curitem++ at the item's end)
  written,   \* characters written to the strings block, each '\0' included
  cur,       \* the item being copied
  items,     \* the items finished
  pc         \* "start", "outer" (between items), "inner" (unquoted part of
             \* an item), "quoted" (inside "..."), "done" (returned true),
             \* "failed" or "nomem" (returned false)

vars == <<atext, pos, curitem, written, cur, items, pc>>

inputlen == Len(atext)

\* *atext: the character at pos, '\0' past the end.
Ch(k) == IF k \in 1..inputlen THEN atext[k] ELSE NUL

\* The test parsePGArray() makes before it allocates the block.
Braced == inputlen >= 2 /\ atext[1] = LBrace /\ atext[inputlen] = RBrace

-----------------------------------------------------------------------------
Init ==
  /\ atext \in Texts
  /\ pos = 1
  /\ curitem = 0
  /\ written = 0
  /\ cur = <<>>
  /\ items = <<>>
  /\ pc = "start"

\* "inputlen < 2 || atext[0] != '{' || atext[inputlen - 1] != '}'": return
\* false.
BadShape ==
  /\ pc = "start"
  /\ ~Braced
  /\ pc' = "failed"
  /\ UNCHANGED <<atext, pos, curitem, written, cur, items>>

\* The malloc() of the block fails: return false ("nomem" tells it apart
\* from a decoding failure).
OutOfMemory ==
  /\ pc = "start"
  /\ Braced
  /\ pc' = "nomem"
  /\ UNCHANGED <<atext, pos, curitem, written, cur, items>>

\* The block is allocated, atext is advanced over the initial '{'.
Begin ==
  /\ pc = "start"
  /\ Braced
  /\ pos' = 2
  /\ pc' = "outer"
  /\ UNCHANGED <<atext, curitem, written, cur, items>>

\* The outer loop meets its '}': the text must end right after it.
Close ==
  /\ pc = "outer" /\ Ch(pos) = RBrace
  /\ pc' = IF Ch(pos + 1) = NUL THEN "done" ELSE "failed"
  /\ UNCHANGED <<atext, pos, curitem, written, cur, items>>

\* Each "return false; /* premature end of string */" of the three loops.
\* (The fourth, after a backslash, cannot fire: the text ends with the '}'
\* Braced checked, so a backslash is never its last character.  CopyQuoted
\* keeps the test as a guard.)
PrematureEnd ==
  /\ pc \in {"outer", "inner", "quoted"} /\ Ch(pos) = NUL
  /\ pc' = "failed"
  /\ UNCHANGED <<atext, pos, curitem, written, cur, items>>

\* items[curitem] = strings: a new item begins.
BeginItem ==
  /\ pc = "outer" /\ Ch(pos) \notin {RBrace, NUL}
  /\ cur' = <<>>
  /\ pc' = "inner"
  /\ UNCHANGED <<atext, pos, curitem, written, items>>

\* "*strings++ = *atext++; /* copy unquoted data */"
CopyUnquoted ==
  /\ pc = "inner" /\ Ch(pos) \notin {RBrace, Comma, NUL, DQuote}
  /\ cur' = Append(cur, Ch(pos))
  /\ written' = written + 1
  /\ pos' = pos + 1
  /\ UNCHANGED <<atext, curitem, items, pc>>

\* An opening '"'.
OpenQuote ==
  /\ pc = "inner" /\ Ch(pos) = DQuote
  /\ pos' = pos + 1
  /\ pc' = "quoted"
  /\ UNCHANGED <<atext, curitem, written, cur, items>>

\* The closing '"'.
CloseQuote ==
  /\ pc = "quoted" /\ Ch(pos) = DQuote
  /\ pos' = pos + 1
  /\ pc' = "inner"
  /\ UNCHANGED <<atext, curitem, written, cur, items>>

\* Mutant: the quoted-data loop without its "premature end of string" tests.
CopyQuotedNoEndCheck ==
  /\ pc = "quoted" /\ Ch(pos) # DQuote
  /\ LET skip == IF Ch(pos) = BSlash THEN 1 ELSE 0 IN
       /\ cur' = Append(cur, Ch(pos + skip))
       /\ pos' = pos + skip + 1
  /\ written' = written + 1
  /\ UNCHANGED <<atext, curitem, items, pc>>

\* Mutant: the backslash is copied with the character after it.
CopyQuotedKeepBackslash ==
  /\ pc = "quoted" /\ Ch(pos) \notin {DQuote, NUL}
  /\ Ch(pos) = BSlash => Ch(pos + 1) # NUL
  /\ LET skip == IF Ch(pos) = BSlash THEN 1 ELSE 0 IN
       /\ cur' = cur \o SubSeq(atext, pos, pos + skip)
       /\ pos' = pos + skip + 1
       /\ written' = written + 1 + skip
  /\ UNCHANGED <<atext, curitem, items, pc>>

\* "*strings++ = *atext++; /* copy quoted data */", after skipping a
\* backslash if there is one.
CopyQuoted ==
  /\ pc = "quoted" /\ Ch(pos) \notin {DQuote, NUL}
  /\ Ch(pos) = BSlash => Ch(pos + 1) # NUL
  /\ LET skip == IF Ch(pos) = BSlash THEN 1 ELSE 0 IN
       /\ cur' = Append(cur, Ch(pos + skip))
       /\ pos' = pos + skip + 1
  /\ written' = written + 1
  /\ UNCHANGED <<atext, curitem, items, pc>>

\* Mutant: the ',' after an item is not passed over.
EndItemStayOnComma ==
  /\ pc = "inner" /\ Ch(pos) \in {RBrace, Comma}
  /\ items' = Append(items, cur)
  /\ written' = written + 1
  /\ pos' = pos
  /\ curitem' = curitem + 1
  /\ pc' = "outer"
  /\ UNCHANGED <<atext, cur>>

\* The item ends at ',' or '}': its '\0' is written, a ',' is passed over,
\* curitem++.
EndItem ==
  /\ pc = "inner" /\ Ch(pos) \in {RBrace, Comma}
  /\ items' = Append(items, cur)
  /\ written' = written + 1
  /\ pos' = IF Ch(pos) = Comma THEN pos + 1 ELSE pos
  /\ curitem' = curitem + 1
  /\ pc' = "outer"
  /\ UNCHANGED <<atext, cur>>

Next ==
  \/ BadShape \/ OutOfMemory \/ Begin \/ Close \/ PrematureEnd
  \/ BeginItem \/ CopyUnquoted \/ OpenQuote \/ CloseQuote \/ CopyQuoted
  \/ EndItem

Spec == Init /\ [][Next]_vars

-----------------------------------------------------------------------------
\* Type invariant.
TypeOK ==
  /\ atext \in Texts
  /\ pos \in 1..(inputlen + 1)
  /\ curitem \in Nat /\ written \in Nat
  /\ cur \in Seq(Chars) /\ items \in Seq(Seq(Chars))
  /\ pc \in {"start", "outer", "inner", "quoted", "done", "failed", "nomem"}

(***************************************************************************)
(* The block parsePGArray() mallocs holds inputlen item pointers and       *)
(* inputlen characters ("one pointer and one character for each input      *)
(* character"): whatever the text, the items begun and the characters      *)
(* written, the '\0's included, never exceed it.                           *)
(***************************************************************************)
StorageBound ==
  /\ curitem + (IF pc \in {"inner", "quoted"} THEN 1 ELSE 0) <= inputlen
  /\ written <= inputlen

=============================================================================
