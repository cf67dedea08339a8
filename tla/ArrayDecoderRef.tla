--------------------------- MODULE ArrayDecoderRef ---------------------------
(***************************************************************************)
(* What the server prints for an ACL array (array_out() of the server, not *)
(* code of pg_dumpacl.c), and the properties that compare parsePGArray()   *)
(* with it and with the spec.                                              *)
(***************************************************************************)
EXTENDS ArrayDecoder, SequencesExt

CONSTANTS
  ItemChars,   \* the characters of the items the server prints
  MaxItems,    \* at most this many items ...
  MaxItemLen   \* ... of at most this many characters

\* array_out() quotes an item that is empty or holds a character special to
\* the array syntax (NULL and white space do not occur in these items).
NeedsQuote(it) ==
  it = <<>> \/ \E k \in 1..Len(it) : it[k] \in {LBrace, RBrace, Comma, DQuote, BSlash}

\* Inside the quotes, '"' and '\' are preceded by a backslash.
QuoteItem(it) ==
  IF NeedsQuote(it)
    THEN <<DQuote>> \o FlattenSeq([k \in 1..Len(it) |->
                       IF it[k] \in {DQuote, BSlash} THEN <<BSlash, it[k]>> ELSE <<it[k]>>])
                  \o <<DQuote>>
    ELSE it

ArrayOut(s) ==
  <<LBrace>> \o FlattenSeq([k \in 1..Len(s) |->
                (IF k > 1 THEN <<Comma>> ELSE <<>>) \o QuoteItem(s[k])])
          \o <<RBrace>>

SrcItems  == UNION {[1..n -> ItemChars] : n \in 0..MaxItemLen}
SrcArrays == UNION {[1..n -> SrcItems] : n \in 0..MaxItems}

\* The texts the server prints, with the items each one stands for.
Printed == {<<ArrayOut(s), s>> : s \in SrcArrays}

(***************************************************************************)
(* parsePGArray() decodes every array text the server prints into the      *)
(* items it printed, in order: quoted and unquoted items, empty items,     *)
(* items holding ',', '}', '"' or '\', whatever the order of the steps of  *)
(* its three loops.                                                        *)
(***************************************************************************)
DecodesArrayOut ==
  \A p \in Printed :
    atext = p[1] => /\ pc # "failed"
                    /\ pc = "done" => items = p[2]

(***************************************************************************)
(* The spec (4.1): inside quotes "a backslash escapes the following        *)
(* character and both are copied".  The quoted-data loop of parsePGArray() *)
(* skips the backslash and copies only the character after it.            *)
(***************************************************************************)
BackslashPairCopied ==
  [][pc = "quoted" /\ Ch(pos) = BSlash /\ pc' = "quoted"
       => cur' = cur \o <<BSlash, Ch(pos + 1)>>]_vars

=============================================================================
