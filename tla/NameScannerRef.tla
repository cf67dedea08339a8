--------------------------- MODULE NameScannerRef ---------------------------
(***************************************************************************)
(* What the server prints for an ACL item (aclitemout() and putid() of the *)
(* server's acl.c, which the comment of copyAclUserName() says it must     *)
(* stay in sync with; not code of pg_dumpacl.c), and the properties that   *)
(* compare the tokenizer of parseAclItem() with it and with the spec.      *)
(***************************************************************************)
EXTENDS NameScanner, SequencesExt

CONSTANTS
  NameChars,   \* the characters of the role names the server prints
  Alnum,       \* those of them putid() leaves unquoted (isalnum or '_')
  CodeTexts,   \* the privilege-code texts considered
  MaxNameLen   \* the longest role name considered

\* putid(): a name with a character other than a letter, a digit or '_' is
\* written between '"', each '"' in it doubled; the empty name (PUBLIC)
\* is written as nothing.
Putid(n) ==
  IF \A k \in 1..Len(n) : n[k] \in Alnum THEN n
  ELSE <<DQuote>> \o FlattenSeq([k \in 1..Len(n) |->
                       IF n[k] = DQuote THEN <<DQuote, DQuote>> ELSE <<n[k]>>])
                  \o <<DQuote>>

\* aclitemout(): grantee '=' codes '/' grantor.
AclItemOut(g, c, r) == Putid(g) \o <<Eq>> \o c \o <<Slash>> \o Putid(r)

Names == UNION {[1..n -> NameChars] : n \in 0..MaxNameLen}

\* The item texts the server prints that fit in MaxLen, with the grantee,
\* codes and grantor each stands for.
Printed ==
  {p \in {[txt |-> AclItemOut(g, c, r), g |-> g, c |-> c, r |-> r] :
            g \in Names, c \in CodeTexts, r \in Names \ {<<>>}} :
     Len(p.txt) <= MaxLen}

(***************************************************************************)
(* The tokenizer of parseAclItem() accepts every item the server prints    *)
(* and gives back its grantee (PUBLIC as the empty name), its grantor and  *)
(* its code text, whatever the names hold: '=', '/', '"' or "" inside     *)
(* quotes.                                                                 *)
(***************************************************************************)
ScansAclItemOut ==
  \A p \in Printed :
    text = p.txt => /\ pc # "failed"
                    /\ pc = "ok" => /\ buf.grantee = p.g
                                    /\ buf.grantor = p.r
                                    /\ codes = p.c

(***************************************************************************)
(* The spec (4.2): "End-of-input while inside an open quoted span is a     *)
(* syntax error."  copyAclUserName() returns at the '\0' of an open quoted *)
(* span ("really a syntax error..."), and the caller's test then decides:  *)
(* the step taken from that state must fail the item.                      *)
(***************************************************************************)
UnterminatedQuoteRejected ==
  [][pc = "quoted" /\ Ch(pos) = NUL => pc' = "failed"]_vars

=============================================================================
