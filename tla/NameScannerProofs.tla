------------------------- MODULE NameScannerProofs -------------------------
(***************************************************************************)
(* Proofs about the tokenizer of parseAclItem(), for every item and every  *)
(* MaxLen.                                                                 *)
(***************************************************************************)
EXTENDS NameScanner, WellFoundedInduction, TLAPS

\* A non-empty set of naturals has a least element.
LEMMA LeastExists ==
  ASSUME NEW T \in SUBSET Nat, T # {}
  PROVE  \E x \in T : \A y \in T : x <= y
<1>1. \E x \in T : \A y \in T : ~(<<y, x>> \in OpToRel(<, Nat))
  BY WFMin, NatLessThanWellFounded, Zenon
<1>2. \A x, y \in Nat : <<y, x>> \in OpToRel(<, Nat) <=> y < x
  BY DEF OpToRel
<1>3. \E x \in T : \A y \in T : ~(y < x)
  BY <1>1, <1>2, Zenon
<1>. QED
  BY <1>3

\* An item text is a finite sequence of characters.
LEMMA TextsAreSeqs ==
  ASSUME NEW t \in Texts
  PROVE  t \in Seq(Chars)
BY DEF Texts

\* *input is '\0' exactly past the end of the item.
LEMMA ChFacts ==
  ASSUME ScannerAssumption, text \in Seq(Chars), NEW k \in Int
  PROVE  /\ Ch(k) # NUL <=> k \in 1..len
         /\ k \in 1..len => Ch(k) = text[k] /\ Ch(k) \in Chars
BY DEF Ch, len

\* strchr(eqpos + 1, '/') finds a '/' of the item after the '=', if any.
LEMMA SlashAfterFacts ==
  ASSUME text \in Seq(Chars), NEW k \in Nat
  PROVE  \/ SlashAfter(k) = 0
         \/ SlashAfter(k) \in (k + 1)..len /\ text[SlashAfter(k)] = Slash
<1> DEFINE S == {j \in (k + 1)..len : text[j] = Slash}
<1>1. CASE S = {}
  BY <1>1 DEF SlashAfter
<1>2. CASE S # {}
  <2>1. \E x \in S : \A y \in S : x <= y
    <3>1. S \in SUBSET Nat
      OBVIOUS
    <3>. QED
      BY <1>2, <3>1, LeastExists
  <2>2. SlashAfter(k) = CHOOSE j \in S : \A j2 \in S : j <= j2
    BY <1>2 DEF SlashAfter
  <2>. QED
    BY <2>1, <2>2
<1>. QED
  BY <1>1, <1>2

\* Writing one of the two output buffers keeps buf typed.
LEMMA BufReset ==
  ASSUME buf \in [Fields -> Seq(Chars)], NEW f \in Fields
  PROVE  [buf EXCEPT ![f] = <<>>] \in [Fields -> Seq(Chars)]
<1>1. <<>> \in Seq(Chars)
  OBVIOUS
<1>. QED
  BY <1>1

-----------------------------------------------------------------------------
\* TypeOK holds initially.
LEMMA InitTypeOK == Init => TypeOK
<1> SUFFICES ASSUME Init PROVE TypeOK
  OBVIOUS
<1>1. text \in Seq(Chars)
  BY TextsAreSeqs DEF Init
<1>. QED
  BY <1>1 DEF Init, TypeOK, len, Fields

\* Every step of the tokenizer keeps TypeOK.
LEMMA NextTypeOK == ScannerAssumption /\ TypeOK /\ [Next]_vars => TypeOK'
<1> SUFFICES ASSUME ScannerAssumption, TypeOK, [Next]_vars PROVE TypeOK'
  OBVIOUS
<1> USE DEF TypeOK
<1>1. text \in Seq(Chars) /\ pos \in 1..(len + 1)
  BY TextsAreSeqs DEF len
<1>2. \A k \in Int : /\ Ch(k) # NUL <=> k \in 1..len
                     /\ k \in 1..len => Ch(k) = text[k] /\ Ch(k) \in Chars
  BY <1>1, ChFacts
<1>3. CASE NoMemory
  BY <1>3 DEF NoMemory, len
<1>4. CASE Start
  <2>1. buf' \in [Fields -> Seq(Chars)]
    BY <1>4, BufReset DEF Start, Fields
  <2>. QED
    BY <1>4, <2>1 DEF Start, len
<1>5. CASE CopyPlain
  BY <1>5, <1>2 DEF CopyPlain, len, Fields
<1>6. CASE OpenQuote
  BY <1>6, <1>2 DEF OpenQuote, len
<1>7. CASE QuotedChar
  BY <1>7, <1>2 DEF QuotedChar, len, Fields
<1>8. CASE QuotedPair
  <2>1. pos + 1 \in 1..len
    BY <1>8, <1>2 DEF QuotedPair
  <2>. QED
    BY <1>8, <1>2, <2>1 DEF QuotedPair, len, Fields
<1>9. CASE CloseQuote
  BY <1>9, <1>2 DEF CloseQuote, len
<1>10. CASE NoEquals
  BY <1>10 DEF NoEquals, len
<1>11. CASE NoGrantor
  <2>1. buf' \in [Fields -> Seq(Chars)]
    BY <1>11, BufReset DEF NoGrantor, Fields
  <2>2. codes' \in Seq(Chars)
    BY <1>11, <1>1 DEF NoGrantor, len
  <2>. QED
    BY <1>11, <2>1, <2>2 DEF NoGrantor, len
<1>12. CASE GrantorFollows
  <2>1. SlashAfter(pos) \in (pos + 1)..len
    BY <1>12, <1>1, SlashAfterFacts DEF GrantorFollows
  <2>2. buf' \in [Fields -> Seq(Chars)]
    BY <1>12, BufReset DEF GrantorFollows, Fields
  <2>3. codes' \in Seq(Chars)
    BY <1>12, <1>1, <2>1 DEF GrantorFollows, len
  <2>4. pos' \in 1..(len' + 1)
    BY <1>12, <1>1, <2>1 DEF GrantorFollows, len
  <2>. QED
    BY <1>12, <2>2, <2>3, <2>4 DEF GrantorFollows, Fields
<1>13. CASE GrantorEnd
  BY <1>13 DEF GrantorEnd, len
<1>14. CASE UNCHANGED vars
  BY <1>14 DEF vars, len
<1>. QED
  BY <1>3, <1>4, <1>5, <1>6, <1>7, <1>8, <1>9, <1>10, <1>11, <1>12, <1>13, <1>14
     DEF Next

(***************************************************************************)
(* Whatever the item, copyAclUserName() and the '/' search of              *)
(* parseAclItem() never read beyond the item's '\0' (pos stays within      *)
(* 1..len + 1): the "" test reads the next character only after a '"',     *)
(* and the grantor scan starts right after a '/' of the item.              *)
(***************************************************************************)
THEOREM TypeCorrect == Spec => []TypeOK
BY InitTypeOK, NextTypeOK, ScannerAssumption, PTL DEF Spec

=============================================================================
