------------------------- MODULE IdentQuoterProofs -------------------------
(***************************************************************************)
(* Proofs about fmtId(), for every name and every MaxLen.                  *)
(***************************************************************************)
EXTENDS IdentQuoter, TLAPS

\* A name is a finite sequence of characters.
LEMMA NamesAreSeqs ==
  ASSUME NEW n \in Names
  PROVE  n \in Seq(Chars)
BY DEF Names

\* *cp is '\0' exactly past the end of the name, a character of it before.
LEMMA ChFacts ==
  ASSUME QuoterAssumption, rawid \in Seq(Chars), NEW k \in Int
  PROVE  /\ Ch(k) # NUL <=> k \in 1..Len(rawid)
         /\ k \in 1..Len(rawid) => Ch(k) = rawid[k] /\ Ch(k) \in Chars
BY DEF Ch

\* The doubled or single copy of a character is a sequence of characters.
LEMMA CopyFacts ==
  ASSUME QuoterAssumption, NEW c \in Chars, NEW s \in Seq(Chars)
  PROVE  s \o (IF c = DQuote THEN <<DQuote, DQuote>> ELSE <<c>>) \in Seq(Chars)
<1>1. CASE c = DQuote
  <2>1. <<DQuote, DQuote>> \in Seq(Chars)
    OBVIOUS
  <2>. QED
    BY <1>1, <2>1
<1>2. CASE c # DQuote
  <2>1. <<c>> \in Seq(Chars)
    OBVIOUS
  <2>. QED
    BY <1>2, <2>1
<1>. QED
  BY <1>1, <1>2

-----------------------------------------------------------------------------
\* TypeOK holds initially.
LEMMA InitTypeOK == Init => TypeOK
<1> SUFFICES ASSUME Init PROVE TypeOK
  OBVIOUS
<1>1. rawid \in Seq(Chars)
  BY NamesAreSeqs DEF Init
<1>2. <<>> \in Seq(Chars)
  OBVIOUS
<1>3. cp \in 1..(Len(rawid) + 1)
  BY <1>1 DEF Init
<1>. QED
  BY <1>2, <1>3, Zenon DEF Init, TypeOK

\* Every step of the two loops keeps TypeOK.
LEMMA NextTypeOK == QuoterAssumption /\ TypeOK /\ [Next]_vars => TypeOK'
<1> SUFFICES ASSUME QuoterAssumption, TypeOK, [Next]_vars PROVE TypeOK'
  OBVIOUS
<1> USE DEF TypeOK
<1>1. rawid \in Seq(Chars)
  BY NamesAreSeqs
<1>2. \A k \in Int : /\ Ch(k) # NUL <=> k \in 1..Len(rawid)
                     /\ k \in 1..Len(rawid) => Ch(k) = rawid[k] /\ Ch(k) \in Chars
  BY <1>1, ChFacts
<1>3. CASE Start
  BY <1>3 DEF Start
<1>4. CASE CheckChar
  <2>1. Ch(cp) # NUL
    BY <1>4 DEF CheckChar, IdentChars
  <2>. QED
    BY <1>2, <1>4, <2>1 DEF CheckChar
<1>5. CASE CheckOther
  BY <1>5 DEF CheckOther
<1>6. CASE CheckEnd
  BY <1>6 DEF CheckEnd
<1>7. CASE Decide
  <2>1. <<DQuote>> \in Seq(Chars)
    OBVIOUS
  <2>. QED
    BY <1>1, <1>7, <2>1 DEF Decide
<1>8. CASE CopyChar
  <2>1. cp \in 1..Len(rawid) /\ Ch(cp) \in Chars
    BY <1>2, <1>8 DEF CopyChar
  <2>2. idReturn' \in Seq(Chars)
    BY <1>8, <2>1, CopyFacts DEF CopyChar
  <2>. QED
    BY <1>8, <2>1, <2>2 DEF CopyChar
<1>9. CASE CloseQuote
  BY <1>9 DEF CloseQuote
<1>10. CASE UNCHANGED vars
  BY <1>10 DEF vars
<1>. QED
  BY <1>3, <1>4, <1>5, <1>6, <1>7, <1>8, <1>9, <1>10 DEF Next

(***************************************************************************)
(* Whatever the name and its length, neither loop of fmtId() reads past    *)
(* the name's '\0' (cp stays within 1..Len + 1: the checking loop stops at *)
(* the '\0', which is no identifier character, and the quoting loop tests  *)
(* it first), and the static buffer only ever holds characters of names    *)
(* and '"'.                                                                *)
(***************************************************************************)
THEOREM TypeCorrect == Spec => []TypeOK
BY InitTypeOK, NextTypeOK, QuoterAssumption, PTL DEF Spec

=============================================================================
