------------------------- MODULE ArrayDecoderProofs -------------------------
(***************************************************************************)
(* Proofs about parsePGArray(), for every text and every MaxLen.           *)
(***************************************************************************)
EXTENDS ArrayDecoder, TLAPS

(***************************************************************************)
(* StorageBound is not inductive: it says nothing of pos, and a step that  *)
(* writes a character is safe only because it also consumes one.  The     *)
(* strengthening counts: every character written, '\0's included, used up *)
(* a character of the text, the opening '{' was used up without writing,  *)
(* and only the last item's '\0' (written at the final '}', which is not   *)
(* passed over) did not use one up; every item begun wrote a '\0' at its   *)
(* end, so there are no more items than characters written.               *)
(***************************************************************************)
Consumed ==
  /\ pc = "start" => written = 0 /\ curitem = 0
  /\ pc \in {"inner", "quoted"} => written <= pos - 2
  /\ pc = "outer" => written <= pos - 2 \/ (written <= pos - 1 /\ Ch(pos) = RBrace)
  /\ pc \in {"done", "failed", "nomem"} => written <= inputlen
  /\ curitem <= written

IInv == TypeOK /\ Consumed

-----------------------------------------------------------------------------
\* A text is a finite sequence of characters.
LEMMA TextsAreSeqs ==
  ASSUME DecoderAssumption, NEW t \in Texts
  PROVE  t \in Seq(Chars)
BY DEF Texts

\* *atext is '\0' exactly past the end of the text, and a character of the
\* text before it.
LEMMA ChFacts ==
  ASSUME DecoderAssumption, atext \in Seq(Chars), NEW k \in Int
  PROVE  /\ Ch(k) # NUL <=> k \in 1..inputlen
         /\ k \in 1..inputlen => Ch(k) \in Chars
BY DEF Ch, inputlen

-----------------------------------------------------------------------------
\* IInv holds initially.
LEMMA InitIInv == Init => IInv
<1> SUFFICES ASSUME Init PROVE IInv
  OBVIOUS
<1>1. atext \in Seq(Chars)
  BY TextsAreSeqs, DecoderAssumption DEF Init
<1>. QED
  BY <1>1 DEF Init, IInv, TypeOK, Consumed, inputlen

\* Every step of parsePGArray() keeps IInv.
LEMMA NextIInv == IInv /\ [Next]_vars => IInv'
<1> SUFFICES ASSUME IInv, [Next]_vars PROVE IInv'
  OBVIOUS
<1> USE DEF IInv, TypeOK, Consumed
<1>1. atext \in Seq(Chars) /\ pos \in 1..(Len(atext) + 1)
  BY TextsAreSeqs, DecoderAssumption DEF inputlen
<1>2. \A k \in Int : /\ Ch(k) # NUL <=> k \in 1..inputlen
                     /\ k \in 1..inputlen => Ch(k) \in Chars
  BY <1>1, ChFacts, DecoderAssumption
<1>3. CASE BadShape
  BY <1>3 DEF BadShape, inputlen, Ch
<1>4. CASE OutOfMemory
  BY <1>4 DEF OutOfMemory, inputlen, Ch
<1>5. CASE Begin
  BY <1>5 DEF Begin, Braced, inputlen
<1>6. CASE Close
  BY <1>6, <1>2 DEF Close, inputlen, Ch
<1>7. CASE PrematureEnd
  BY <1>7, <1>2 DEF PrematureEnd, inputlen, Ch
<1>8. CASE BeginItem
  BY <1>8, <1>2 DEF BeginItem, inputlen, Ch
<1>9. CASE CopyUnquoted
  BY <1>9, <1>2 DEF CopyUnquoted, inputlen
<1>10. CASE OpenQuote
  BY <1>10, <1>2, DecoderAssumption DEF OpenQuote, inputlen
<1>11. CASE CloseQuote
  BY <1>11, <1>2, DecoderAssumption DEF CloseQuote, inputlen
<1>12. CASE CopyQuoted
  BY <1>12, <1>2 DEF CopyQuoted, inputlen
<1>13. CASE EndItem
  <2>1. Ch(pos) \in {RBrace, Comma} /\ pos \in 1..inputlen
    BY <1>13, <1>2, DecoderAssumption DEF EndItem
  <2>2. (Ch(pos) = RBrace => Ch(pos') = RBrace) /\ Ch(pos)' = Ch(pos')
    BY <1>13, DecoderAssumption DEF EndItem, Ch, inputlen
  <2>3. written' <= pos' - 2 \/ (written' <= pos' - 1 /\ Ch(pos)' = RBrace)
    BY <1>13, <2>1, <2>2, DecoderAssumption DEF EndItem
  <2>. QED
    BY <1>13, <1>2, <2>1, <2>3 DEF EndItem, inputlen
<1>14. CASE UNCHANGED vars
  BY <1>14 DEF vars, inputlen, Ch
<1>. QED
  BY <1>3, <1>4, <1>5, <1>6, <1>7, <1>8, <1>9, <1>10, <1>11, <1>12, <1>13, <1>14
     DEF Next

\* IInv gives the bound.
LEMMA IInvStorage == IInv => StorageBound
BY TextsAreSeqs, DecoderAssumption DEF IInv, TypeOK, Consumed, StorageBound, inputlen

(***************************************************************************)
(* Whatever text parsePGArray() is given, it never writes past the block   *)
(* it allocates: the items begun never exceed the inputlen pointers and   *)
(* the characters written never exceed the inputlen characters.           *)
(***************************************************************************)
THEOREM StorageBoundHolds == Spec => []StorageBound
BY InitIInv, NextIInv, IInvStorage, PTL DEF Spec

(***************************************************************************)
(* Whatever text parsePGArray() is given, its three loops never move       *)
(* "atext" past the text's '\0' (pos stays within 1..inputlen + 1), and    *)
(* every item it returns is a string of the text's characters.            *)
(***************************************************************************)
THEOREM TypeCorrect == Spec => []TypeOK
<1>1. IInv => TypeOK
  BY DEF IInv
<1>. QED
  BY InitIInv, NextIInv, <1>1, PTL DEF Spec

=============================================================================
