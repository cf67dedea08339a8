------------------------ MODULE StringLiteralProofs ------------------------
(***************************************************************************)
(* Proofs about appendStringLiteralConn() (StringLiteral) for every value, *)
(* every server version and every buffer size.  The escaping loops write   *)
(* through a raw pointer into room reserved by one enlargePQExpBuffer(buf, *)
(* 2 * length + 2) call; the inductive invariant counts that room: what is *)
(* written so far, plus two bytes for each byte of the value not yet read, *)
(* plus the closing quote and the '\0', fits in buf->maxlen.  The library  *)
(* path (PQescapeStringConn()) writes LibEscaped(str), a recursive         *)
(* function of the value, and is left to TLC.                              *)
(***************************************************************************)
EXTENDS StringLiteral, TLAPS

\* Bytes the escaping loops may write into the buffer.
BufBytes == Bytes \cup {Space, LetterE}

\* What the steps keep whichever path is taken.
Shape ==
  /\ str \in Seq(Bytes)
  /\ maxlen \in Nat
  /\ src \in 1..(Len(str) + 1)
  /\ mblen \in 1..3 /\ i \in Nat
  /\ pc \in {"start", "enlarge", "loop", "mbcopy", "pad", "done", "nomem"}
  /\ pc = "start" => data = <<Space>> /\ 2 <= maxlen
  /\ pc \in {"start", "enlarge"} => src = 1
  /\ pc \in {"enlarge", "loop", "mbcopy", "pad"} => EscapeSyntax

\* Bytes of the value not yet read by the escaping loops.
Left == Len(str) - src + 1

\* The room argument of appendStringLiteral(), at each point of its loops.
Room ==
  /\ pc \in {"enlarge", "done", "nomem"} => Len(data) + 1 <= maxlen
  /\ pc = "loop" => Len(data) + 2 * Left + 2 <= maxlen
  /\ pc = "mbcopy" =>
       /\ Len(data) + 2 * Left + 2 + i <= maxlen
       /\ i <= mblen
       /\ i = 0 => src <= Len(str)
  /\ pc = "pad" =>
       /\ Len(data) + 2 <= maxlen
       /\ data[Len(data)] = Space \/ (Len(data) + 3 <= maxlen /\ i < mblen)

IInv ==
  /\ Shape
  /\ EscapeSyntax =>
       /\ data \in Seq(BufBytes) /\ Len(data) >= 1
       /\ Room

-----------------------------------------------------------------------------
\* Every value of Values is a sequence of bytes.
LEMMA ValuesAreSeqs == Values \subseteq Seq(Bytes)
BY DEF Values

\* Ch() reads either a byte of the value or the terminating '\0'.
LEMMA ChFacts ==
  ASSUME NEW k \in Nat, str \in Seq(Bytes)
  PROVE  /\ Ch(k) # NUL => k \in 1..Len(str) /\ Ch(k) = str[k]
         /\ Ch(k) \in Bytes \cup {NUL}
BY DEF Ch

\* The bytes of a value: the quotes and high-bit bytes among them, never
\* the '\0'.
LEMMA ByteFacts ==
  /\ {Plain, Quote, BSlash, Lead2, Lead3, Cont} \subseteq Bytes
  /\ High \subseteq Bytes /\ NUL \notin High /\ NUL \notin Bytes
<1>1. NUL \notin Bytes /\ Bytes = {Plain, Quote, BSlash, Lead2, Lead3, Cont}
  BY LiteralAssumption DEF LiteralAssumption
<1>. QED
  BY <1>1 DEF High

LEMMA InitIInv == Init => IInv
<1>. SUFFICES ASSUME Init PROVE IInv
  OBVIOUS
<1>1. str \in Seq(Bytes)
  BY ValuesAreSeqs DEF Init
<1>2. MaxSlack \in Nat
  BY LiteralAssumption DEF LiteralAssumption
<1>. QED
  BY <1>1, <1>2 DEF Init, IInv, Shape, Room, BufBytes

\* str and version never change, so neither does the choice of path.
LEMMA EscapeSyntaxKept ==
  ASSUME str' = str, version' = version
  PROVE  EscapeSyntax' = EscapeSyntax
BY DEF EscapeSyntax

\* IInv after a step of the escaping loops, from its three parts.
LEMMA IInvIntro ==
  ASSUME Shape', EscapeSyntax', data' \in Seq(BufBytes), Len(data') >= 1, Room'
  PROVE  IInv'
BY DEF IInv

\* The 'E' prefix: the buffer ends with the caller's ' ', so only the 'E'
\* is appended, and the enlargement leaves room for it and the '\0'.
LEMMA EscapeSyntaxPrefixIInv == IInv /\ EscapeSyntaxPrefix => IInv'
<1>. SUFFICES ASSUME IInv, EscapeSyntaxPrefix PROVE IInv'
  OBVIOUS
<1>1. data = <<Space>> /\ EscapeSyntax /\ maxlen \in Nat
  BY DEF EscapeSyntaxPrefix, IInv, Shape
<1>2. data' = <<Space>> \o <<>> \o <<LetterE>>
  <2>1. (IF data # <<>> /\ data[Len(data)] # Space THEN <<Space>> ELSE <<>>) = <<>>
    BY <1>1
  <2>. QED
    BY <1>1, <2>1 DEF EscapeSyntaxPrefix
<1>3. data' \in Seq(BufBytes) /\ Len(data') = 2
  BY <1>2 DEF BufBytes
<1>4. maxlen' \in Nat /\ 3 <= maxlen'
  <2>1. MaxSlack \in Nat
    BY LiteralAssumption DEF LiteralAssumption
  <2>. QED
    BY <1>1, <1>3, <2>1 DEF EscapeSyntaxPrefix
<1>5. EscapeSyntax'
  BY <1>1, EscapeSyntaxKept DEF EscapeSyntaxPrefix
<1>6. pc' = "enlarge"
  BY DEF EscapeSyntaxPrefix
<1>7. Shape'
  BY <1>4, <1>5, <1>6 DEF EscapeSyntaxPrefix, IInv, Shape
<1>8. Room'
  BY <1>3, <1>4, <1>6 DEF Room
<1>. QED
  BY <1>3, <1>5, <1>7, <1>8, IInvIntro

\* enlargePQExpBuffer(buf, 2 * length + 2): room for the quote, two bytes
\* per byte of the value, the closing quote and the '\0'.
LEMMA OpenLiteralIInv == IInv /\ OpenLiteral => IInv'
<1>. SUFFICES ASSUME IInv, OpenLiteral PROVE IInv'
  OBVIOUS
<1>1. /\ EscapeSyntax /\ str \in Seq(Bytes) /\ src = 1 /\ maxlen \in Nat
      /\ data \in Seq(BufBytes) /\ Len(data) >= 1
  BY DEF OpenLiteral, IInv, Shape
<1>2. EscapeSyntax'
  BY <1>1, EscapeSyntaxKept DEF OpenLiteral
<1>3. maxlen' \in Nat /\ Len(data) + 2 * Len(str) + 3 <= maxlen'
  <2>1. MaxSlack \in Nat
    BY LiteralAssumption DEF LiteralAssumption
  <2>. QED
    BY <1>1, <2>1 DEF OpenLiteral, Grown
<1>4. data' \in Seq(BufBytes) /\ Len(data') = Len(data) + 1
  BY <1>1, ByteFacts DEF OpenLiteral, BufBytes
<1>5. pc' = "loop" /\ src' = 1 /\ str' = str
  BY <1>1 DEF OpenLiteral
<1>6. Shape'
  BY <1>1, <1>2, <1>3, <1>5 DEF OpenLiteral, IInv, Shape
<1>7. Room'
  BY <1>1, <1>3, <1>4, <1>5 DEF Room, Left
<1>. QED
  BY <1>1, <1>2, <1>4, <1>6, <1>7, IInvIntro

LEMMA OutOfMemoryIInv == IInv /\ OutOfMemory => IInv'
<1>. SUFFICES ASSUME IInv, OutOfMemory PROVE IInv'
  OBVIOUS
<1>1. EscapeSyntax' = EscapeSyntax /\ pc' = "nomem"
  BY EscapeSyntaxKept DEF OutOfMemory
<1>2. Shape'
  BY <1>1 DEF OutOfMemory, IInv, Shape
<1>3. EscapeSyntax => Len(data) + 1 <= maxlen
  BY DEF OutOfMemory, IInv, Shape, Room
<1>. QED
  BY <1>1, <1>2, <1>3 DEF OutOfMemory, IInv, Room

\* An ASCII byte takes one or two of the two bytes reserved for it.
LEMMA PlainByteIInv == IInv /\ PlainByte => IInv'
<1>. SUFFICES ASSUME IInv, PlainByte PROVE IInv'
  OBVIOUS
<1>1. /\ EscapeSyntax /\ str \in Seq(Bytes) /\ maxlen \in Nat
      /\ src \in 1..(Len(str) + 1) /\ pc = "loop"
      /\ data \in Seq(BufBytes) /\ Len(data) >= 1
      /\ Len(data) + 2 * Left + 2 <= maxlen
  BY DEF PlainByte, IInv, Shape, Room
<1>2. EscapeSyntax'
  BY <1>1, EscapeSyntaxKept DEF PlainByte
<1>3. src \in 1..Len(str) /\ Ch(src) \in Bytes
  BY <1>1, ChFacts DEF PlainByte
<1>4. /\ data' \in Seq(BufBytes)
      /\ Len(data') <= Len(data) + 2 /\ Len(data') >= Len(data)
  <2>. DEFINE piece == IF Ch(src) \in {Quote, BSlash} THEN <<Ch(src), Ch(src)>>
                                                      ELSE <<Ch(src)>>
  <2>1. piece \in Seq(BufBytes) /\ Len(piece) \in 1..2
    <3>1. Ch(src) \in BufBytes
      BY <1>3 DEF BufBytes
    <3>. QED
      BY <3>1
  <2>2. data' = data \o piece
    BY DEF PlainByte
  <2>. QED
    BY <1>1, <2>1, <2>2
<1>5. pc' = "loop" /\ src' = src + 1 /\ str' = str /\ maxlen' = maxlen
  BY DEF PlainByte
<1>6. Shape'
  BY <1>1, <1>2, <1>3, <1>5 DEF PlainByte, IInv, Shape
<1>7. Room'
  BY <1>1, <1>3, <1>4, <1>5 DEF Room, Left
<1>. QED
  BY <1>1, <1>2, <1>4, <1>6, <1>7, IInvIntro

\* The lead byte of a multibyte character is a byte of the value.
LEMMA MbStartIInv == IInv /\ MbStart => IInv'
<1>. SUFFICES ASSUME IInv, MbStart PROVE IInv'
  OBVIOUS
<1>1. /\ EscapeSyntax /\ str \in Seq(Bytes) /\ maxlen \in Nat
      /\ src \in 1..(Len(str) + 1) /\ pc = "loop"
      /\ data \in Seq(BufBytes) /\ Len(data) >= 1
      /\ Len(data) + 2 * Left + 2 <= maxlen
  BY DEF MbStart, IInv, Shape, Room
<1>2. EscapeSyntax'
  BY <1>1, EscapeSyntaxKept DEF MbStart
<1>3. src \in 1..Len(str)
  BY <1>1, ChFacts, ByteFacts DEF MbStart
<1>4. mblen' \in 1..3 /\ i' = 0 /\ pc' = "mbcopy"
  BY DEF MbStart, MbLen
<1>5. UNCHANGED <<str, data, maxlen, src>>
  BY DEF MbStart
<1>6. Shape'
  BY <1>1, <1>2, <1>4, <1>5 DEF IInv, Shape
<1>7. Room'
  BY <1>1, <1>3, <1>4, <1>5 DEF Room, Left
<1>. QED
  BY <1>1, <1>2, <1>5, <1>6, <1>7, IInvIntro

\* A byte of the character is copied once: one of the two bytes reserved
\* for it is spent, the other is counted by i.
LEMMA MbByteIInv == IInv /\ MbByte => IInv'
<1>. SUFFICES ASSUME IInv, MbByte PROVE IInv'
  OBVIOUS
<1>1. /\ EscapeSyntax /\ str \in Seq(Bytes) /\ maxlen \in Nat
      /\ src \in 1..(Len(str) + 1) /\ pc = "mbcopy" /\ i \in Nat
      /\ mblen \in 1..3 /\ i < mblen
      /\ data \in Seq(BufBytes)
      /\ Len(data) + 2 * Left + 2 + i <= maxlen
  BY DEF MbByte, IInv, Shape, Room
<1>2. EscapeSyntax'
  BY <1>1, EscapeSyntaxKept DEF MbByte
<1>3. src \in 1..Len(str) /\ Ch(src) \in Bytes
  BY <1>1, ChFacts DEF MbByte
<1>4. data' \in Seq(BufBytes) /\ Len(data') = Len(data) + 1
  BY <1>1, <1>3 DEF MbByte, BufBytes
<1>5. /\ pc' = "mbcopy" /\ src' = src + 1 /\ i' = i + 1
      /\ UNCHANGED <<str, maxlen, mblen>>
  BY DEF MbByte
<1>6. Shape'
  BY <1>1, <1>2, <1>3, <1>5 DEF IInv, Shape
<1>7. Room'
  BY <1>1, <1>3, <1>4, <1>5 DEF Room, Left
<1>. QED
  BY <1>2, <1>4, <1>6, <1>7, IInvIntro

LEMMA MbDoneIInv == IInv /\ MbDone => IInv'
<1>. SUFFICES ASSUME IInv, MbDone PROVE IInv'
  OBVIOUS
<1>1. /\ EscapeSyntax /\ maxlen \in Nat /\ i \in Nat
      /\ str \in Seq(Bytes) /\ src \in 1..(Len(str) + 1)
      /\ data \in Seq(BufBytes) /\ Len(data) >= 1
      /\ Len(data) + 2 * Left + 2 + i <= maxlen
  BY DEF MbDone, IInv, Shape, Room
<1>2. EscapeSyntax'
  BY <1>1, EscapeSyntaxKept DEF MbDone
<1>3. /\ pc' = "loop" /\ str' = str /\ data' = data /\ maxlen' = maxlen
      /\ src' = src /\ mblen' = mblen /\ i' = i
  BY DEF MbDone
<1>4. Shape'
  BY <1>1, <1>2, <1>3 DEF IInv, Shape
<1>5. Room'
  <2>1. Len(data') + 2 * Left' + 2 <= maxlen'
    BY <1>1, <1>3 DEF Left
  <2>. QED
    BY <1>3, <2>1 DEF Room
<1>. QED
  BY <1>1, <1>2, <1>3, <1>4, <1>5, IInvIntro

\* The value ends inside a character: at least its lead byte was copied,
\* so the room of that byte's second half is free for one pad space.
LEMMA MbCutIInv == IInv /\ MbCut => IInv'
<1>. SUFFICES ASSUME IInv, MbCut PROVE IInv'
  OBVIOUS
<1>1. /\ EscapeSyntax /\ str \in Seq(Bytes) /\ maxlen \in Nat
      /\ src \in 1..(Len(str) + 1) /\ i \in Nat /\ i < mblen
      /\ data \in Seq(BufBytes) /\ Len(data) >= 1
      /\ Len(data) + 2 * Left + 2 + i <= maxlen
      /\ i = 0 => src <= Len(str)
  BY DEF MbCut, IInv, Shape, Room
<1>2. EscapeSyntax'
  BY <1>1, EscapeSyntaxKept DEF MbCut
<1>3. src = Len(str) + 1
  <2>1. Ch(src) = NUL
    BY DEF MbCut
  <2>. QED
    BY <1>1, <2>1, ByteFacts DEF Ch
<1>4. i >= 1 /\ Len(data) + 3 <= maxlen
  BY <1>1, <1>3 DEF Left
<1>5. pc' = "pad" /\ UNCHANGED <<str, data, maxlen, src, mblen, i>>
  BY DEF MbCut
<1>6. Shape'
  BY <1>1, <1>2, <1>5 DEF IInv, Shape
<1>7. Room'
  BY <1>1, <1>4, <1>5 DEF Room
<1>. QED
  BY <1>1, <1>2, <1>5, <1>6, <1>7, IInvIntro

\* A pad space goes in only below stop = maxlen - 2.
LEMMA PadIInv == IInv /\ Pad => IInv'
<1>. SUFFICES ASSUME IInv, Pad PROVE IInv'
  OBVIOUS
<1>1. /\ EscapeSyntax /\ maxlen \in Nat /\ i \in Nat
      /\ data \in Seq(BufBytes) /\ Len(data) >= 1
  BY DEF Pad, IInv, Shape
<1>2. EscapeSyntax'
  BY <1>1, EscapeSyntaxKept DEF Pad
<1>3. /\ data' \in Seq(BufBytes) /\ Len(data') = Len(data) + 1
      /\ data'[Len(data')] = Space
  BY <1>1 DEF Pad, BufBytes
<1>4. pc' = "pad" /\ maxlen' = maxlen /\ Len(data) < maxlen - 2
  BY DEF Pad, Stop
<1>5. Shape'
  BY <1>1, <1>2, <1>4 DEF Pad, IInv, Shape
<1>6. Room'
  BY <1>1, <1>3, <1>4 DEF Room
<1>. QED
  BY <1>1, <1>2, <1>3, <1>5, <1>6, IInvIntro

\* The closing quote takes the byte kept for it; the '\0' still fits.
LEMMA CloseLiteralIInv == IInv /\ CloseLiteral => IInv'
<1>. SUFFICES ASSUME IInv, CloseLiteral PROVE IInv'
  OBVIOUS
<1>1. /\ EscapeSyntax /\ str \in Seq(Bytes) /\ maxlen \in Nat
      /\ src \in 1..(Len(str) + 1) /\ pc \in {"loop", "pad"}
      /\ data \in Seq(BufBytes) /\ Len(data) >= 1
  BY DEF CloseLiteral, IInv, Shape
<1>2. EscapeSyntax'
  BY <1>1, EscapeSyntaxKept DEF CloseLiteral
<1>3. Len(data) + 2 <= maxlen
  <2>1. CASE pc = "loop"
    <3>1. Ch(src) = NUL
      BY <2>1 DEF CloseLiteral
    <3>2. src = Len(str) + 1
      BY <1>1, <3>1, ByteFacts DEF Ch
    <3>. QED
      BY <1>1, <2>1, <3>2 DEF IInv, Room, Left
  <2>2. CASE pc = "pad"
    BY <1>1, <2>2 DEF IInv, Room
  <2>. QED
    BY <1>1, <2>1, <2>2
<1>4. data' \in Seq(BufBytes) /\ Len(data') = Len(data) + 1
  BY <1>1, ByteFacts DEF CloseLiteral, BufBytes
<1>5. pc' = "done" /\ UNCHANGED <<str, maxlen, src, mblen, i>>
  BY DEF CloseLiteral
<1>6. Shape'
  BY <1>1, <1>2, <1>5 DEF IInv, Shape
<1>7. Room'
  BY <1>3, <1>4, <1>5 DEF Room
<1>. QED
  BY <1>2, <1>4, <1>6, <1>7, IInvIntro

\* The library path is taken only without the 'E' syntax, where Room says
\* nothing; it ends the run.
LEMMA LibraryLiteralIInv == IInv /\ LibraryLiteral => IInv'
<1>. SUFFICES ASSUME IInv, LibraryLiteral PROVE IInv'
  OBVIOUS
<1>1. ~EscapeSyntax' /\ maxlen \in Nat
  BY EscapeSyntaxKept DEF LibraryLiteral, IInv, Shape
<1>2. maxlen' \in Nat
  <2>1. MaxSlack \in Nat
    BY LiteralAssumption DEF LiteralAssumption
  <2>. QED
    BY <1>1, <2>1 DEF LibraryLiteral, Grown
<1>3. pc' = "done" /\ UNCHANGED <<str, src, mblen, i>>
  BY DEF LibraryLiteral
<1>4. Shape'
  BY <1>1, <1>2, <1>3 DEF IInv, Shape
<1>. QED
  BY <1>1, <1>4 DEF IInv

LEMMA NextIInv == IInv /\ [Next]_vars => IInv'
<1>. SUFFICES ASSUME IInv, [Next]_vars PROVE IInv'
  OBVIOUS
<1>1. CASE EscapeSyntaxPrefix
  BY <1>1, EscapeSyntaxPrefixIInv
<1>2. CASE OpenLiteral
  BY <1>2, OpenLiteralIInv
<1>3. CASE OutOfMemory
  BY <1>3, OutOfMemoryIInv
<1>4. CASE PlainByte
  BY <1>4, PlainByteIInv
<1>5. CASE MbStart
  BY <1>5, MbStartIInv
<1>6. CASE MbByte
  BY <1>6, MbByteIInv
<1>7. CASE MbDone
  BY <1>7, MbDoneIInv
<1>8. CASE MbCut
  BY <1>8, MbCutIInv
<1>9. CASE Pad
  BY <1>9, PadIInv
<1>10. CASE CloseLiteral
  BY <1>10, CloseLiteralIInv
<1>11. CASE LibraryLiteral
  BY <1>11, LibraryLiteralIInv
<1>12. CASE UNCHANGED vars
  BY <1>12 DEF vars, IInv, Shape, Room, Left, EscapeSyntax
<1>. QED
  BY <1>1, <1>2, <1>3, <1>4, <1>5, <1>6, <1>7, <1>8, <1>9, <1>10, <1>11, <1>12
     DEF Next

-----------------------------------------------------------------------------
(***************************************************************************)
(* PadRoom for every value, server version and buffer size: when           *)
(* appendStringLiteral() reaches its padding loop with no pad space        *)
(* written yet, the loop's test holds, so at least one space goes in, as   *)
(* the comment of appendStringLiteral() promises.                          *)
(***************************************************************************)
THEOREM PadRoomHolds == Spec => []PadRoom
<1>1. IInv => PadRoom
  BY DEF IInv, Shape, Room, PadRoom, Stop
<1>. QED
  BY InitIInv, NextIInv, <1>1, PTL DEF Spec

(***************************************************************************)
(* WithinBuffer on the path of appendStringLiteral() that writes through a *)
(* raw pointer (a '\' in the value, a server of 8.1 or later): for every   *)
(* value, however many quotes and backslashes it holds and wherever it is  *)
(* cut short, the bytes written and the '\0' after them stay within        *)
(* buf->maxlen.                                                            *)
(***************************************************************************)
THEOREM EscapedWithinBuffer == Spec => [](EscapeSyntax => WithinBuffer)
<1>1. IInv => (EscapeSyntax => WithinBuffer)
  <2>. SUFFICES ASSUME IInv, EscapeSyntax PROVE WithinBuffer
    OBVIOUS
  <2>1. /\ Room /\ data \in Seq(BufBytes) /\ maxlen \in Nat
        /\ str \in Seq(Bytes) /\ src \in 1..(Len(str) + 1) /\ i \in Nat
        /\ pc \in {"start", "enlarge", "loop", "mbcopy", "pad", "done", "nomem"}
        /\ pc = "start" => data = <<Space>> /\ 2 <= maxlen
    BY DEF IInv, Shape
  <2>2. Left \in Nat
    BY <2>1 DEF Left
  <2>3. CASE pc = "start"
    <3>1. data = <<Space>> /\ 2 <= maxlen
      BY <2>1, <2>3
    <3>2. Len(data) = 1
      BY <3>1
    <3>. QED
      BY <3>1, <3>2 DEF WithinBuffer
  <2>4. CASE pc \in {"enlarge", "done", "nomem"}
    BY <2>1, <2>4 DEF Room, WithinBuffer
  <2>6. CASE pc = "pad"
    <3>1. Len(data) + 2 <= maxlen
      BY <2>1, <2>6 DEF Room
    <3>. QED
      BY <2>1, <3>1 DEF WithinBuffer
  <2>5. CASE pc \in {"loop", "mbcopy"}
    BY <2>1, <2>2, <2>5 DEF Room, WithinBuffer
  <2>. QED
    BY <2>1, <2>3, <2>4, <2>5, <2>6
<1>. QED
  BY InitIInv, NextIInv, <1>1, PTL DEF Spec

=============================================================================
