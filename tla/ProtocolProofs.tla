----------------------------- MODULE ProtocolProofs -----------------------------
(* For every size of frames and reads and every stream of a radio: the parser is *)
(* well typed, the overflow protection of feedData() never drops a byte, and what *)
(* is delivered is what the stream, read as a whole, says, and what an orderly    *)
(* radio has sent.                                                               *)
EXTENDS Protocol, SequenceTheorems, WellFoundedInduction, TLAPS

--------------------------------------------------------------------------------
(* Pieces of sequences and numbers of bytes                                      *)

\* A piece of a sequence, by its length.
LEMMA Prefix ==
  ASSUME NEW S, NEW s \in Seq(S), NEW n \in 0..Len(s)
  PROVE  SubSeq(s, 1, n) \in Seq(S) /\ Len(SubSeq(s, 1, n)) = n
BY SubSeqProperties

\* All of it.
LEMMA Whole ==
  ASSUME NEW S, NEW s \in Seq(S)
  PROVE  SubSeq(s, 1, Len(s)) = s
<1> DEFINE x == SubSeq(s, 1, Len(s))
<1>1. x \in Seq(S) /\ Len(x) = Len(s) /\ \A i \in 1..Len(x) : x[i] = s[i]
  OBVIOUS
<1> HIDE DEF x
<1>2. x = s
  BY <1>1, SeqEqual
<1> QED BY <1>2 DEF x

\* What is left when n elements are erased.
LEMMA Erased ==
  ASSUME NEW S, NEW s \in Seq(S), NEW n \in 0..Len(s)
  PROVE  Erase(s, n) \in Seq(S) /\ Len(Erase(s, n)) = Len(s) - n
<1>1. n + 1 \in 1..(Len(s) + 1) /\ Len(s) \in Nat
  BY LenProperties
<1>2. SubSeq(s, n + 1, Len(s)) \in Seq(S)
  BY <1>1
<1>3. Len(SubSeq(s, n + 1, Len(s))) = Len(s) - n
  BY <1>1
<1> QED BY <1>2, <1>3 DEF Erase

\* Three sequences, put together in either order.
LEMMA Together ==
  ASSUME NEW S, NEW s \in Seq(S), NEW t \in Seq(S), NEW u \in Seq(S)
  PROVE  t \o u \in Seq(S) /\ (s \o t) \o u = s \o (t \o u)
BY ConcatAssociative, ConcatProperties

LEMMA BytesTogether ==
  \A x, y, z \in Seq(Bytes) : (x \o y) \o z = x \o (y \o z)
BY ConcatAssociative

\* A marker is a sequence.
LEMMA FourBytes ==
  ASSUME NEW x \in [1..4 -> Bytes]
  PROVE  x \in Seq(Bytes)
<1>1. 4 \in Nat /\ DOMAIN x = 1..4
  OBVIOUS
<1> QED BY <1>1, SeqDef

\* The bytes of a length are bytes.
LEMMA LengthBytesType ==
  ASSUME NEW n \in Nat
  PROVE  LengthBytes(n) \in Seq(Bytes)
<1>1. Base \in Nat \ {0}
  BY Framing
<1>2. \A x \in Nat : x % Base \in Bytes /\ x \div Base \in Nat
  BY <1>1 DEF Bytes
<1> DEFINE upper == n \div Base
           third == upper \div Base
<1>3. upper \in Nat /\ third \in Nat /\ third \div Base \in Nat
  BY <1>2
<1>4. /\ (third \div Base) % Base \in Bytes /\ third % Base \in Bytes
      /\ upper % Base \in Bytes /\ n % Base \in Bytes
  BY <1>2, <1>3
<1>5. LengthBytes(n) = <<(third \div Base) % Base, third % Base, upper % Base, n % Base>>
  BY DEF LengthBytes
<1>6. \A a, b, c, d \in Bytes : <<a, b, c, d>> \in Seq(Bytes)
  OBVIOUS
<1> HIDE DEF upper, third
<1> QED BY <1>4, <1>5, <1>6

\* The number in four bytes is a natural number.
LEMMA LengthFieldType ==
  ASSUME NEW s \in Seq(Bytes), Len(s) >= 4
  PROVE  LengthField(s) \in Nat
<1>1. Base \in Nat
  BY Framing
<1>2. s[1] \in Nat /\ s[2] \in Nat /\ s[3] \in Nat /\ s[4] \in Nat
  BY <1>1 DEF Bytes
<1>3. ASSUME NEW m \in Nat, NEW n \in Nat PROVE m + Base * n \in Nat
  <2>1. Base * n \in Nat
    BY <1>1
  <2> QED BY <2>1
<1> DEFINE two   == s[2] + Base * s[1]
           three == s[3] + Base * two
<1>4. two \in Nat
  BY <1>2, <1>3, Zenon
<1>5. three \in Nat
  <2> HIDE DEF two
  <2> QED BY <1>2, <1>3, <1>4, Zenon
<1>6. s[4] + Base * three \in Nat
  <2> HIDE DEF three
  <2> QED BY <1>2, <1>3, <1>5, Zenon
<1> QED BY <1>6 DEF LengthField

--------------------------------------------------------------------------------
(* Type correctness                                                             *)

\* The bytes of a frame, whatever stands in place of its end marker.
LEMMA FrameType ==
  ASSUME NEW p \in Payloads
  PROVE  /\ StartMarker \o LengthBytes(Len(p)) \o p \in Seq(Bytes)
         /\ \A e \in Endings : e \in Seq(Bytes)
<1>1. p \in Seq(Bytes) /\ Len(p) \in Nat
  BY Radio
<1>2. \A e \in Endings : e \in Seq(Bytes)
  BY FourBytes, Radio
<1>3. StartMarker \in Seq(Bytes)
  BY FourBytes, Framing
<1>4. LengthBytes(Len(p)) \in Seq(Bytes)
  BY <1>1, LengthBytesType
<1>5. StartMarker \o LengthBytes(Len(p)) \in Seq(Bytes)
  BY <1>3, <1>4, ConcatProperties
<1>6. (StartMarker \o LengthBytes(Len(p))) \o p \in Seq(Bytes)
  BY <1>1, <1>5, ConcatProperties
<1> QED BY <1>2, <1>6

\* One step keeps every variable in its type.
LEMMA TypeStep == TypeOK /\ [Next]_vars => TypeOK'
<1> SUFFICES ASSUME TypeOK, [Next]_vars PROVE TypeOK'
  OBVIOUS
<1> USE DEF TypeOK
<1>1. ASSUME NEW p \in Payloads, NEW e \in Endings, Send(p, e)
      PROVE  TypeOK'
  <2> DEFINE f == StartMarker \o LengthBytes(Len(p)) \o p
  <2>1. f \in Seq(Bytes) /\ e \in Seq(Bytes) /\ p \in Seq(Bytes)
    BY FrameType, Radio
  <2>2. wire' \in Seq(Bytes)
    <3>1. wire' = wire \o StartMarker \o LengthBytes(Len(p)) \o p \o e
      BY <1>1 DEF Send
    <3>2. StartMarker \in Seq(Bytes) /\ LengthBytes(Len(p)) \in Seq(Bytes)
      <4>1. Len(p) \in Nat
        BY <2>1
      <4> QED BY <4>1, Framing, FourBytes, LengthBytesType
    <3>3. \A x, y \in Seq(Bytes) : x \o y \in Seq(Bytes)
      OBVIOUS
    <3> QED BY <2>1, <3>1, <3>2, <3>3
  <2>3. sent' \in Seq(Seq(Bytes)) /\ pieces' \in Nat /\ Len(sent') = Len(sent) + 1
    BY <1>1, <2>1 DEF Send
  <2>4. intact' \in Seq(BOOLEAN) /\ Len(intact') = Len(intact) + 1
    <3>1. PICK whole \in BOOLEAN : intact' = Append(intact, whole)
      BY <1>1, Zenon DEF Send
    <3>2. \A x \in BOOLEAN : Append(intact, x) \in Seq(BOOLEAN) /\ Len(Append(intact, x)) = Len(intact) + 1
      OBVIOUS
    <3> QED BY <3>1, <3>2, Zenon
  <2> QED BY <1>1, <2>2, <2>3, <2>4 DEF Send, parser
<1>2. ASSUME NEW p \in Payloads, SendUnended(p) PROVE TypeOK'
  <2>1. wire' \in Seq(Bytes)
    <3>1. wire' = wire \o StartMarker \o LengthBytes(Len(p)) \o p
      BY <1>2 DEF SendUnended
    <3>2. /\ StartMarker \in Seq(Bytes) /\ LengthBytes(Len(p)) \in Seq(Bytes)
          /\ p \in Seq(Bytes)
      <4>1. p \in Seq(Bytes) /\ Len(p) \in Nat
        BY Radio
      <4> QED BY <4>1, Framing, FourBytes, LengthBytesType
    <3>3. \A x, y \in Seq(Bytes) : x \o y \in Seq(Bytes)
      OBVIOUS
    <3> QED BY <3>1, <3>2, <3>3
  <2>2. pieces' \in Nat
    BY <1>2 DEF SendUnended
  <2>3. orderly' \in BOOLEAN
    BY <1>2, Zenon DEF SendUnended
  <2> QED BY <1>2, <2>1, <2>2, <2>3 DEF SendUnended, parser
<1>3. ASSUME NEW j \in Junk, SendJunk(j) PROVE TypeOK'
  <2>1. wire' \in Seq(Bytes)
    BY <1>3, Radio DEF SendJunk
  <2>2. pieces' \in Nat
    BY <1>3 DEF SendJunk
  <2> QED BY <1>3, <2>1, <2>2 DEF SendJunk, parser
<1>4. CASE Reset
  <2>1. \A S : <<>> \in Seq(S)
    OBVIOUS
  <2> QED BY <1>4, <2>1 DEF Reset, ParseStates
<1>5. ASSUME NEW n \in 1..MaxRead, Feed(n) PROVE TypeOK'
  <2>1. n \in 0..Len(wire) /\ n \in Nat
    BY <1>5, Framing DEF Feed
  <2>2. SubSeq(wire, 1, n) \in Seq(Bytes) /\ Erase(wire, n) \in Seq(Bytes)
    BY <2>1, Prefix, Erased
  <2>3. wire' \in Seq(Bytes) /\ received' \in Seq(Bytes)
    BY <1>5, <2>2 DEF Feed
  <2>4. buffer \o SubSeq(wire, 1, n) \in Seq(Bytes) /\ <<>> \in Seq(Bytes)
    BY <2>2
  <2>5. /\ buffer' \in Seq(Bytes) /\ processing' \in BOOLEAN
        /\ \/ parseState' = parseState /\ expectedLength' = expectedLength
           \/ parseState' = "SEEKING_START" /\ expectedLength' = 0
    BY <1>5, <2>4 DEF Feed
  <2>6. UNCHANGED <<delivered, sent, intact, orderly, pieces>>
    BY <1>5 DEF Feed
  <2>7. parseState' \in ParseStates /\ expectedLength' \in Nat
    BY <2>5 DEF ParseStates
  <2>8. parseState' = "READING_PAYLOAD" => expectedLength' \in 1..MaxFrameSize
    BY <2>5
  <2> QED BY <2>3, <2>5, <2>6, <2>7, <2>8
<1>6. CASE Seek
  <2>1. PICK pos \in 1..(Len(buffer) - 3) : buffer' = Erase(buffer, pos + 3)
    BY <1>6 DEF Seek, Starts
  <2>2. buffer' \in Seq(Bytes)
    <3>1. pos + 3 \in 0..Len(buffer)
      BY <2>1
    <3> QED BY <2>1, <3>1, Erased
  <2> QED BY <1>6, <2>2 DEF Seek, ParseStates, peer
<1>7. CASE SeekFurther
  <2>1. Len(buffer) > 3 => Len(buffer) - 3 \in 0..Len(buffer)
    OBVIOUS
  <2>2. buffer' \in Seq(Bytes)
    BY <1>7, <2>1, Erased DEF SeekFurther
  <2> QED BY <1>7, <2>2 DEF SeekFurther, peer
<1>8. CASE ReadLength
  <2>1. Len(buffer) >= 4 /\ 4 \in 0..Len(buffer)
    BY <1>8 DEF ReadLength, At
  <2>2. LengthField(buffer) \in Nat /\ Erase(buffer, 4) \in Seq(Bytes)
    BY <2>1, LengthFieldType, Erased
  <2>3. expectedLength' \in Nat /\ buffer' \in Seq(Bytes)
    BY <1>8, <2>2 DEF ReadLength
  <2> QED BY <1>8, <2>3 DEF ReadLength, ParseStates, peer
<1>9. CASE ReadPayload
  <2>1. expectedLength \in 0..Len(buffer)
    BY <1>9 DEF ReadPayload, At
  <2>2. SubSeq(buffer, 1, expectedLength) \in Seq(Bytes) /\ Erase(buffer, expectedLength) \in Seq(Bytes)
    BY <2>1, Prefix, Erased
  <2>3. delivered' \in Seq(Seq(Bytes)) /\ buffer' \in Seq(Bytes)
    BY <1>9, <2>2 DEF ReadPayload
  <2> QED BY <1>9, <2>3 DEF ReadPayload, ParseStates, peer
<1>10. CASE ReadEnd
  <2>1. 4 \in 0..Len(buffer)
    BY <1>10 DEF ReadEnd, At
  <2>2. buffer' \in Seq(Bytes)
    BY <1>10, <2>1, Erased DEF ReadEnd
  <2> QED BY <1>10, <2>2 DEF ReadEnd, ParseStates, peer
<1>11. CASE Return
  BY <1>11 DEF Return, peer
<1>12. CASE UNCHANGED vars
  BY <1>12 DEF vars, parser, peer
<1> QED BY <1>1, <1>2, <1>3, <1>4, <1>5, <1>6, <1>7, <1>8, <1>9, <1>10, <1>11, <1>12
        DEF Next, RadioSends, Process

\* Every reachable state of the parser is well typed, whatever a radio sends: in
\* particular a payload is only waited for when its length is from 1 to the limit.
THEOREM ParserTypeCorrect == Spec => []TypeOK
<1>1. Init => TypeOK
  <2> SUFFICES ASSUME Init PROVE TypeOK
    OBVIOUS
  <2>1. \A S : <<>> \in Seq(S)
    OBVIOUS
  <2>2. processing \in BOOLEAN /\ orderly \in BOOLEAN
    BY Zenon DEF Init
  <2> QED BY <2>1, <2>2 DEF Init, TypeOK, ParseStates
<1> QED BY <1>1, TypeStep, PTL DEF Spec

--------------------------------------------------------------------------------
(* The overflow protection                                                      *)

\* What the parser holds when feedData() has returned is too short for what it
\* waits for.
Held == ~processing =>
  Len(buffer) <= IF parseState = "READING_PAYLOAD" THEN expectedLength - 1 ELSE 3

\* One step preserves it.
LEMMA HeldStep == TypeOK /\ Held /\ [Next]_vars => Held'
<1> SUFFICES ASSUME TypeOK, Held, [Next]_vars PROVE Held'
  OBVIOUS
<1>t. /\ buffer \in Seq(Bytes) /\ Len(buffer) \in Nat /\ expectedLength \in Nat
      /\ parseState = "READING_PAYLOAD" => expectedLength >= 1
      /\ parseState \in ParseStates
  BY DEF TypeOK
<1>1. CASE RadioSends
  BY <1>1 DEF RadioSends, Send, SendUnended, SendJunk, parser, Held
<1>2. CASE Reset
  BY <1>2 DEF Reset, Held
<1>3. ASSUME NEW n \in 1..MaxRead, Feed(n) PROVE Held'
  BY <1>3 DEF Feed, Held
<1>4. CASE SeekFurther
  <2>1. ASSUME Len(buffer) > 3 PROVE Len(Erase(buffer, Len(buffer) - 3)) = 3
    <3> DEFINE n == Len(buffer) - 3
    <3>1. n \in 0..Len(buffer) /\ Len(buffer) - n = 3
      BY <1>t, <2>1
    <3> HIDE DEF n
    <3>2. Len(Erase(buffer, n)) = Len(buffer) - n
      BY <1>t, <3>1, Erased
    <3> QED BY <3>1, <3>2 DEF n
  <2>2. ASSUME Len(buffer) > 3 PROVE Len(buffer') <= 3
    <3>1. buffer' = Erase(buffer, Len(buffer) - 3)
      BY <1>4, <2>2 DEF SeekFurther
    <3>2. Len(Erase(buffer, Len(buffer) - 3)) = 3
      BY <2>1, <2>2
    <3>3. Len(buffer') = 3
      BY <3>1, <3>2, Zenon
    <3> QED BY <3>3
  <2>3. ASSUME Len(buffer) <= 3 PROVE Len(buffer') <= 3
    BY <1>4, <1>t, <2>3 DEF SeekFurther
  <2>4. Len(buffer') <= 3
    BY <1>t, <2>2, <2>3
  <2> QED BY <1>4, <2>4 DEF SeekFurther, At, Held
<1>5. CASE Seek \/ ReadLength \/ ReadPayload \/ ReadEnd
  BY <1>5 DEF Seek, ReadLength, ReadPayload, ReadEnd, At, Held
<1>6. CASE Return
  <2>1. Len(buffer) <= IF parseState = "READING_PAYLOAD" THEN expectedLength - 1 ELSE 3
    BY <1>6, <1>t DEF Return, Needed
  <2> QED BY <1>6, <2>1 DEF Return, Held
<1>7. CASE UNCHANGED vars
  BY <1>7 DEF vars, parser, Held
<1> QED BY <1>1, <1>2, <1>3, <1>4, <1>5, <1>6, <1>7 DEF Next, Process

\* For every limit of frames and every stream a radio may send, cut into reads in
\* any way: the overflow protection of feedData() never drops what the parser
\* holds, for no read can get past its limit.
THEOREM ParserNeverOverflows == Spec => []NeverOverflows
<1>1. Init => Held
  BY DEF Init, Held
<1>2. TypeOK /\ Held => NeverOverflows
  <2> SUFFICES ASSUME TypeOK, Held, ~processing
               PROVE  Len(buffer) + MaxRead <= 2 * MaxFrameSize
    BY DEF NeverOverflows
  <2>1. Len(buffer) \in Nat /\ MaxRead \in Nat /\ MaxFrameSize \in Nat
    BY Framing DEF TypeOK
  <2>2. Len(buffer) <= 3 \/ Len(buffer) <= MaxFrameSize - 1
    BY <2>1 DEF TypeOK, Held
  <2> QED BY <2>1, <2>2, Framing
<1> QED BY <1>1, <1>2, HeldStep, ParserTypeCorrect, PTL DEF Spec
--------------------------------------------------------------------------------
(* The stream as a whole                                                        *)

\* A set of numbers has a least one.
LEMMA LeastOf ==
  ASSUME NEW S, S \subseteq Nat, S # {}
  PROVE  \E m \in S : \A n \in S : m <= n
<1>1. \A m, n \in Nat : m < n => <<m, n>> \in OpToRel(<, Nat)
  BY DEF OpToRel
<1>2. PICK m \in S : \A n \in S : ~(<<n, m>> \in OpToRel(<, Nat))
  BY NatLessThanWellFounded, WFMin
<1>3. ASSUME NEW n \in S PROVE m <= n
  <2>1. m \in Nat /\ n \in Nat /\ ~(n < m)
    BY <1>1, <1>2
  <2> QED BY <2>1
<1> QED BY <1>3

\* Decode, taken apart: a payload of n bytes from p on, a length from l on, and a start
\* marker from i on, f being what is decoded from later positions.
FromPayload(s, f, p, n) ==
  IF p + n > Len(s) + 1 THEN <<>> ELSE <<SubSeq(s, p, p + n - 1)>> \o f[p + n + 4]
FromLength(s, f, l) ==
  IF l + 4 > Len(s) + 1 THEN <<>>
  ELSE IF LengthField(SubSeq(s, l, l + 3)) \notin 1..MaxFrameSize THEN f[l + 4]
       ELSE FromPayload(s, f, l + 4, LengthField(SubSeq(s, l, l + 3)))
FromStart(s, f, i) ==
  IF Starts(s, i) = {} THEN <<>> ELSE FromLength(s, f, First(Starts(s, i)) + 4)

\* What is decoded from each position.
Decoded(s) == CHOOSE f : f = [i \in 1..(Len(s) + 8) |-> FromStart(s, f, i)]

LEMMA DecodeIs ==
  ASSUME NEW s
  PROVE  Decode(s) = Decoded(s)[1]
BY Zenon DEF Decode, Decoded, FromStart, FromLength, FromPayload

\* The first start marker.
LEMMA FirstStart ==
  ASSUME NEW s \in Seq(Bytes), NEW i \in Nat \ {0}, Starts(s, i) # {}
  PROVE  /\ First(Starts(s, i)) \in Starts(s, i)
         /\ First(Starts(s, i)) \in i..(Len(s) - 3)
         /\ \A j \in Starts(s, i) : First(Starts(s, i)) <= j
<1>1. Starts(s, i) \subseteq i..(Len(s) - 3) /\ Starts(s, i) \subseteq Nat
  BY DEF Starts
<1>2. PICK m \in Starts(s, i) : \A j \in Starts(s, i) : m <= j
  BY <1>1, LeastOf
<1>3. /\ First(Starts(s, i)) \in Starts(s, i)
      /\ \A j \in Starts(s, i) : First(Starts(s, i)) <= j
  BY <1>2 DEF First
<1> QED BY <1>1, <1>3

\* What is decoded from a position depends on what is decoded from later ones only.
LEMMA LooksAhead ==
  ASSUME NEW s \in Seq(Bytes), NEW i \in 1..(Len(s) + 8),
         NEW f, NEW g,
         \A j \in 1..(Len(s) + 8) : j > i => f[j] = g[j] /\ f[j] \in Seq(Seq(Bytes))
  PROVE  /\ FromStart(s, f, i) \in Seq(Seq(Bytes))
         /\ FromStart(s, f, i) = FromStart(s, g, i)
<1>0. Len(s) \in Nat /\ <<>> \in Seq(Seq(Bytes))
  OBVIOUS
<1>1. CASE Starts(s, i) = {}
  BY <1>0, <1>1 DEF FromStart
<1>2. CASE Starts(s, i) # {}
  <2> PICK l \in Nat : l = First(Starts(s, i)) + 4 /\ l \in (i + 4)..(Len(s) + 1)
    BY <1>0, <1>2, FirstStart
  <2>1. FromStart(s, f, i) = FromLength(s, f, l) /\ FromStart(s, g, i) = FromLength(s, g, l)
    BY <1>2 DEF FromStart
  <2>2. CASE l + 4 > Len(s) + 1
    BY <1>0, <2>1, <2>2 DEF FromLength
  <2>3. CASE l + 4 <= Len(s) + 1
    <3> DEFINE n == LengthField(SubSeq(s, l, l + 3))
    <3>1. f[l + 4] = g[l + 4] /\ f[l + 4] \in Seq(Seq(Bytes))
      BY <1>0, <2>3
    <3>2. ASSUME n \in 1..MaxFrameSize
          PROVE  /\ FromPayload(s, f, l + 4, n) \in Seq(Seq(Bytes))
                 /\ FromPayload(s, f, l + 4, n) = FromPayload(s, g, l + 4, n)
      <4> PICK k \in Nat \ {0} : k = n
        BY <3>2, Framing
      <4> HIDE DEF n
      <4>1. CASE l + 4 + k > Len(s) + 1
        BY <1>0, <4>1 DEF FromPayload
      <4>2. CASE l + 4 + k <= Len(s) + 1
        <5>1. f[l + 4 + k + 4] = g[l + 4 + k + 4] /\ f[l + 4 + k + 4] \in Seq(Seq(Bytes))
          BY <1>0, <4>2
        <5>2. SubSeq(s, l + 4, l + 4 + k - 1) \in Seq(Bytes)
          <6>1. \A j \in (l + 4)..(l + 4 + k - 1) : s[j] \in Bytes
            BY <1>0, <4>2
          <6> QED BY <6>1, SubSeqProperties
        <5>3. <<SubSeq(s, l + 4, l + 4 + k - 1)>> \in Seq(Seq(Bytes))
          BY <5>2
        <5>4. <<SubSeq(s, l + 4, l + 4 + k - 1)>> \o f[l + 4 + k + 4] \in Seq(Seq(Bytes))
          BY <5>1, <5>3, ConcatProperties
        <5> QED BY <1>0, <4>2, <5>1, <5>4 DEF FromPayload
      <4> QED BY <1>0, <4>1, <4>2
    <3> QED BY <1>0, <2>1, <2>3, <3>1, <3>2 DEF FromLength
  <2> QED BY <1>0, <2>2, <2>3
<1> QED BY <1>1, <1>2

\* The recursion has a solution: one that holds for the last k positions is continued to
\* one more.
LEMMA DecodedIs ==
  ASSUME NEW s \in Seq(Bytes)
  PROVE  /\ Decoded(s) \in [1..(Len(s) + 8) -> Seq(Seq(Bytes))]
         /\ \A i \in 1..(Len(s) + 8) : Decoded(s)[i] = FromStart(s, Decoded(s), i)
<1> PICK N \in Nat : N = Len(s) + 8
  OBVIOUS
<1> DEFINE Solves(f, k) == /\ f \in [1..N -> Seq(Seq(Bytes))]
                           /\ \A i \in 1..N : i > N - k => f[i] = FromStart(s, f, i)
           Unsolved == {k \in 0..N : \A f : ~Solves(f, k)}
<1>1. Unsolved = {}
  <2> SUFFICES ASSUME Unsolved # {} PROVE FALSE
    OBVIOUS
  <2>1. PICK k \in Unsolved : \A m \in Unsolved : k <= m
    <3>1. Unsolved \subseteq Nat
      OBVIOUS
    <3> QED BY <3>1, LeastOf
  <2>2. CASE k = 0
    <3> DEFINE f == [i \in 1..N |-> <<>>]
    <3>1. f \in [1..N -> Seq(Seq(Bytes))]
      OBVIOUS
    <3> HIDE DEF f
    <3>2. Solves(f, 0)
      BY <3>1
    <3> QED BY <2>1, <2>2, <3>2
  <2>3. CASE k # 0
    <3>1. k \in 1..N /\ k - 1 \in 0..N /\ k - 1 \notin Unsolved
      <4>1. Unsolved \subseteq 0..N
        OBVIOUS
      <4> HIDE DEF Unsolved
      <4> QED BY <2>1, <2>3, <4>1
    <3>2. PICK f : Solves(f, k - 1)
      <4> HIDE DEF Solves
      <4> QED BY <3>1
    <3> PICK i \in 1..N : i = N - k + 1
      BY <3>1
    <3>3. FromStart(s, f, i) \in Seq(Seq(Bytes))
      BY <3>2, LooksAhead
    <3> DEFINE g == [f EXCEPT ![i] = FromStart(s, f, i)]
    <3>4. /\ g \in [1..N -> Seq(Seq(Bytes))] /\ g[i] = FromStart(s, f, i)
          /\ \A j \in 1..N : j # i => g[j] = f[j]
      BY <3>2, <3>3
    <3> HIDE DEF g
    <3>5. ASSUME NEW j \in 1..N, j > N - k PROVE g[j] = FromStart(s, g, j)
      <4>0. j >= i /\ i \in Nat /\ j \in Nat
        BY <3>1, <3>5
      <4>1. \A m \in 1..N : m > j => f[m] = g[m] /\ f[m] \in Seq(Seq(Bytes))
        <5>1. f \in [1..N -> Seq(Seq(Bytes))]
          BY <3>2
        <5> HIDE DEF Solves
        <5>2. ASSUME NEW m \in 1..N, m > j PROVE f[m] = g[m] /\ f[m] \in Seq(Seq(Bytes))
          <6>1. m # i
            BY <4>0, <5>2
          <6> QED BY <3>4, <5>1, <6>1
        <5> QED BY <5>2
      <4>2. FromStart(s, f, j) = FromStart(s, g, j)
        <5> HIDE DEF Solves
        <5> QED BY <4>1, LooksAhead
      <4>3. j # i => f[j] = FromStart(s, f, j)
        BY <3>1, <3>2, <4>0
      <4> QED BY <3>4, <4>2, <4>3
    <3>6. Solves(g, k)
      BY <3>4, <3>5
    <3> HIDE DEF Solves
    <3> QED BY <2>1, <3>6
  <2> QED BY <2>2, <2>3
<1>2. PICK f : Solves(f, N)
  <2>1. N \in 0..N
    OBVIOUS
  <2> HIDE DEF Solves
  <2> QED BY <1>1, <2>1
<1>3. f \in [1..N -> Seq(Seq(Bytes))] /\ \A i \in 1..N : f[i] = FromStart(s, f, i)
  BY <1>2
<1>4. f = [i \in 1..(Len(s) + 8) |-> FromStart(s, f, i)]
  BY <1>3
<1>5. Decoded(s) = [i \in 1..(Len(s) + 8) |-> FromStart(s, Decoded(s), i)]
  BY <1>4, Zenon DEF Decoded
<1>6. \A i \in 1..N : Decoded(s)[i] = FromStart(s, Decoded(s), i)
  BY <1>5, Zenon
<1>7. Decoded(s) = f
  <2> DEFINE Differ == {k \in 0..(N - 1) : Decoded(s)[N - k] # f[N - k]}
  <2>1. Differ = {}
    <3> SUFFICES ASSUME Differ # {} PROVE FALSE
      OBVIOUS
    <3>1. PICK k \in Differ : \A m \in Differ : k <= m
      <4>1. Differ \subseteq Nat
        OBVIOUS
      <4> QED BY <4>1, LeastOf
    <3> PICK i \in 1..N : i = N - k
      BY <3>1
    <3>2. ASSUME NEW j \in 1..N, j > i PROVE f[j] = Decoded(s)[j] /\ f[j] \in Seq(Seq(Bytes))
      <4>1. N - j \in 0..(N - 1) /\ N - j < k /\ N - (N - j) = j /\ k \in Nat
        BY <3>2
      <4>2. N - j \notin Differ
        <5> HIDE DEF Differ
        <5> QED BY <3>1, <4>1
      <4> QED BY <1>3, <4>1, <4>2
    <3>3. FromStart(s, f, i) = FromStart(s, Decoded(s), i)
      BY <3>2, LooksAhead
    <3> QED BY <1>3, <1>6, <3>3
  <2>2. ASSUME NEW i \in 1..N PROVE Decoded(s)[i] = f[i]
    <3>1. N - i \in 0..(N - 1) /\ N - (N - i) = i
      OBVIOUS
    <3> QED BY <2>1, <3>1
  <2>3. Decoded(s) = [i \in 1..N |-> Decoded(s)[i]]
    BY <1>5
  <2> QED BY <1>3, <2>2, <2>3
<1> QED BY <1>3, <1>6, <1>7

\* The bytes of b stand in s after the first p.
Window(s, p, b) ==
  /\ p \in Nat /\ p + Len(b) <= Len(s)
  /\ \A i \in 1..Len(b) : b[i] = s[p + i]

\* A piece of what stands there.
LEMMA WindowPiece ==
  ASSUME NEW s \in Seq(Bytes), NEW b \in Seq(Bytes), NEW p, Window(s, p, b),
         NEW i \in 1..Len(b), NEW j \in i..Len(b)
  PROVE  SubSeq(b, i, j) = SubSeq(s, p + i, p + j)
<1>1. p \in Nat /\ p + Len(b) <= Len(s) /\ \A m \in 1..Len(b) : b[m] = s[p + m]
  BY DEF Window
<1> DEFINE x == SubSeq(b, i, j)
           y == SubSeq(s, p + i, p + j)
<1>2. /\ Len(x) = j - i + 1 /\ x \in Seq(Bytes)
      /\ Len(y) = j - i + 1 /\ y \in Seq(Bytes)
  BY <1>1
<1>3. ASSUME NEW m \in 1..(j - i + 1) PROVE x[m] = y[m]
  <2>1. x[m] = b[i + m - 1]
    BY <1>3
  <2>2. y[m] = s[p + i + m - 1]
    BY <1>1, <1>3
  <2>3. i + m - 1 \in 1..Len(b) /\ p + (i + m - 1) = p + i + m - 1
    BY <1>1, <1>3
  <2> QED BY <1>1, <2>1, <2>2, <2>3
<1> HIDE DEF x, y
<1>4. x = y
  BY <1>2, <1>3, SeqEqual
<1> QED BY <1>4 DEF x, y

\* Bytes erased at the front of it, and bytes added behind the stream.
LEMMA WindowErased ==
  ASSUME NEW s \in Seq(Bytes), NEW b \in Seq(Bytes), NEW p, Window(s, p, b),
         NEW n \in 0..Len(b)
  PROVE  Window(s, p + n, Erase(b, n))
<1>1. p \in Nat /\ p + Len(b) <= Len(s) /\ \A m \in 1..Len(b) : b[m] = s[p + m]
  BY DEF Window
<1>2. Len(Erase(b, n)) = Len(b) - n
  BY Erased
<1>3. ASSUME NEW i \in 1..(Len(b) - n) PROVE Erase(b, n)[i] = s[p + n + i]
  <2>1. Erase(b, n)[i] = b[n + i]
    BY <1>3 DEF Erase
  <2>2. n + i \in 1..Len(b) /\ p + (n + i) = p + n + i
    BY <1>1, <1>3
  <2> QED BY <1>1, <2>1, <2>2
<1> QED BY <1>1, <1>2, <1>3 DEF Window

LEMMA WindowExtended ==
  ASSUME NEW s \in Seq(Bytes), NEW b \in Seq(Bytes), NEW p, Window(s, p, b),
         NEW t \in Seq(Bytes)
  PROVE  /\ s \o t \in Seq(Bytes) /\ Window(s \o t, p, b)
         /\ p + Len(b) = Len(s) => Window(s \o t, p, b \o t)
<1>1. /\ p \in Nat /\ p + Len(b) <= Len(s) /\ Len(s) \in Nat /\ Len(b) \in Nat
      /\ \A m \in 1..Len(b) : b[m] = s[p + m]
  BY DEF Window
<1>2. /\ s \o t \in Seq(Bytes) /\ Len(s \o t) = Len(s) + Len(t)
      /\ \A m \in 1..Len(s) : (s \o t)[m] = s[m]
      /\ Len(b \o t) = Len(b) + Len(t)
  OBVIOUS
<1>3. Window(s \o t, p, b)
  <2>1. ASSUME NEW i \in 1..Len(b) PROVE b[i] = (s \o t)[p + i]
    BY <1>1, <1>2, <2>1
  <2> QED BY <1>1, <1>2, <2>1 DEF Window
<1>4. ASSUME p + Len(b) = Len(s) PROVE Window(s \o t, p, b \o t)
  <2>1. ASSUME NEW i \in 1..(Len(b) + Len(t)) PROVE (b \o t)[i] = (s \o t)[p + i]
    <3>1. CASE i <= Len(b)
      <4>1. (b \o t)[i] = b[i] /\ (s \o t)[p + i] = s[p + i]
        BY <1>1, <3>1
      <4> QED BY <1>1, <3>1, <4>1
    <3>2. CASE i > Len(b)
      <4>1. (b \o t)[i] = t[i - Len(b)]
        BY <3>2
      <4>2. (s \o t)[p + i] = t[p + i - Len(s)]
        BY <1>1, <1>4, <3>2
      <4>3. p + i - Len(s) = i - Len(b)
        BY <1>1, <1>4
      <4> QED BY <4>1, <4>2, <4>3
    <3>3. i <= Len(b) \/ i > Len(b)
      BY <1>1
    <3> QED BY <3>1, <3>2, <3>3, Zenon
  <2> QED BY <1>1, <1>2, <1>4, <2>1 DEF Window
<1> QED BY <1>2, <1>3, <1>4

\* A start marker in the window is one in the stream.
LEMMA WindowStarts ==
  ASSUME NEW s \in Seq(Bytes), NEW b \in Seq(Bytes), NEW p, Window(s, p, b),
         NEW j \in 1..(Len(b) - 3)
  PROVE  j \in Starts(b, 1) <=> p + j \in Starts(s, p + 1)
<1>1. p \in Nat /\ p + Len(b) <= Len(s) /\ j \in Nat \ {0} /\ j + 3 \in Nat /\ j + 3 <= Len(b)
  BY DEF Window
<1>2. SubSeq(b, j, j + 3) = SubSeq(s, p + j, p + (j + 3))
  <2>1. j \in 1..Len(b) /\ j + 3 \in j..Len(b)
    BY <1>1
  <2> QED BY <2>1, WindowPiece, Zenon
<1>3. p + (j + 3) = p + j + 3 /\ p + j \in (p + 1)..(Len(s) - 3)
  BY <1>1
<1> QED BY <1>2, <1>3 DEF Starts

--------------------------------------------------------------------------------
(* The parser reads what Decode reads                                            *)

\* Seeking finds the marker that comes first in the stream.
LEMMA SeekReads ==
  ASSUME NEW s \in Seq(Bytes), NEW b \in Seq(Bytes), NEW p, Window(s, p, b),
         NEW pos \in Starts(b, 1), \A i \in Starts(b, 1) : pos <= i
  PROVE  Decoded(s)[p + 1] = FromLength(s, Decoded(s), p + pos + 4)
<1>1. /\ p \in Nat /\ p + Len(b) <= Len(s) /\ Len(s) \in Nat /\ Len(b) \in Nat
      /\ pos \in 1..(Len(b) - 3)
  BY DEF Window, Starts
<1>2. p + pos \in Starts(s, p + 1)
  BY <1>1, WindowStarts
<1>3. /\ First(Starts(s, p + 1)) \in Starts(s, p + 1)
      /\ First(Starts(s, p + 1)) \in (p + 1)..(Len(s) - 3)
      /\ \A j \in Starts(s, p + 1) : First(Starts(s, p + 1)) <= j
  BY <1>1, <1>2, FirstStart
<1> PICK m \in Nat : m = First(Starts(s, p + 1))
  BY <1>1, <1>3
<1>4. m <= p + pos /\ m >= p + 1
  BY <1>1, <1>2, <1>3
<1>5. m - p \in 1..(Len(b) - 3) /\ p + (m - p) = m
  BY <1>1, <1>4
<1>6. m - p \in Starts(b, 1)
  BY <1>3, <1>5, WindowStarts
<1>7. m = p + pos
  BY <1>1, <1>4, <1>6
<1>8. Decoded(s)[p + 1] = FromStart(s, Decoded(s), p + 1)
  BY <1>1, DecodedIs
<1> QED BY <1>2, <1>7, <1>8 DEF FromStart

\* Where no marker is found, all bytes but three can go.
LEMMA SeekFurtherReads ==
  ASSUME NEW s \in Seq(Bytes), NEW b \in Seq(Bytes), NEW p, Window(s, p, b),
         Starts(b, 1) = {}, NEW n \in Nat, n + 3 = Len(b)
  PROVE  Decoded(s)[p + 1] = Decoded(s)[p + n + 1]
<1>1. p \in Nat /\ p + Len(b) <= Len(s) /\ Len(s) \in Nat /\ Len(b) \in Nat
  BY DEF Window
<1>2. ASSUME NEW j \in Starts(s, p + 1) PROVE j \in Starts(s, p + n + 1)
  <2>1. j \in (p + 1)..(Len(s) - 3) /\ SubSeq(s, j, j + 3) = StartMarker
    BY DEF Starts
  <2>2. CASE j <= p + n
    <3>1. j - p \in 1..(Len(b) - 3) /\ p + (j - p) = j
      BY <1>1, <2>1, <2>2
    <3>2. j - p \in Starts(b, 1)
      BY <3>1, WindowStarts
    <3> QED BY <3>2
  <2>3. CASE j > p + n
    BY <1>1, <2>1, <2>3 DEF Starts
  <2> QED BY <1>1, <2>1, <2>2, <2>3
<1>3. Starts(s, p + n + 1) \subseteq Starts(s, p + 1)
  BY <1>1 DEF Starts
<1>4. Starts(s, p + 1) = Starts(s, p + n + 1)
  BY <1>2, <1>3
<1>5. /\ Decoded(s)[p + 1] = FromStart(s, Decoded(s), p + 1)
      /\ Decoded(s)[p + n + 1] = FromStart(s, Decoded(s), p + n + 1)
  BY <1>1, DecodedIs
<1> QED BY <1>4, <1>5 DEF FromStart

LEMMA LengthReads ==
  ASSUME NEW s \in Seq(Bytes), NEW b \in Seq(Bytes), NEW p, Window(s, p, b),
         Len(b) >= 4
  PROVE  FromLength(s, Decoded(s), p + 1) =
           IF LengthField(b) \in 1..MaxFrameSize
           THEN FromPayload(s, Decoded(s), p + 5, LengthField(b)) ELSE Decoded(s)[p + 5]
<1>1. /\ p \in Nat /\ p + Len(b) <= Len(s) /\ Len(s) \in Nat /\ Len(b) \in Nat
      /\ \A i \in 1..Len(b) : b[i] = s[p + i]
  BY DEF Window
<1> DEFINE l == SubSeq(s, p + 1, p + 1 + 3)
<1>2. ASSUME NEW i \in 1..4 PROVE l[i] = b[i]
  <2>1. l[i] = s[p + 1 + i - 1]
    BY <1>1, <1>2
  <2> QED BY <1>1, <1>2, <2>1
<1>3. LengthField(l) = LengthField(b)
  <2> HIDE DEF l
  <2>1. l[1] = b[1] /\ l[2] = b[2] /\ l[3] = b[3] /\ l[4] = b[4]
    BY <1>2
  <2> QED BY <2>1, Zenon DEF LengthField
<1>4. ~(p + 1 + 4 > Len(s) + 1) /\ p + 1 + 4 = p + 5
  BY <1>1
<1>5. FromLength(s, Decoded(s), p + 1) =
        IF LengthField(l) \notin 1..MaxFrameSize THEN Decoded(s)[p + 1 + 4]
        ELSE FromPayload(s, Decoded(s), p + 1 + 4, LengthField(l))
  BY <1>4, Zenon DEF FromLength
<1> HIDE DEF l
<1>6. CASE LengthField(b) \in 1..MaxFrameSize
  BY <1>3, <1>4, <1>5, <1>6, Zenon
<1>7. CASE LengthField(b) \notin 1..MaxFrameSize
  BY <1>3, <1>4, <1>5, <1>7, Zenon
<1> QED BY <1>6, <1>7

LEMMA PayloadReads ==
  ASSUME NEW s \in Seq(Bytes), NEW b \in Seq(Bytes), NEW p, Window(s, p, b),
         NEW n \in 1..Len(b)
  PROVE  FromPayload(s, Decoded(s), p + 1, n) = <<SubSeq(b, 1, n)>> \o Decoded(s)[p + n + 5]
<1>1. p \in Nat /\ p + Len(b) <= Len(s) /\ Len(s) \in Nat /\ Len(b) \in Nat
  BY DEF Window
<1>2. SubSeq(b, 1, n) = SubSeq(s, p + 1, p + n)
  <2>1. 1 \in 1..Len(b) /\ n \in 1..Len(b)
    BY <1>1
  <2> QED BY <2>1, WindowPiece, Zenon
<1>3. ~(p + 1 + n > Len(s) + 1) /\ p + 1 + n - 1 = p + n /\ p + 1 + n + 4 = p + n + 5
  BY <1>1
<1> QED BY <1>2, <1>3, Zenon DEF FromPayload

--------------------------------------------------------------------------------
(* The inductive invariant                                                       *)

\* What a parser in state st, waiting for n bytes, has still to deliver of the stream s
\* when it has taken p bytes of it.
Owed(s, p, st, n) ==
  IF st = "SEEKING_START" THEN Decoded(s)[p + 1]
  ELSE IF st = "READING_LENGTH" THEN FromLength(s, Decoded(s), p + 1)
  ELSE IF st = "READING_PAYLOAD" THEN FromPayload(s, Decoded(s), p + 1, n)
  ELSE Decoded(s)[p + 5]

\* The bytes the parser has taken out of its buffer.
Taken == Len(received) - Len(buffer)

\* The buffer holds the last bytes received, and however the stream goes on, what is
\* delivered and what is owed are together what the whole of it says.
Follows ==
  /\ Window(received, Taken, buffer)
  /\ \A t \in Seq(Bytes) :
       Decoded(received \o t)[1] =
         delivered \o Owed(received \o t, Taken, parseState, expectedLength)

\* A step that takes n bytes from the buffer keeps it, if what it delivers is what it is
\* no longer owed.
LEMMA Takes ==
  ASSUME TypeOK, Follows, NEW n \in 0..Len(buffer),
         buffer' = Erase(buffer, n), received' = received,
         \A s \in Seq(Bytes) : Window(s, Taken, buffer) =>
           delivered \o Owed(s, Taken, parseState, expectedLength) =
             delivered' \o Owed(s, Taken + n, parseState', expectedLength')
  PROVE  Follows'
<1>1. /\ buffer \in Seq(Bytes) /\ received \in Seq(Bytes)
      /\ Len(buffer) \in Nat /\ Len(received) \in Nat
  BY DEF TypeOK
<1>2. Taken' = Taken + n
  <2>1. Len(Erase(buffer, n)) = Len(buffer) - n
    BY <1>1, Erased
  <2>2. Len(buffer') = Len(buffer) - n /\ Len(received') = Len(received)
    BY <2>1, Zenon
  <2> QED BY <1>1, <2>2 DEF Taken
<1>3. Window(received, Taken, buffer)
  BY DEF Follows
<1>4. Window(received, Taken + n, Erase(buffer, n))
  BY <1>1, <1>3, WindowErased, Zenon
<1>5. Window(received', Taken', buffer')
  BY <1>2, <1>4, Zenon
<1>6. ASSUME NEW t \in Seq(Bytes)
      PROVE  Decoded(received' \o t)[1] =
               delivered' \o Owed(received' \o t, Taken', parseState', expectedLength')
  <2>1. received \o t \in Seq(Bytes) /\ Window(received \o t, Taken, buffer)
    BY <1>1, <1>3, WindowExtended, Zenon
  <2>2. Decoded(received \o t)[1] =
          delivered \o Owed(received \o t, Taken, parseState, expectedLength)
    BY Zenon DEF Follows
  <2>3. delivered \o Owed(received \o t, Taken, parseState, expectedLength) =
          delivered' \o Owed(received \o t, Taken + n, parseState', expectedLength')
    BY <2>1, Zenon
  <2> QED BY <1>2, <2>2, <2>3, Zenon
<1> QED BY <1>5, <1>6, Zenon DEF Follows

\* One step preserves it.
LEMMA FollowsStep == TypeOK /\ NeverOverflows /\ Follows /\ [Next]_vars => Follows'
<1> SUFFICES ASSUME TypeOK, NeverOverflows, Follows, [Next]_vars PROVE Follows'
  OBVIOUS
<1>t. /\ buffer \in Seq(Bytes) /\ received \in Seq(Bytes) /\ wire \in Seq(Bytes)
      /\ Len(buffer) \in Nat /\ Len(received) \in Nat /\ expectedLength \in Nat
      /\ delivered \in Seq(Seq(Bytes))
      /\ parseState = "READING_PAYLOAD" => expectedLength >= 1
  BY DEF TypeOK
<1>u. ASSUME UNCHANGED <<parseState, buffer, expectedLength, delivered, received>>
      PROVE  Follows'
  BY <1>u, Zenon DEF Follows, Taken
<1>n. Taken \in Nat /\ Taken + Len(buffer) = Len(received)
  BY <1>t DEF Follows, Window, Taken
<1>1. CASE RadioSends
  BY <1>1, <1>u DEF RadioSends, Send, SendUnended, SendJunk, parser
<1>2. CASE Reset
  <2>1. /\ parseState' = "SEEKING_START" /\ buffer' = <<>> /\ delivered' = <<>>
        /\ received' = <<>>
    BY <1>2 DEF Reset
  <2>2. Taken' = 0
    BY <2>1 DEF Taken
  <2>3. Window(received', Taken', buffer')
    BY <2>1, <2>2 DEF Window
  <2>4. ASSUME NEW t \in Seq(Bytes)
        PROVE  Decoded(received' \o t)[1] =
                 delivered' \o Owed(received' \o t, Taken', parseState', expectedLength')
    <3>1. received' \o t = t
      BY <2>1
    <3>2. Owed(t, 0, "SEEKING_START", expectedLength') = Decoded(t)[1]
      BY DEF Owed
    <3>3. Decoded(t)[1] \in Seq(Seq(Bytes))
      <4>1. 1 \in 1..(Len(t) + 8)
        BY LenProperties
      <4> QED BY <4>1, DecodedIs
    <3>4. <<>> \o Decoded(t)[1] = Decoded(t)[1]
      BY <3>3
    <3> QED BY <2>1, <2>2, <3>1, <3>2, <3>4, Zenon
  <2> QED BY <2>3, <2>4, Zenon DEF Follows
<1>3. ASSUME NEW n \in 1..MaxRead, Feed(n) PROVE Follows'
  <2> DEFINE r == SubSeq(wire, 1, n)
  <2>1. n \in 0..Len(wire) /\ n \in Nat /\ ~processing /\ MaxFrameSize \in Nat /\ MaxRead \in Nat
    BY <1>3, Framing DEF Feed
  <2>2. r \in Seq(Bytes) /\ Len(r) = n
    BY <1>t, <2>1, Prefix
  <2>3. Len(buffer) + n <= 2 * MaxFrameSize
    BY <1>t, <2>1 DEF NeverOverflows
  <2> HIDE DEF r
  <2>4. Len(buffer \o r) = Len(buffer) + n /\ Len(received \o r) = Len(received) + n
    <3>1. \A x, y \in Seq(Bytes) : Len(x \o y) = Len(x) + Len(y)
      OBVIOUS
    <3> QED BY <1>t, <2>2, <3>1, Zenon
  <2>5. ~(Len(buffer \o r) > 2 * MaxFrameSize)
    BY <1>t, <2>1, <2>3, <2>4
  <2>6. /\ received' = received \o r /\ buffer' = buffer \o r
        /\ UNCHANGED <<parseState, expectedLength, delivered>>
    BY <1>3, <2>5 DEF Feed, r
  <2>7. Taken' = Taken
    BY <1>t, <2>1, <2>4, <2>6 DEF Taken
  <2>8. Window(received', Taken', buffer')
    <3>1. Window(received \o r, Taken, buffer \o r)
      BY <1>t, <1>n, <2>2, WindowExtended DEF Follows
    <3> QED BY <2>6, <2>7, <3>1, Zenon
  <2>9. ASSUME NEW t \in Seq(Bytes)
        PROVE  Decoded(received' \o t)[1] =
                 delivered' \o Owed(received' \o t, Taken', parseState', expectedLength')
    <3>1. r \o t \in Seq(Bytes) /\ (received \o r) \o t = received \o (r \o t)
      <4>1. received \in Seq(Bytes) /\ r \in Seq(Bytes)
        BY <1>t, <2>2
      <4>2. (received \o r) \o t = received \o (r \o t)
        BY <2>9, <4>1, BytesTogether, Zenon
      <4> QED BY <2>9, <4>1, <4>2, ConcatProperties
    <3>2. Decoded(received \o (r \o t))[1] =
            delivered \o Owed(received \o (r \o t), Taken, parseState, expectedLength)
      BY <3>1, Zenon DEF Follows
    <3> QED BY <2>6, <2>7, <3>1, <3>2, Zenon
  <2> QED BY <2>8, <2>9, Zenon DEF Follows
<1>4. CASE Seek
  <2>1. PICK pos \in Starts(buffer, 1) :
          /\ \A i \in Starts(buffer, 1) : pos <= i
          /\ buffer' = Erase(buffer, pos + 3)
    BY <1>4 DEF Seek
  <2>2. /\ parseState = "SEEKING_START" /\ parseState' = "READING_LENGTH"
        /\ delivered' = delivered /\ received' = received
    BY <1>4 DEF Seek, At
  <2>3. pos \in Nat /\ pos + 3 \in 0..Len(buffer)
    BY <1>t DEF Starts
  <2>4. ASSUME NEW s \in Seq(Bytes), Window(s, Taken, buffer)
        PROVE  delivered \o Owed(s, Taken, parseState, expectedLength) =
                 delivered' \o Owed(s, Taken + (pos + 3), parseState', expectedLength')
    <3>1. Decoded(s)[Taken + 1] = FromLength(s, Decoded(s), Taken + pos + 4)
      BY <1>t, <2>1, <2>4, SeekReads
    <3>2. Taken + (pos + 3) + 1 = Taken + pos + 4
      BY <1>n, <2>3
    <3> QED BY <2>2, <3>1, <3>2 DEF Owed
  <2> QED BY <2>1, <2>2, <2>3, <2>4, Takes
<1>5. CASE SeekFurther
  <2>1. /\ parseState = "SEEKING_START" /\ parseState' = parseState
        /\ delivered' = delivered /\ received' = received /\ expectedLength' = expectedLength
        /\ Starts(buffer, 1) = {}
    BY <1>5 DEF SeekFurther, At
  <2>2. CASE Len(buffer) > 3
    <3> DEFINE n == Len(buffer) - 3
    <3>1. buffer' = Erase(buffer, n)
      BY <1>5, <2>2 DEF SeekFurther
    <3>n. n \in Nat /\ n + 3 = Len(buffer) /\ n \in 0..Len(buffer)
      BY <1>t, <2>2
    <3> HIDE DEF n
    <3>2. ASSUME NEW s \in Seq(Bytes), Window(s, Taken, buffer)
          PROVE  delivered \o Owed(s, Taken, parseState, expectedLength) =
                   delivered' \o Owed(s, Taken + n, parseState', expectedLength')
      <4>1. Decoded(s)[Taken + 1] = Decoded(s)[Taken + n + 1]
        <5>1. buffer \in Seq(Bytes) /\ Starts(buffer, 1) = {}
          BY <1>t, <2>1
        <5> QED BY <3>2, <3>n, <5>1, SeekFurtherReads
      <4> QED BY <2>1, <4>1 DEF Owed
    <3> QED BY <2>1, <3>1, <3>2, <3>n, Takes
  <2>3. CASE Len(buffer) <= 3
    <3>1. buffer' = buffer
      BY <1>5, <1>t, <2>3 DEF SeekFurther
    <3> QED BY <1>u, <2>1, <3>1
  <2> QED BY <1>t, <2>2, <2>3
<1>6. CASE ReadLength
  <2>1. /\ parseState = "READING_LENGTH" /\ Len(buffer) >= 4 /\ 4 \in 0..Len(buffer)
        /\ delivered' = delivered /\ received' = received
        /\ buffer' = Erase(buffer, 4) /\ expectedLength' = LengthField(buffer)
        /\ parseState' = IF LengthField(buffer) \in 1..MaxFrameSize THEN "READING_PAYLOAD"
                                                                    ELSE "SEEKING_START"
    BY <1>6, <1>t DEF ReadLength, At
  <2>2. ASSUME NEW s \in Seq(Bytes), Window(s, Taken, buffer)
        PROVE  delivered \o Owed(s, Taken, parseState, expectedLength) =
                 delivered' \o Owed(s, Taken + 4, parseState', expectedLength')
    <3>1. FromLength(s, Decoded(s), Taken + 1) =
            IF LengthField(buffer) \in 1..MaxFrameSize
            THEN FromPayload(s, Decoded(s), Taken + 5, LengthField(buffer))
            ELSE Decoded(s)[Taken + 5]
      BY <1>t, <2>1, <2>2, LengthReads
    <3>2. Taken + 4 + 1 = Taken + 5
      BY <1>n
    <3>3. Owed(s, Taken, parseState, expectedLength) = FromLength(s, Decoded(s), Taken + 1)
      BY <2>1 DEF Owed
    <3>4. CASE LengthField(buffer) \in 1..MaxFrameSize
      <4>1. parseState' = "READING_PAYLOAD"
        BY <2>1, <3>4, Zenon
      <4>2. Owed(s, Taken + 4, parseState', expectedLength') =
              FromPayload(s, Decoded(s), Taken + 5, LengthField(buffer))
        BY <2>1, <3>2, <4>1 DEF Owed
      <4>3. FromLength(s, Decoded(s), Taken + 1) =
              FromPayload(s, Decoded(s), Taken + 5, LengthField(buffer))
        BY <3>1, <3>4, Zenon
      <4> QED BY <2>1, <3>3, <4>2, <4>3, Zenon
    <3>5. CASE LengthField(buffer) \notin 1..MaxFrameSize
      <4>1. parseState' = "SEEKING_START"
        BY <2>1, <3>5, Zenon
      <4>2. Owed(s, Taken + 4, parseState', expectedLength') = Decoded(s)[Taken + 5]
        BY <3>2, <4>1 DEF Owed
      <4>3. FromLength(s, Decoded(s), Taken + 1) = Decoded(s)[Taken + 5]
        BY <3>1, <3>5, Zenon
      <4> QED BY <2>1, <3>3, <4>2, <4>3, Zenon
    <3> QED BY <3>4, <3>5
  <2> QED BY <2>1, <2>2, Takes
<1>7. CASE ReadPayload
  <2>1. /\ parseState = "READING_PAYLOAD" /\ expectedLength \in 1..Len(buffer)
        /\ expectedLength \in 0..Len(buffer)
        /\ delivered' = Append(delivered, SubSeq(buffer, 1, expectedLength))
        /\ received' = received /\ buffer' = Erase(buffer, expectedLength)
        /\ parseState' = "READING_END" /\ expectedLength' = expectedLength
    BY <1>7, <1>t DEF ReadPayload, At
  <2> DEFINE payload == SubSeq(buffer, 1, expectedLength)
  <2>2. payload \in Seq(Bytes)
    BY <1>t, <2>1, Prefix
  <2> HIDE DEF payload
  <2>3. ASSUME NEW s \in Seq(Bytes), Window(s, Taken, buffer)
        PROVE  delivered \o Owed(s, Taken, parseState, expectedLength) =
                 delivered' \o Owed(s, Taken + expectedLength, parseState', expectedLength')
    <3>1. FromPayload(s, Decoded(s), Taken + 1, expectedLength) =
            <<payload>> \o Decoded(s)[Taken + expectedLength + 5]
      <4>1. buffer \in Seq(Bytes) /\ expectedLength \in 1..Len(buffer)
        BY <1>t, <2>1
      <4> QED BY <2>3, <4>1, PayloadReads, SMT DEF payload
    <3>2. Owed(s, Taken, parseState, expectedLength) =
            <<payload>> \o Decoded(s)[Taken + expectedLength + 5]
      BY <2>1, <3>1 DEF Owed
    <3>3. Owed(s, Taken + expectedLength, parseState', expectedLength') =
            Decoded(s)[Taken + expectedLength + 5]
      BY <2>1 DEF Owed
    <3>4. Decoded(s)[Taken + expectedLength + 5] \in Seq(Seq(Bytes))
      <4>1. Taken + expectedLength + 5 \in 1..(Len(s) + 8)
        BY <1>t, <1>n, <2>1, <2>3 DEF Window
      <4> QED BY <4>1, DecodedIs
    <3>5. \A x \in Seq(Seq(Bytes)) : delivered \o (<<payload>> \o x) = Append(delivered, payload) \o x
      <4> SUFFICES ASSUME NEW x \in Seq(Seq(Bytes))
                   PROVE  delivered \o (<<payload>> \o x) = Append(delivered, payload) \o x
        OBVIOUS
      <4>1. <<payload>> \in Seq(Seq(Bytes))
        BY <2>2
      <4>2. Append(delivered, payload) = delivered \o <<payload>>
        BY <1>t, <2>2
      <4>3. (delivered \o <<payload>>) \o x = delivered \o (<<payload>> \o x)
        <5>1. delivered \in Seq(Seq(Bytes)) /\ x \in Seq(Seq(Bytes))
          BY <1>t
        <5> QED BY <4>1, <5>1, Together
      <4> QED BY <4>2, <4>3, Zenon
    <3>6. delivered' = Append(delivered, payload)
      BY <2>1 DEF payload
    <3> QED BY <3>2, <3>3, <3>4, <3>5, <3>6, Zenon
  <2> QED BY <2>1, <2>3, Takes
<1>8. CASE ReadEnd
  <2>1. /\ parseState = "READING_END" /\ 4 \in 0..Len(buffer)
        /\ delivered' = delivered /\ received' = received
        /\ buffer' = Erase(buffer, 4) /\ parseState' = "SEEKING_START"
    BY <1>8, <1>t DEF ReadEnd, At
  <2>2. ASSUME NEW s \in Seq(Bytes), Window(s, Taken, buffer)
        PROVE  delivered \o Owed(s, Taken, parseState, expectedLength) =
                 delivered' \o Owed(s, Taken + 4, parseState', expectedLength')
    <3>1. Taken + 4 + 1 = Taken + 5
      BY <1>n
    <3> QED BY <2>1, <3>1 DEF Owed
  <2> QED BY <2>1, <2>2, Takes
<1>9. CASE Return
  BY <1>9, <1>u DEF Return
<1>10. CASE UNCHANGED vars
  BY <1>10, <1>u DEF vars, parser
<1> QED BY <1>1, <1>2, <1>3, <1>4, <1>5, <1>6, <1>7, <1>8, <1>9, <1>10 DEF Next, Process

\* When feedData() has returned nothing is owed: what is held is too short.
LEMMA NothingOwed ==
  ASSUME TypeOK, Held, Follows, ~processing
  PROVE  Owed(received, Taken, parseState, expectedLength) = <<>>
<1>1. /\ Len(buffer) \in Nat /\ Len(received) \in Nat /\ expectedLength \in Nat
      /\ received \in Seq(Bytes) /\ parseState \in ParseStates
      /\ Taken \in Nat /\ Len(received) = Taken + Len(buffer)
  BY DEF TypeOK, Follows, Window, Taken
<1>2. Len(buffer) <= IF parseState = "READING_PAYLOAD" THEN expectedLength - 1 ELSE 3
  BY DEF Held
<1>3. ASSUME NEW i \in Nat, i > Taken, i <= Len(received) + 8, Len(buffer) <= 3
      PROVE  Decoded(received)[i] = <<>>
  <2>1. i \in 1..(Len(received) + 8) /\ Starts(received, i) = {}
    BY <1>1, <1>3 DEF Starts
  <2> QED BY <1>1, <2>1, DecodedIs DEF FromStart
<1>4. CASE parseState = "SEEKING_START"
  <2>1. Len(buffer) <= 3 /\ Taken + 1 \in Nat /\ Taken + 1 > Taken /\ Taken + 1 <= Len(received) + 8
    BY <1>1, <1>2, <1>4
  <2> QED BY <1>3, <1>4, <2>1 DEF Owed
<1>5. CASE parseState = "READING_LENGTH"
  <2>1. Taken + 1 + 4 > Len(received) + 1
    BY <1>1, <1>2, <1>5
  <2> QED BY <1>5, <2>1 DEF Owed, FromLength
<1>6. CASE parseState = "READING_PAYLOAD"
  <2>1. Taken + 1 + expectedLength > Len(received) + 1
    BY <1>1, <1>2, <1>6
  <2> QED BY <1>6, <2>1 DEF Owed, FromPayload
<1>7. CASE parseState = "READING_END"
  <2>1. Len(buffer) <= 3 /\ Taken + 5 \in Nat /\ Taken + 5 > Taken /\ Taken + 5 <= Len(received) + 8
    BY <1>1, <1>2, <1>7
  <2> QED BY <1>3, <1>7, <2>1 DEF Owed
<1> QED BY <1>1, <1>4, <1>5, <1>6, <1>7 DEF ParseStates

\* What is owed is a list of payloads.
LEMMA OwedType ==
  ASSUME NEW s \in Seq(Bytes), NEW p \in 0..Len(s), NEW st, NEW n \in Nat,
         st = "READING_PAYLOAD" => n >= 1
  PROVE  Owed(s, p, st, n) \in Seq(Seq(Bytes))
<1>1. Len(s) \in Nat /\ p \in Nat /\ <<>> \in Seq(Seq(Bytes))
  OBVIOUS
<1>2. \A i \in 1..(Len(s) + 8) : Decoded(s)[i] \in Seq(Seq(Bytes))
  BY DecodedIs
<1>3. ASSUME NEW l \in Nat, NEW k \in Nat, l >= 1, k >= 1
      PROVE  FromPayload(s, Decoded(s), l, k) \in Seq(Seq(Bytes))
  <2>1. CASE l + k > Len(s) + 1
    BY <1>1, <2>1 DEF FromPayload
  <2>2. CASE l + k <= Len(s) + 1
    <3>1. SubSeq(s, l, l + k - 1) \in Seq(Bytes)
      <4>1. \A j \in l..(l + k - 1) : s[j] \in Bytes
        BY <1>1, <1>3, <2>2
      <4>2. l + k - 1 \in Nat
        BY <1>3
      <4> QED BY <1>3, <4>1, <4>2, SubSeqProperties
    <3>2. Decoded(s)[l + k + 4] \in Seq(Seq(Bytes))
      BY <1>1, <1>2, <1>3, <2>2
    <3>3. \A x \in Seq(Bytes), y \in Seq(Seq(Bytes)) : <<x>> \o y \in Seq(Seq(Bytes))
      OBVIOUS
    <3>4. FromPayload(s, Decoded(s), l, k) = <<SubSeq(s, l, l + k - 1)>> \o Decoded(s)[l + k + 4]
      <4>1. ~(l + k > Len(s) + 1)
        BY <1>1, <1>3, <2>2
      <4> QED BY <4>1, Zenon DEF FromPayload
    <3> QED BY <3>1, <3>2, <3>3, <3>4, Zenon
  <2> QED BY <1>1, <1>3, <2>1, <2>2
<1>4. FromLength(s, Decoded(s), p + 1) \in Seq(Seq(Bytes))
  <2>1. CASE p + 1 + 4 > Len(s) + 1
    BY <1>1, <2>1 DEF FromLength
  <2>2. CASE p + 1 + 4 <= Len(s) + 1
    <3> DEFINE k == LengthField(SubSeq(s, p + 1, p + 1 + 3))
    <3>1. Decoded(s)[p + 1 + 4] \in Seq(Seq(Bytes))
      BY <1>1, <1>2, <2>2
    <3>2. k \in 1..MaxFrameSize => k \in Nat /\ k >= 1
      BY Framing
    <3>3. p + 1 + 4 \in Nat /\ p + 1 + 4 >= 1 /\ ~(p + 1 + 4 > Len(s) + 1)
      BY <1>1, <2>2
    <3>4. k \in 1..MaxFrameSize => FromPayload(s, Decoded(s), p + 1 + 4, k) \in Seq(Seq(Bytes))
      <4> HIDE DEF k
      <4> QED BY <1>3, <3>2, <3>3, Zenon
    <3> QED BY <3>1, <3>3, <3>4, Zenon DEF FromLength
  <2> QED BY <1>1, <2>1, <2>2
<1>5. st = "READING_PAYLOAD" => FromPayload(s, Decoded(s), p + 1, n) \in Seq(Seq(Bytes))
  BY <1>1, <1>3
<1>6. Decoded(s)[p + 1] \in Seq(Seq(Bytes)) /\ Decoded(s)[p + 5] \in Seq(Seq(Bytes))
  BY <1>1, <1>2
<1> QED BY <1>4, <1>5, <1>6, Zenon DEF Owed

\* What comes first is a prefix.
LEMMA ConcatPrefix ==
  ASSUME NEW S, NEW s \in Seq(S), NEW t \in Seq(S)
  PROVE  IsPrefix(s, s \o t)
<1>1. /\ s \o t \in Seq(S) /\ Len(s \o t) = Len(s) + Len(t)
      /\ \A i \in 1..Len(s) : (s \o t)[i] = s[i]
      /\ Len(s) \in Nat /\ Len(t) \in Nat
  OBVIOUS
<1> DEFINE y == SubSeq(s \o t, 1, Len(s))
<1>2. SubSeq(s, 1, Len(s)) = s
  BY Whole
<1>3. /\ y \in Seq(S) /\ Len(y) = Len(s)
      /\ \A i \in 1..Len(s) : y[i] = s[i]
  <2> DEFINE w == s \o t
  <2>1. w \in Seq(S) /\ Len(s) \in 0..Len(w)
    BY <1>1
  <2> HIDE DEF w
  <2>2. /\ SubSeq(w, 1, Len(s)) \in Seq(S) /\ Len(SubSeq(w, 1, Len(s))) = Len(s)
        /\ \A i \in 1..Len(s) : SubSeq(w, 1, Len(s))[i] = w[i]
    BY <2>1
  <2> QED BY <1>1, <2>2 DEF w
<1> HIDE DEF y
<1>4. y = s
  BY <1>3, SeqEqual
<1>5. SubSeq(s, 1, Len(s)) = SubSeq(s \o t, 1, Len(s))
  BY <1>2, <1>4 DEF y
<1> QED BY <1>1, <1>5 DEF IsPrefix

LEMMA FollowsInit == Init => Follows
<1> SUFFICES ASSUME Init PROVE Follows
  OBVIOUS
<1>1. /\ parseState = "SEEKING_START" /\ buffer = <<>> /\ delivered = <<>> /\ received = <<>>
      /\ Taken = 0
  BY DEF Init, Taken
<1>2. Window(received, Taken, buffer)
  BY <1>1 DEF Window
<1>3. ASSUME NEW t \in Seq(Bytes)
      PROVE  Decoded(received \o t)[1] =
               delivered \o Owed(received \o t, Taken, parseState, expectedLength)
  <2>1. received \o t = t /\ Owed(t, 0, "SEEKING_START", expectedLength) = Decoded(t)[1]
    BY <1>1 DEF Owed
  <2>2. Decoded(t)[1] \in Seq(Seq(Bytes))
    <3>1. 1 \in 1..(Len(t) + 8)
      BY LenProperties
    <3> QED BY <3>1, DecodedIs
  <2>3. <<>> \o Decoded(t)[1] = Decoded(t)[1]
    BY <2>2
  <2> QED BY <1>1, <2>1, <2>3, Zenon
<1> QED BY <1>2, <1>3, Zenon DEF Follows

\* For every limit of frames and every stream a radio may send, cut into reads in any
\* way: feedData() has delivered, when it returns, exactly the payloads the stream of this
\* connection holds when read as a whole, and never anything else before that.
THEOREM StreamDecoded == Spec => []DecodesStream
<1>1. Init => Follows
  BY FollowsInit
<1>2. TypeOK /\ Held /\ Follows => DecodesStream
  <2> SUFFICES ASSUME TypeOK, Held, Follows PROVE DecodesStream
    OBVIOUS
  <2> DEFINE owed == Owed(received, Taken, parseState, expectedLength)
  <2>1. owed \in Seq(Seq(Bytes)) /\ delivered \in Seq(Seq(Bytes))
    <3>1. /\ received \in Seq(Bytes) /\ Taken \in 0..Len(received) /\ expectedLength \in Nat
          /\ parseState = "READING_PAYLOAD" => expectedLength >= 1
      BY DEF TypeOK, Follows, Window
    <3> QED BY <3>1, OwedType DEF TypeOK
  <2>2. ~processing => owed = <<>>
    BY NothingOwed
  <2>3. Decode(received) = delivered \o owed
    <3>1. received \o <<>> = received /\ <<>> \in Seq(Bytes)
      BY DEF TypeOK
    <3>2. Decoded(received \o <<>>)[1] =
            delivered \o Owed(received \o <<>>, Taken, parseState, expectedLength)
      BY <3>1, Zenon DEF Follows
    <3> QED BY <3>1, <3>2, DecodeIs, Zenon
  <2> HIDE DEF owed
  <2>4. delivered \o <<>> = delivered
    BY <2>1
  <2>5. IsPrefix(delivered, delivered \o owed)
    BY <2>1, ConcatPrefix
  <2> QED BY <2>2, <2>3, <2>4, <2>5, Zenon DEF DecodesStream
<1>3. Init => Held
  BY DEF Init, Held
<1> QED BY <1>1, <1>2, <1>3, HeldStep, FollowsStep, ParserTypeCorrect, ParserNeverOverflows, PTL
        DEF Spec

--------------------------------------------------------------------------------
(* The frames of an orderly radio                                                *)

\* What InSync is about: four different bytes in a start marker, frames within the limit,
\* whose length four bytes can hold, and between frames either bytes of which none is the
\* last of a start marker, or a start marker with a length that is refused.
RefusedFrame(j) ==
  /\ Len(j) = 8 /\ SubSeq(j, 1, 4) = StartMarker
  /\ LengthField(SubSeq(j, 5, 8)) \notin 1..MaxFrameSize

OrderlyRadio ==
  /\ \A i, j \in 1..4 : StartMarker[i] = StartMarker[j] => i = j
  /\ MaxFrameSize < Base * (Base * (Base * Base))
  /\ \A p \in Payloads : Len(p) <= MaxFrameSize
  /\ \A j \in Junk : RefusedFrame(j) \/ \A i \in 1..Len(j) : j[i] # StartMarker[4]

\* A number and its last digit.
LEMMA Digit ==
  ASSUME NEW B \in Nat \ {0}, NEW n \in Nat
  PROVE  /\ n \div B \in Nat /\ n % B \in Nat /\ n % B < B
         /\ n = (n % B) + B * (n \div B)
OBVIOUS

LEMMA DigitsLeft ==
  ASSUME NEW B \in Nat \ {0}, NEW n \in Nat, NEW c \in Nat, n < B * c
  PROVE  n \div B < c
<1>1. n \div B \in Nat /\ n % B \in Nat /\ n = (n % B) + B * (n \div B)
  BY Digit
<1> DEFINE d == n \div B
<1> HIDE DEF d
<1>2. SUFFICES ASSUME d >= c PROVE FALSE
  BY <1>1 DEF d
<1>3. PICK k \in Nat : d = c + k
  <2>1. d - c \in Nat /\ d = c + (d - c)
    BY <1>1, <1>2 DEF d
  <2> QED BY <2>1
<1>4. B * d = B * c + B * k /\ B * k \in Nat /\ B * c \in Nat
  BY <1>3
<1>5. n >= B * d
  BY <1>1, <1>4 DEF d
<1> QED BY <1>4, <1>5

\* What encode() writes is what READING_LENGTH reads.
LEMMA LengthRoundTrip ==
  ASSUME NEW n \in Nat, n < Base * (Base * (Base * Base))
  PROVE  LengthField(LengthBytes(n)) = n
<1> DEFINE u == n \div Base
           t == u \div Base
           h == t \div Base
<1>0. Base \in Nat \ {0}
  BY Framing
<1>1. Base * Base \in Nat /\ Base * (Base * Base) \in Nat
  BY <1>0
<1>2. u \in Nat /\ n = (n % Base) + Base * u /\ u < Base * (Base * Base)
  BY <1>0, <1>1, Digit, DigitsLeft
<1>3. t \in Nat /\ u = (u % Base) + Base * t /\ t < Base * Base
  <2> HIDE DEF u
  <2> QED BY <1>0, <1>1, <1>2, Digit, DigitsLeft
<1>4. h \in Nat /\ t = (t % Base) + Base * h /\ h < Base
  <2> HIDE DEF u, t
  <2> QED BY <1>0, <1>1, <1>3, Digit, DigitsLeft
<1>5. h % Base = h
  <2> HIDE DEF h
  <2> QED BY <1>0, <1>4
<1>6. LengthBytes(n) = <<h % Base, t % Base, u % Base, n % Base>>
  BY DEF LengthBytes
<1> HIDE DEF u, t, h
<1>7. LengthField(LengthBytes(n)) =
        (n % Base) + Base * ((u % Base) + Base * ((t % Base) + Base * (h % Base)))
  BY <1>6 DEF LengthField
<1> QED BY <1>2, <1>3, <1>4, <1>5, <1>7, Zenon

\* What is put together of two stands where they stand.
LEMMA WindowParts ==
  ASSUME NEW s \in Seq(Bytes), NEW a \in Seq(Bytes), NEW b \in Seq(Bytes),
         NEW p, Window(s, p, a \o b)
  PROVE  Window(s, p, a) /\ Window(s, p + Len(a), b)
<1>1. /\ p \in Nat /\ p + Len(a \o b) <= Len(s) /\ Len(s) \in Nat
      /\ \A m \in 1..Len(a \o b) : (a \o b)[m] = s[p + m]
  BY DEF Window
<1>2. Len(a \o b) = Len(a) + Len(b) /\ Len(a) \in Nat /\ Len(b) \in Nat
  OBVIOUS
<1>3. ASSUME NEW i \in 1..Len(a) PROVE a[i] = s[p + i]
  <2>1. (a \o b)[i] = a[i] /\ i \in 1..Len(a \o b)
    BY <1>2
  <2> QED BY <1>1, <2>1
<1>4. ASSUME NEW i \in 1..Len(b) PROVE b[i] = s[p + Len(a) + i]
  <2>1. (a \o b)[Len(a) + i] = b[i] /\ Len(a) + i \in 1..Len(a \o b)
    BY <1>2
  <2>2. p + (Len(a) + i) = p + Len(a) + i
    BY <1>1, <1>2
  <2> QED BY <1>1, <2>1, <2>2
<1> QED BY <1>1, <1>2, <1>3, <1>4 DEF Window

\* What is added to a stream stands behind it.
LEMMA WindowAdded ==
  ASSUME NEW w \in Seq(Bytes), NEW x \in Seq(Bytes)
  PROVE  w \o x \in Seq(Bytes) /\ Window(w \o x, Len(w), x)
<1>1. Window(w \o x, 0, w \o x)
  BY DEF Window
<1>2. w \o x \in Seq(Bytes) /\ 0 + Len(w) = Len(w)
  OBVIOUS
<1>3. Window(w \o x, 0 + Len(w), x)
  BY <1>1, <1>2, WindowParts
<1> QED BY <1>2, <1>3, Zenon

\* A start marker behind a gap is the first one.
Gap(s, q, m) == \A i \in (q + 1)..m : s[i] # StartMarker[4]

LEMMA MarkerAfterGap ==
  ASSUME OrderlyRadio, NEW s \in Seq(Bytes), NEW m \in Nat, NEW q \in 0..m,
         Gap(s, q, m), Window(s, m, StartMarker)
  PROVE  Decoded(s)[q + 1] = FromLength(s, Decoded(s), m + 5)
<1>1. /\ StartMarker \in Seq(Bytes) /\ Len(StartMarker) = 4
  <2>1. StartMarker \in Seq(Bytes)
    BY FourBytes, Framing
  <2>2. DOMAIN StartMarker = 1..4
    BY Framing
  <2> QED BY <2>1, <2>2, LenProperties
<1>2. /\ m + 4 <= Len(s) /\ Len(s) \in Nat /\ q \in Nat
      /\ \A i \in 1..4 : s[m + i] = StartMarker[i]
  BY <1>1 DEF Window
<1>3. m + 1 \in Starts(s, q + 1)
  <2>1. SubSeq(StartMarker, 1, 4) = SubSeq(s, m + 1, m + 4)
    <3>1. 1 \in 1..Len(StartMarker) /\ 4 \in 1..Len(StartMarker)
      BY <1>1
    <3> QED BY <1>1, <3>1, WindowPiece
  <2>2. SubSeq(StartMarker, 1, 4) = StartMarker
    BY <1>1, Whole
  <2>3. m + 1 \in (q + 1)..(Len(s) - 3) /\ m + 1 + 3 = m + 4
    BY <1>2
  <2> QED BY <2>1, <2>2, <2>3 DEF Starts
<1>4. ASSUME NEW j \in Starts(s, q + 1), j < m + 1 PROVE FALSE
  <2>1. j \in (q + 1)..(Len(s) - 3) /\ SubSeq(s, j, j + 3) = StartMarker /\ j \in Nat
    BY <1>2 DEF Starts
  <2>2. s[j + 3] = StartMarker[4]
    <3>1. SubSeq(s, j, j + 3)[4] = s[j + 3]
      BY <1>2, <2>1
    <3> QED BY <2>1, <3>1, Zenon
  <2>3. CASE j + 3 <= m
    <3>1. j + 3 \in (q + 1)..m
      BY <1>2, <2>1, <2>3
    <3> QED BY <2>2, <3>1 DEF Gap
  <2>4. CASE j + 3 > m
    <3>1. PICK i \in 1..3 : j + 3 = m + i
      <4>1. j + 3 - m \in 1..3 /\ j + 3 = m + (j + 3 - m)
        BY <1>4, <2>1, <2>4
      <4> QED BY <4>1
    <3>2. StartMarker[i] = StartMarker[4]
      BY <1>2, <2>2, <3>1
    <3> QED BY <3>2 DEF OrderlyRadio
  <2> QED BY <2>1, <2>3, <2>4
<1>5. /\ First(Starts(s, q + 1)) \in Starts(s, q + 1)
      /\ First(Starts(s, q + 1)) \in (q + 1)..(Len(s) - 3)
      /\ \A j \in Starts(s, q + 1) : First(Starts(s, q + 1)) <= j
  <2>1. q + 1 \in Nat \ {0}
    BY <1>2
  <2> QED BY <1>3, <2>1, FirstStart
<1>6. First(Starts(s, q + 1)) = m + 1
  <2> PICK k \in Nat : k = First(Starts(s, q + 1))
    BY <1>2, <1>5
  <2>1. k <= m + 1 /\ ~(k < m + 1)
    BY <1>3, <1>4, <1>5
  <2> QED BY <2>1
<1>7. Decoded(s)[q + 1] = FromStart(s, Decoded(s), q + 1)
  <2>1. q + 1 \in 1..(Len(s) + 8)
    BY <1>2
  <2> QED BY <2>1, DecodedIs
<1>8. m + 1 + 4 = m + 5
  OBVIOUS
<1> QED BY <1>3, <1>6, <1>7, <1>8 DEF FromStart

\* No start marker is in a gap at the end of a stream.
LEMMA NoneInGap ==
  ASSUME NEW s \in Seq(Bytes), NEW q \in 0..Len(s), Gap(s, q, Len(s))
  PROVE  Decoded(s)[q + 1] = <<>>
<1>1. ASSUME NEW j \in Starts(s, q + 1) PROVE FALSE
  <2>1. j \in (q + 1)..(Len(s) - 3) /\ SubSeq(s, j, j + 3) = StartMarker
    BY DEF Starts
  <2>2. SubSeq(s, j, j + 3)[4] = s[j + 3]
    BY <2>1
  <2>3. j + 3 \in (q + 1)..Len(s)
    BY <2>1
  <2> QED BY <2>1, <2>2, <2>3, Zenon DEF Gap
<1>2. q + 1 \in 1..(Len(s) + 8)
  OBVIOUS
<1> QED BY <1>1, <1>2, DecodedIs DEF FromStart

\* The bytes of a length are four.
LEMMA FourDigits ==
  ASSUME NEW n \in Nat
  PROVE  LengthBytes(n) \in Seq(Bytes) /\ Len(LengthBytes(n)) = 4
<1>1. \A a, b, c, d : Len(<<a, b, c, d>>) = 4
  OBVIOUS
<1> QED BY <1>1, LengthBytesType, Zenon DEF LengthBytes

\* A frame is read whole, and four bytes more.
LEMMA FrameReads ==
  ASSUME OrderlyRadio, NEW s \in Seq(Bytes), NEW m \in Nat, NEW p \in Payloads,
         Window(s, m, LengthBytes(Len(p)) \o p)
  PROVE  FromLength(s, Decoded(s), m + 1) = <<p>> \o Decoded(s)[m + 4 + Len(p) + 5]
<1> DEFINE b == LengthBytes(Len(p))
<1>1. p \in Seq(Bytes) /\ Len(p) \in Nat /\ Len(p) # 0
  BY Radio, EmptySeq
<1>2. b \in Seq(Bytes) /\ Len(b) = 4
  BY <1>1, FourDigits
<1>3. LengthField(b) = Len(p) /\ Len(p) \in 1..MaxFrameSize
  <2>1. Len(p) <= MaxFrameSize /\ MaxFrameSize \in Nat
    BY Framing DEF OrderlyRadio
  <2>2. MaxFrameSize < Base * (Base * (Base * Base)) /\ Base * (Base * (Base * Base)) \in Nat
    <3>1. Base * Base \in Nat /\ Base \in Nat
      BY Framing
    <3>2. Base * (Base * Base) \in Nat
      BY <3>1
    <3>3. Base * (Base * (Base * Base)) \in Nat
      BY <3>1, <3>2
    <3> QED BY <3>3 DEF OrderlyRadio
  <2>3. Len(p) < Base * (Base * (Base * Base))
    <3> DEFINE large == Base * (Base * (Base * Base))
    <3> HIDE DEF large
    <3>1. MaxFrameSize < large /\ large \in Nat
      BY <2>2 DEF large
    <3>2. Len(p) < large
      BY <1>1, <2>1, <3>1
    <3> QED BY <3>2 DEF large
  <2> QED BY <1>1, <2>1, <2>3, LengthRoundTrip
<1> HIDE DEF b
<1>4. Window(s, m, b) /\ Window(s, m + Len(b), p)
  BY <1>1, <1>2, WindowParts DEF b
<1>5. FromLength(s, Decoded(s), m + 1) = FromPayload(s, Decoded(s), m + 5, Len(p))
  <2>1. Len(b) >= 4
    BY <1>2
  <2> QED BY <1>2, <1>3, <1>4, <2>1, LengthReads
<1>6. FromPayload(s, Decoded(s), m + 4 + 1, Len(p)) =
        <<SubSeq(p, 1, Len(p))>> \o Decoded(s)[m + 4 + Len(p) + 5]
  <2>1. Len(p) \in 1..Len(p) /\ Window(s, m + 4, p)
    BY <1>1, <1>2, <1>4
  <2> QED BY <1>1, <2>1, PayloadReads
<1>7. SubSeq(p, 1, Len(p)) = p
  BY <1>1, Whole
<1>8. m + 4 + 1 = m + 5
  OBVIOUS
<1> QED BY <1>5, <1>6, <1>7, <1>8, Zenon

\* What is no frame for its length is passed over.
LEMMA RefusedReads ==
  ASSUME NEW s \in Seq(Bytes), NEW m \in Nat, NEW j \in Seq(Bytes), RefusedFrame(j),
         Window(s, m, j)
  PROVE  Window(s, m, StartMarker) /\ FromLength(s, Decoded(s), m + 5) = Decoded(s)[m + 9]
<1>1. /\ Len(j) = 8 /\ SubSeq(j, 1, 4) = StartMarker
      /\ LengthField(SubSeq(j, 5, 8)) \notin 1..MaxFrameSize
  BY DEF RefusedFrame
<1> DEFINE a == SubSeq(j, 1, 4)
           b == SubSeq(j, 5, 8)
<1>0. 4 \in 0..Len(j) /\ \A i \in 1..4 : i \in 1..8
  BY <1>1
<1>2. b \in Seq(Bytes) /\ Len(b) = 4 /\ \A i \in 1..4 : b[i] = j[4 + i]
  <2>1. \A i \in 5..8 : j[i] \in Bytes
    <3>1. \A i \in 1..Len(j) : j[i] \in Bytes
      BY ElementOfSeq
    <3>2. \A i \in 5..8 : i \in 1..Len(j)
      BY <1>1
    <3> QED BY <3>1, <3>2, Zenon
  <2>2. b \in Seq(Bytes) /\ Len(b) = 8 - 5 + 1
    BY <2>1, SubSeqProperties
  <2>3. ASSUME NEW i \in 1..4 PROVE b[i] = j[4 + i]
    <3>1. b[i] = j[5 + i - 1] /\ 5 + i - 1 = 4 + i
      OBVIOUS
    <3> QED BY <3>1
  <2> QED BY <2>2, <2>3
<1>a. a \in Seq(Bytes) /\ Len(a) = 4
  BY <1>0, Prefix
<1>b. \A i \in 1..4 : a[i] = j[i]
  BY <1>1
<1> HIDE DEF a, b
<1>3. m + 8 <= Len(s) /\ Len(s) \in Nat /\ \A i \in 1..8 : j[i] = s[m + i]
  BY <1>1 DEF Window
<1>4. Window(s, m, a)
  <2>1. \A i \in 1..4 : a[i] = s[m + i]
    BY <1>0, <1>3, <1>b, Zenon
  <2> QED BY <1>a, <1>3, <2>1 DEF Window
<1>5. Window(s, m + 4, b)
  <2>1. ASSUME NEW i \in 1..4 PROVE b[i] = s[m + 4 + i]
    <3>1. 4 + i \in 1..8 /\ m + (4 + i) = m + 4 + i
      OBVIOUS
    <3> QED BY <1>2, <1>3, <3>1
  <2> QED BY <1>2, <1>3, <2>1 DEF Window
<1>6. LengthField(b) \notin 1..MaxFrameSize /\ Len(b) >= 4
  BY <1>1, <1>2 DEF b
<1>7. FromLength(s, Decoded(s), m + 4 + 1) = Decoded(s)[m + 4 + 5]
  BY <1>2, <1>5, <1>6, LengthReads
<1>8. m + 4 + 1 = m + 5 /\ m + 4 + 5 = m + 9
  OBVIOUS
<1> QED BY <1>1, <1>4, <1>7, <1>8, Zenon DEF a

\* A sequence cut in two.
LEMMA CutTogether ==
  ASSUME NEW S, NEW s \in Seq(S), NEW n \in 0..Len(s)
  PROVE  SubSeq(s, 1, n) \o Erase(s, n) = s
<1> DEFINE a == SubSeq(s, 1, n)
           b == Erase(s, n)
<1>1. a \in Seq(S) /\ Len(a) = n /\ \A i \in 1..n : a[i] = s[i]
  BY Prefix
<1>2. b \in Seq(S) /\ Len(b) = Len(s) - n /\ \A i \in 1..(Len(s) - n) : b[i] = s[n + i]
  <2>1. ASSUME NEW i \in 1..(Len(s) - n) PROVE b[i] = s[n + i]
    BY DEF Erase
  <2> QED BY <2>1, Erased
<1> HIDE DEF a, b
<1>3. a \o b \in Seq(S) /\ Len(a \o b) = Len(s) /\ Len(s) \in Nat /\ n \in Nat
  BY <1>1, <1>2
<1>4. ASSUME NEW i \in 1..Len(s) PROVE (a \o b)[i] = s[i]
  <2>1. CASE i <= n
    BY <1>1, <1>2, <2>1
  <2>2. CASE i > n
    <3>1. (a \o b)[i] = b[i - n]
      BY <1>1, <1>2, <2>2
    <3>2. i - n \in 1..(Len(s) - n) /\ n + (i - n) = i
      BY <1>3, <2>2
    <3> QED BY <1>2, <3>1, <3>2
  <2> QED BY <1>3, <2>1, <2>2
<1>5. a \o b = s
  BY <1>3, <1>4, SeqEqual
<1> QED BY <1>5 DEF a, b

\* All the bytes of this connection.
Stream == received \o wire

\* However the stream goes on, as long as it is orderly the frames that are complete are
\* those sent, and behind the last of them there is no start marker, nor the end of one.
Framed == orderly =>
  \E q \in 0..Len(Stream) :
    /\ Gap(Stream, q, Len(Stream))
    /\ \A t \in Seq(Bytes) : Decoded(Stream \o t)[1] = sent \o Decoded(Stream \o t)[q + 1]

\* The bytes of a frame and of a refused one leave no gap.
LEMMA Behind ==
  ASSUME NEW w \in Seq(Bytes), NEW x \in Seq(Bytes), NEW t \in Seq(Bytes),
         NEW q \in 0..Len(w), Gap(w, q, Len(w))
  PROVE  /\ (w \o x) \o t \in Seq(Bytes) /\ w \o x \in Seq(Bytes)
         /\ (w \o x) \o t = w \o (x \o t) /\ x \o t \in Seq(Bytes)
         /\ Window((w \o x) \o t, Len(w), x)
         /\ Gap((w \o x) \o t, q, Len(w))
         /\ Len(w \o x) = Len(w) + Len(x) /\ Len(w) \in Nat /\ Len(x) \in Nat
<1>1. /\ w \o x \in Seq(Bytes) /\ x \o t \in Seq(Bytes) /\ Len(w \o x) = Len(w) + Len(x)
      /\ Len(w) \in Nat /\ Len(x) \in Nat
  OBVIOUS
<1>2. (w \o x) \o t \in Seq(Bytes) /\ (w \o x) \o t = w \o (x \o t)
  <2>1. \A y, z \in Seq(Bytes) : y \o z \in Seq(Bytes)
    BY ConcatProperties
  <2> QED BY <1>1, <2>1, Together
<1>3. Window((w \o x) \o t, Len(w), x)
  <2>1. Window(w \o x, Len(w), x)
    BY WindowAdded
  <2> QED BY <1>1, <2>1, WindowExtended
<1>4. \A i \in 1..Len(w) : (w \o (x \o t))[i] = w[i]
  BY <1>1
<1>5. Gap((w \o x) \o t, q, Len(w))
  <2>1. \A i \in (q + 1)..Len(w) : i \in 1..Len(w)
    BY <1>1
  <2> QED BY <1>2, <1>4, <2>1, Zenon DEF Gap
<1> QED BY <1>1, <1>2, <1>3, <1>5, Zenon

\* One step preserves it.
LEMMA FramedSame ==
  ASSUME Framed, Stream' = Stream, sent' = sent, orderly' = orderly
  PROVE  Framed'
BY Zenon DEF Framed

LEMMA FramedSend ==
  ASSUME OrderlyRadio, TypeOK, Framed, NEW p \in Payloads, NEW ending \in Endings,
         Send(p, ending)
  PROVE  Framed'
<1> SUFFICES ASSUME orderly' PROVE Framed'
  BY DEF Framed
<1> DEFINE b == LengthBytes(Len(p))
           x == (StartMarker \o (b \o p)) \o ending
           w == Stream
<1>0. /\ p \in Seq(Bytes) /\ ending \in Seq(Bytes) /\ StartMarker \in Seq(Bytes)
      /\ Len(StartMarker) = 4 /\ Len(ending) = 4 /\ Len(p) \in Nat
  <2>1. p \in Seq(Bytes) /\ ending \in [1..4 -> Bytes] /\ StartMarker \in [1..4 -> Bytes]
    BY Framing, Radio
  <2>2. ending \in Seq(Bytes) /\ StartMarker \in Seq(Bytes)
    BY <2>1, FourBytes
  <2>3. DOMAIN ending = 1..4 /\ DOMAIN StartMarker = 1..4
    BY <2>1
  <2> QED BY <2>1, <2>2, <2>3, LenProperties
<1>1. b \in Seq(Bytes) /\ Len(b) = 4
  BY <1>0, FourDigits
<1>2. w \in Seq(Bytes) /\ wire \in Seq(Bytes) /\ received \in Seq(Bytes)
  BY DEF TypeOK, Stream
<1>3. \A y, z \in Seq(Bytes) : y \o z \in Seq(Bytes) /\ Len(y \o z) = Len(y) + Len(z)
  BY ConcatProperties
<1> HIDE DEF b
<1>4. b \o p \in Seq(Bytes) /\ Len(b \o p) = 4 + Len(p)
  BY <1>0, <1>1, <1>3
<1>5. /\ StartMarker \o (b \o p) \in Seq(Bytes)
      /\ Len(StartMarker \o (b \o p)) = 4 + (4 + Len(p))
  BY <1>0, <1>3, <1>4
<1>6. x \in Seq(Bytes) /\ Len(x) = 12 + Len(p)
  <2>1. x \in Seq(Bytes) /\ Len(x) = 4 + (4 + Len(p)) + 4
    BY <1>0, <1>3, <1>5
  <2> QED BY <1>0, <2>1
<1>7. Stream' = w \o x
  <2>1. received' = received /\ wire' = wire \o StartMarker \o b \o p \o ending
    BY DEF Send, b
  <2> DEFINE T == Seq(Bytes)
             m == StartMarker
             u == b \o p
             v == m \o u
  <2>2. \A y, z, k \in T : (y \o z) \o k = y \o (z \o k)
    BY ConcatAssociative
  <2>3. m \in T /\ wire \o m \in T
    BY <1>0, <1>2, <1>3
  <2>4. ((wire \o m) \o b) \o p = (wire \o m) \o u
    <3>1. wire \o m \in T /\ b \in T /\ p \in T
      BY <1>0, <1>1, <2>3
    <3> HIDE DEF T, m
    <3> QED BY <2>2, <3>1, Zenon
  <2>5. (wire \o m) \o u = wire \o v
    <3>1. wire \in T /\ m \in T /\ u \in T
      BY <1>2, <1>4, <2>3
    <3> HIDE DEF T, m, u
    <3> QED BY <2>2, <3>1, Zenon
  <2>6. (wire \o v) \o ending = wire \o x
    <3>1. wire \in T /\ v \in T /\ ending \in T
      BY <1>0, <1>2, <1>5
    <3>2. (wire \o v) \o ending = wire \o (v \o ending)
      <4> HIDE DEF T, m, u, v
      <4> QED BY <2>2, <3>1, Zenon
    <3> QED BY <3>2
  <2>7. received \o (wire \o x) = (received \o wire) \o x
    <3>1. received \in T /\ wire \in T /\ x \in T
      BY <1>2, <1>6
    <3> HIDE DEF T, m, x
    <3> QED BY <2>2, <3>1, Zenon
  <2> QED BY <2>1, <2>4, <2>5, <2>6, <2>7, Zenon DEF Stream
<1>8. PICK q \in 0..Len(w) :
        /\ Gap(w, q, Len(w))
        /\ \A t \in Seq(Bytes) : Decoded(w \o t)[1] = sent \o Decoded(w \o t)[q + 1]
  <2>1. orderly
    BY DEF Send
  <2> QED BY <2>1 DEF Framed
<1> HIDE DEF x, w
<1>9. Len(w \o x) = Len(w) + (12 + Len(p)) /\ Len(w) \in Nat /\ w \o x \in Seq(Bytes)
  <2>1. Len(w \o x) = Len(w) + Len(x) /\ w \o x \in Seq(Bytes)
    BY <1>2, <1>3, <1>6, Zenon
  <2> QED BY <1>2, <1>6, <2>1, LenProperties
<1>10. ASSUME NEW t \in Seq(Bytes)
       PROVE  Decoded((w \o x) \o t)[1] = sent' \o Decoded((w \o x) \o t)[Len(w \o x) + 1]
  <2> DEFINE s == (w \o x) \o t
  <2>1. /\ s \in Seq(Bytes) /\ s = w \o (x \o t) /\ x \o t \in Seq(Bytes)
        /\ Window(s, Len(w), x) /\ Gap(s, q, Len(w))
    <3>1. w \in Seq(Bytes) /\ x \in Seq(Bytes) /\ q \in 0..Len(w) /\ Gap(w, q, Len(w))
      BY <1>2, <1>6, <1>8
    <3> QED BY <1>10, <3>1, Behind
  <2>2. Decoded(s)[1] = sent \o Decoded(s)[q + 1]
    BY <1>8, <2>1, Zenon
  <2> HIDE DEF s
  <2>3. Window(s, Len(w), StartMarker \o (b \o p))
    BY <1>0, <1>5, <2>1, WindowParts DEF x
  <2>4. Window(s, Len(w), StartMarker) /\ Window(s, Len(w) + 4, b \o p)
    <3>1. Window(s, Len(w) + Len(StartMarker), b \o p) /\ Window(s, Len(w), StartMarker)
      BY <1>0, <1>4, <2>1, <2>3, WindowParts
    <3> QED BY <1>0, <3>1, Zenon
  <2>5. Decoded(s)[q + 1] = FromLength(s, Decoded(s), Len(w) + 5)
    BY <1>8, <1>9, <2>1, <2>4, MarkerAfterGap
  <2>6. FromLength(s, Decoded(s), Len(w) + 4 + 1) =
          <<p>> \o Decoded(s)[Len(w) + 4 + 4 + Len(p) + 5]
    <3>1. Len(w) + 4 \in Nat
      BY <1>9
    <3> QED BY <2>1, <2>4, <3>1, FrameReads DEF b
  <2>7. /\ Len(w) + 4 + 1 = Len(w) + 5
        /\ Len(w) + 4 + 4 + Len(p) + 5 = Len(w \o x) + 1
    BY <1>0, <1>9
  <2>8. Decoded(s)[Len(w \o x) + 1] \in Seq(Seq(Bytes))
    <3>1. Len(s) = Len(w) + Len(x \o t) /\ Len(x \o t) = Len(x) + Len(t)
      BY <1>2, <1>3, <1>6, <1>10, <2>1, Zenon
    <3>t. Len(t) \in Nat
      BY <1>10, LenProperties
    <3>2. Len(w \o x) + 1 \in 1..(Len(s) + 8)
      BY <1>0, <1>6, <1>9, <3>1, <3>t
    <3> QED BY <2>1, <3>2, DecodedIs
  <2>9. sent \in Seq(Seq(Bytes)) /\ sent' = Append(sent, p)
    BY DEF TypeOK, Send
  <2>10. \A y \in Seq(Seq(Bytes)) : sent \o (<<p>> \o y) = Append(sent, p) \o y
    <3> SUFFICES ASSUME NEW y \in Seq(Seq(Bytes))
                 PROVE  sent \o (<<p>> \o y) = Append(sent, p) \o y
      OBVIOUS
    <3>1. <<p>> \in Seq(Seq(Bytes))
      BY <1>0
    <3>2. Append(sent, p) = sent \o <<p>>
      BY <1>0, <2>9
    <3>3. (sent \o <<p>>) \o y = sent \o (<<p>> \o y)
      BY <2>9, <3>1, Together
    <3> QED BY <3>2, <3>3, Zenon
  <2>11. Decoded(s)[1] = sent' \o Decoded(s)[Len(w \o x) + 1]
    BY <2>2, <2>5, <2>6, <2>7, <2>8, <2>9, <2>10, Zenon
  <2> QED BY <2>11 DEF s
<1>11. Gap(w \o x, Len(w \o x), Len(w \o x)) /\ Len(w \o x) \in 0..Len(w \o x)
  <2>1. Len(w \o x) \in Nat
    BY <1>9, LenProperties
  <2> QED BY <2>1 DEF Gap
<1> QED BY <1>7, <1>10, <1>11, Zenon DEF Framed

LEMMA FramedJunk ==
  ASSUME OrderlyRadio, TypeOK, Framed, NEW j \in Junk, SendJunk(j)
  PROVE  Framed'
<1> SUFFICES ASSUME orderly' PROVE Framed'
  BY DEF Framed
<1> DEFINE w == Stream
<1>1. j \in Seq(Bytes) /\ w \in Seq(Bytes) /\ Len(j) \in Nat /\ Len(w) \in Nat
  BY Radio DEF TypeOK, Stream
<1>2. Stream' = w \o j /\ sent' = sent
  <2>1. received \in Seq(Bytes) /\ wire \in Seq(Bytes)
    BY DEF TypeOK
  <2>2. received \o (wire \o j) = (received \o wire) \o j
    <3>1. j \in Seq(Bytes)
      BY <1>1
    <3> QED BY <2>1, <3>1, BytesTogether, Zenon
  <2> QED BY <2>2 DEF SendJunk, Stream
<1>3. PICK q \in 0..Len(w) :
        /\ Gap(w, q, Len(w))
        /\ \A t \in Seq(Bytes) : Decoded(w \o t)[1] = sent \o Decoded(w \o t)[q + 1]
  <2>1. orderly
    BY DEF SendJunk
  <2> QED BY <2>1 DEF Framed
<1> HIDE DEF w
<1>4. /\ w \o j \in Seq(Bytes) /\ Len(w \o j) = Len(w) + Len(j)
      /\ \A i \in 1..Len(w) : (w \o j)[i] = w[i]
      /\ \A i \in 1..Len(j) : (w \o j)[Len(w) + i] = j[i]
  BY <1>1
<1>5. ASSUME NEW t \in Seq(Bytes)
      PROVE  /\ (w \o j) \o t \in Seq(Bytes)
             /\ Window((w \o j) \o t, Len(w), j) /\ Gap((w \o j) \o t, q, Len(w))
             /\ Decoded((w \o j) \o t)[1] = sent \o Decoded((w \o j) \o t)[q + 1]
  <2>1. /\ (w \o j) \o t \in Seq(Bytes)
        /\ (w \o j) \o t = w \o (j \o t) /\ j \o t \in Seq(Bytes)
        /\ Window((w \o j) \o t, Len(w), j) /\ Gap((w \o j) \o t, q, Len(w))
    BY <1>1, <1>3, <1>5, Behind
  <2> QED BY <1>3, <2>1, Zenon
<1>6. CASE RefusedFrame(j)
  <2>1. ASSUME NEW t \in Seq(Bytes)
        PROVE  Decoded((w \o j) \o t)[1] = sent' \o Decoded((w \o j) \o t)[Len(w \o j) + 1]
    <3> DEFINE s == (w \o j) \o t
    <3>1. /\ s \in Seq(Bytes) /\ Window(s, Len(w), j) /\ Gap(s, q, Len(w))
          /\ Decoded(s)[1] = sent \o Decoded(s)[q + 1]
      BY <1>5, <2>1
    <3> HIDE DEF s
    <3>2. Window(s, Len(w), StartMarker) /\ FromLength(s, Decoded(s), Len(w) + 5) = Decoded(s)[Len(w) + 9]
      BY <1>1, <1>6, <3>1, RefusedReads
    <3>3. Decoded(s)[q + 1] = FromLength(s, Decoded(s), Len(w) + 5)
      BY <1>1, <1>3, <3>1, <3>2, MarkerAfterGap
    <3>4. Len(w) + 9 = Len(w \o j) + 1
      BY <1>1, <1>4, <1>6 DEF RefusedFrame
    <3>5. Decoded(s)[1] = sent' \o Decoded(s)[Len(w \o j) + 1]
      BY <1>2, <3>1, <3>2, <3>3, <3>4, Zenon
    <3> QED BY <3>5 DEF s
  <2>2. Gap(w \o j, Len(w \o j), Len(w \o j)) /\ Len(w \o j) \in 0..Len(w \o j)
    <3>1. Len(w \o j) \in Nat
      BY <1>1, <1>4
    <3> QED BY <3>1 DEF Gap
  <2> QED BY <1>2, <2>1, <2>2, Zenon DEF Framed
<1>7. CASE \A i \in 1..Len(j) : j[i] # StartMarker[4]
  <2>1. Gap(w \o j, q, Len(w \o j))
    <3>1. ASSUME NEW i \in (q + 1)..Len(w \o j) PROVE (w \o j)[i] # StartMarker[4]
      <4>1. CASE i <= Len(w)
        <5>1. i \in 1..Len(w) /\ i \in (q + 1)..Len(w)
          BY <1>1, <1>4, <3>1, <4>1
        <5>2. (w \o j)[i] = w[i] /\ w[i] # StartMarker[4]
          BY <1>3, <1>4, <5>1, Zenon DEF Gap
        <5> QED BY <5>2
      <4>2. CASE i > Len(w)
        <5>1. i - Len(w) \in 1..Len(j) /\ Len(w) + (i - Len(w)) = i
          BY <1>1, <1>4, <3>1, <4>2
        <5>2. (w \o j)[i] = j[i - Len(w)]
          BY <1>4, <5>1
        <5> QED BY <1>7, <5>1, <5>2, Zenon
      <4> QED BY <1>1, <1>4, <3>1, <4>1, <4>2
    <3> QED BY <3>1 DEF Gap
  <2>2. q \in 0..Len(w \o j)
    BY <1>1, <1>4
  <2> QED BY <1>2, <1>5, <2>1, <2>2, Zenon DEF Framed
<1> QED BY <1>6, <1>7 DEF OrderlyRadio

LEMMA FramedStep ==
  ASSUME OrderlyRadio
  PROVE  TypeOK /\ Framed /\ [Next]_vars => Framed'
<1> SUFFICES ASSUME TypeOK, Framed, [Next]_vars PROVE Framed'
  OBVIOUS
<1>1. ASSUME NEW p \in Payloads, NEW e \in Endings, Send(p, e) PROVE Framed'
  BY <1>1, FramedSend
<1>2. ASSUME NEW p \in Payloads, SendUnended(p) PROVE Framed'
  <2>1. ~orderly'
    BY <1>2 DEF SendUnended
  <2> QED BY <2>1, Zenon DEF Framed
<1>3. ASSUME NEW j \in Junk, SendJunk(j) PROVE Framed'
  BY <1>3, FramedJunk
<1>4. CASE Reset
  <2>1. received' = <<>> /\ wire' = <<>> /\ sent' = <<>>
    BY <1>4 DEF Reset
  <2>2. Stream' = <<>> /\ Len(Stream') = 0
    BY <2>1 DEF Stream
  <2>3. 0 \in 0..Len(Stream') /\ Gap(Stream', 0, Len(Stream'))
    BY <2>2 DEF Gap
  <2>4. ASSUME NEW t \in Seq(Bytes)
        PROVE  Decoded(Stream' \o t)[1] = sent' \o Decoded(Stream' \o t)[0 + 1]
    <3>1. Stream' \o t = t /\ 0 + 1 = 1
      BY <2>2
    <3>2. Decoded(t)[1] \in Seq(Seq(Bytes))
      <4>1. 1 \in 1..(Len(t) + 8)
        BY LenProperties
      <4> QED BY <4>1, DecodedIs
    <3>3. <<>> \o Decoded(t)[1] = Decoded(t)[1]
      BY <3>2
    <3> QED BY <2>1, <3>1, <3>3, Zenon
  <2> QED BY <2>3, <2>4, Zenon DEF Framed
<1>5. ASSUME NEW n \in 1..MaxRead, Feed(n) PROVE Framed'
  <2>1. /\ received' = received \o SubSeq(wire, 1, n) /\ wire' = Erase(wire, n)
        /\ sent' = sent /\ orderly' = orderly /\ n \in 0..Len(wire)
    BY <1>5, Framing DEF Feed
  <2>2. received \in Seq(Bytes) /\ wire \in Seq(Bytes)
    BY DEF TypeOK
  <2>3. SubSeq(wire, 1, n) \o Erase(wire, n) = wire
    BY <2>1, <2>2, CutTogether
  <2>4. SubSeq(wire, 1, n) \in Seq(Bytes) /\ Erase(wire, n) \in Seq(Bytes)
    BY <2>1, <2>2, Prefix, Erased
  <2>5. (received \o SubSeq(wire, 1, n)) \o Erase(wire, n) =
          received \o (SubSeq(wire, 1, n) \o Erase(wire, n))
    <3> DEFINE a == SubSeq(wire, 1, n)
               b == Erase(wire, n)
    <3>1. a \in Seq(Bytes) /\ b \in Seq(Bytes)
      BY <2>4
    <3> HIDE DEF a, b
    <3>2. (received \o a) \o b = received \o (a \o b)
      BY <2>2, <3>1, BytesTogether, Zenon
    <3> QED BY <3>2 DEF a, b
  <2>6. Stream' = Stream
    BY <2>1, <2>3, <2>5, Zenon DEF Stream
  <2> QED BY <2>1, <2>6, FramedSame
<1>6. CASE Process
  BY <1>6, FramedSame
     DEF Process, Seek, SeekFurther, ReadLength, ReadPayload, ReadEnd, Return, peer, Stream
<1>7. CASE UNCHANGED vars
  BY <1>7, FramedSame DEF vars, peer, Stream
<1> QED BY <1>1, <1>2, <1>3, <1>4, <1>5, <1>6, <1>7 DEF Next, RadioSends

\* For every orderly radio, however TCP cuts what it sends: while nothing but whole frames
\* and harmless bytes between them is sent, feedData() delivers the payloads of these frames
\* in their order and nothing else, and when everything has been read, each of those that
\* end in their end marker, whatever stands in place of it in others.
THEOREM OrderlyInSync ==
  ASSUME OrderlyRadio
  PROVE  Spec => []InSync
<1>1. Init => Follows /\ Framed
  <2> SUFFICES ASSUME Init PROVE Follows /\ Framed
    OBVIOUS
  <2>1. received = <<>> /\ wire = <<>> /\ sent = <<>> /\ Stream = <<>> /\ Len(Stream) = 0
    BY DEF Init, Stream
  <2>2. ASSUME NEW t \in Seq(Bytes)
        PROVE  Decoded(Stream \o t)[1] = sent \o Decoded(Stream \o t)[0 + 1]
    <3>1. Stream \o t = t /\ 0 + 1 = 1
      BY <2>1
    <3>2. Decoded(t)[1] \in Seq(Seq(Bytes))
      <4>1. 1 \in 1..(Len(t) + 8)
        BY LenProperties
      <4> QED BY <4>1, DecodedIs
    <3>3. <<>> \o Decoded(t)[1] = Decoded(t)[1]
      BY <3>2
    <3> QED BY <2>1, <3>1, <3>3, Zenon
  <2>3. 0 \in 0..Len(Stream) /\ Gap(Stream, 0, Len(Stream))
    BY <2>1 DEF Gap
  <2>4. Framed
    BY <2>2, <2>3, Zenon DEF Framed
  <2> QED BY <2>4, FollowsInit
<1>2. TypeOK /\ Follows /\ Framed /\ DecodesStream => InSync
  <2> SUFFICES ASSUME TypeOK, Follows, Framed, DecodesStream, orderly
               PROVE  InSync
    BY DEF InSync
  <2> DEFINE owed == Owed(Stream, Taken, parseState, expectedLength)
  <2>0. /\ Stream \in Seq(Bytes) /\ received \in Seq(Bytes) /\ wire \in Seq(Bytes)
        /\ sent \in Seq(Seq(Bytes)) /\ delivered \in Seq(Seq(Bytes)) /\ <<>> \in Seq(Bytes)
        /\ Len(Stream) = Len(received) + Len(wire)
        /\ Taken \in 0..Len(received) /\ expectedLength \in Nat
        /\ parseState = "READING_PAYLOAD" => expectedLength >= 1
    BY DEF TypeOK, Stream, Follows, Window
  <2>1. PICK q \in 0..Len(Stream) :
          /\ Gap(Stream, q, Len(Stream))
          /\ \A t \in Seq(Bytes) : Decoded(Stream \o t)[1] = sent \o Decoded(Stream \o t)[q + 1]
    BY Zenon DEF Framed
  <2>2. Decoded(Stream)[1] = sent
    <3>1. Stream \o <<>> = Stream
      BY <2>0
    <3>2. Decoded(Stream)[1] = sent \o Decoded(Stream)[q + 1]
      BY <2>0, <2>1, <3>1, Zenon
    <3>3. Decoded(Stream)[q + 1] = <<>>
      BY <2>0, <2>1, NoneInGap
    <3>4. sent \o <<>> = sent
      BY <2>0
    <3> QED BY <3>2, <3>3, <3>4, Zenon
  <2>3. Decoded(Stream)[1] = delivered \o owed
    BY <2>0, Zenon DEF Follows, Stream
  <2>4. owed \in Seq(Seq(Bytes))
    <3>1. Taken \in 0..Len(Stream)
      BY <2>0, LenProperties
    <3> QED BY <2>0, <3>1, OwedType
  <2> HIDE DEF owed
  <2>5. DOMAIN delivered \subseteq DOMAIN sent /\ \A i \in DOMAIN delivered : delivered[i] = sent[i]
    BY <2>0, <2>2, <2>3, <2>4
  <2>6. ASSUME ~processing, wire = <<>> PROVE delivered = sent
    <3>1. Stream = received
      BY <2>0, <2>6 DEF Stream
    <3>2. delivered = Decode(received)
      BY <2>6, Zenon DEF DecodesStream
    <3> QED BY <2>2, <3>1, <3>2, DecodeIs, Zenon
  \* The payload delivered as the i-th came in the i-th frame.
  <2> DEFINE f == [i \in DOMAIN delivered |-> i]
  <2>7. f \in [DOMAIN delivered -> DOMAIN sent] /\ Picks(f)
    BY <2>5 DEF Picks
  <2>8. ASSUME ~processing, wire = <<>>, NEW n \in DOMAIN sent PROVE \E i \in DOMAIN f : f[i] = n
    BY <2>6, <2>8
  <2> HIDE DEF f
  <2> QED BY <2>7, <2>8, Zenon DEF InSync
<1>3. TypeOK /\ Framed /\ [Next]_vars => Framed'
  BY FramedStep
<1> QED BY <1>1, <1>2, <1>3, FollowsStep, ParserTypeCorrect, ParserNeverOverflows, StreamDecoded,
           PTL DEF Spec

================================================================================
