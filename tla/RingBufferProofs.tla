---------------------------- MODULE RingBufferProofs ----------------------------
(* For every capacity and every range of the positions that is a multiple of    *)
(* it: the two sides of a ring buffer stay within what the other has published  *)
(* and never touch the same slot at the same time.                              *)
EXTENDS RingBuffer, SequenceTheorems, TLAPS

--------------------------------------------------------------------------------
(* Positions modulo their range, and slots modulo the capacity                  *)

\* The difference of two positions, as size_t arithmetic gives it.
LEMMA Difference ==
  ASSUME NEW M \in Nat \ {0}, NEW a \in 0..(M - 1), NEW b \in 0..(M - 1)
  PROVE  (a - b) % M = IF a >= b THEN a - b ELSE a - b + M
OBVIOUS

\* A position moved on by less than the range.
LEMMA Advance ==
  ASSUME NEW M \in Nat \ {0}, NEW a \in 0..(M - 1), NEW n \in 0..(M - 1)
  PROVE  (a + n) % M = IF a + n < M THEN a + n ELSE a + n - M
OBVIOUS

\* A number is a multiple of the capacity and its slot.
LEMMA Split ==
  ASSUME NEW C \in Nat \ {0}, NEW x \in Nat
  PROVE  \E q \in Nat : x = q * C + (x % C) /\ x % C \in 0..(C - 1)
<1>1. x % C \in 0..(C - 1)
  OBVIOUS
<1>2. x \div C \in Nat
  OBVIOUS
<1>3. x = C * (x \div C) + (x % C)
  OBVIOUS
<1>4. \A q \in Nat : C * q = q * C
  OBVIOUS
<1> QED BY <1>1, <1>2, <1>3, <1>4

\* A larger multiple is larger by at least the capacity.
LEMMA Multiples ==
  ASSUME NEW C \in Nat \ {0}, NEW p \in Int, NEW q \in Int, p < q
  PROVE  q * C >= p * C + C
<1>1. PICK d \in Nat : q = p + 1 + d
  <2>1. q - p - 1 \in Nat /\ q = p + 1 + (q - p - 1)
    OBVIOUS
  <2> QED BY <2>1
<1>2. q * C = p * C + C + d * C
  BY <1>1
<1>3. d * C >= 0
  OBVIOUS
<1>4. p * C \in Int /\ d * C \in Int
  OBVIOUS
<1> QED BY <1>2, <1>3, <1>4

\* Two indices less than the capacity apart fall into different slots.
LEMMA Apart ==
  ASSUME NEW C \in Nat \ {0}, NEW x \in Nat, NEW y \in Nat, x < y, y - x < C
  PROVE  x % C # y % C
<1>1. PICK p \in Nat : x = p * C + (x % C) /\ x % C \in 0..(C - 1)
  BY Split
<1>2. PICK q \in Nat : y = q * C + (y % C) /\ y % C \in 0..(C - 1)
  BY Split
<1>3. SUFFICES ASSUME x % C = y % C PROVE FALSE
  OBVIOUS
<1>4. CASE p < q
  <2>1. q * C >= p * C + C
    BY <1>4, Multiples
  <2>2. p * C \in Int /\ q * C \in Int
    OBVIOUS
  <2> QED BY <1>1, <1>2, <1>3, <2>1, <2>2
<1>5. CASE q < p
  <2>1. p * C >= q * C + C
    BY <1>5, Multiples
  <2>2. p * C \in Int /\ q * C \in Int
    OBVIOUS
  <2> QED BY <1>1, <1>2, <1>3, <2>1, <2>2
<1>6. CASE p = q
  BY <1>1, <1>2, <1>3, <1>6
<1> QED BY <1>4, <1>5, <1>6

\* Whole turns around the buffer do not change the slot.
LEMMA Turns ==
  ASSUME NEW C \in Nat \ {0}, NEW x \in Nat, NEW k \in Nat
  PROVE  (x + k * C) % C = x % C
<1> DEFINE y == x + k * C
<1>0. k * C \in Nat /\ y \in Nat
  OBVIOUS
<1>1. PICK p \in Nat : x = p * C + (x % C) /\ x % C \in 0..(C - 1)
  BY Split
<1>2. PICK q \in Nat : y = q * C + (y % C) /\ y % C \in 0..(C - 1)
  BY <1>0, Split
<1>3. y = (p + k) * C + (x % C)
  BY <1>1
<1>4. CASE q < p + k
  <2>1. (p + k) * C >= q * C + C
    BY <1>4, Multiples
  <2>2. (p + k) * C \in Int /\ q * C \in Int
    OBVIOUS
  <2> QED BY <1>0, <1>1, <1>2, <1>3, <2>1, <2>2
<1>5. CASE p + k < q
  <2>1. q * C >= (p + k) * C + C
    BY <1>5, Multiples
  <2>2. (p + k) * C \in Int /\ q * C \in Int
    OBVIOUS
  <2> QED BY <1>0, <1>1, <1>2, <1>3, <2>1, <2>2
<1>6. CASE q = p + k
  <2>1. y = (p + k) * C + (y % C)
    BY <1>2, <1>6
  <2>2. (p + k) * C \in Int
    OBVIOUS
  <2> QED BY <1>1, <1>2, <1>3, <2>1, <2>2
<1> QED BY <1>4, <1>5, <1>6

--------------------------------------------------------------------------------
(* Type correctness                                                             *)

\* The sizes are positive numbers.
LEMMA Positive ==
  Capacity \in Nat \ {0} /\ Modulus \in Nat \ {0} /\ Capacity < Modulus
BY Sizes

\* What the arithmetic needs to know of the constants.
LEMMA Constants ==
  /\ Capacity \in Nat \ {0} /\ Modulus \in Nat \ {0} /\ Capacity < Modulus
  /\ \A x \in Int : x % Modulus \in 0..(Modulus - 1)
  /\ \A x \in Nat : x % Capacity \in Slots
<1>1. Capacity \in Nat \ {0} /\ Modulus \in Nat \ {0} /\ Capacity < Modulus
  BY Sizes
<1> QED BY <1>1 DEF Slots

\* The distance of the positions is a number below their range.
LEMMA UsedNat ==
  ASSUME writePos \in Int, readPos \in Int
  PROVE  Used \in 0..(Modulus - 1)
BY Constants DEF Used

\* One step keeps every variable in its type.
LEMMA TypeStep == TypeOK /\ [Next]_vars => TypeOK'
<1> SUFFICES ASSUME TypeOK, [Next]_vars PROVE TypeOK'
  OBVIOUS
<1> USE DEF TypeOK, vars, producer, consumer
<1>1. ASSUME NEW n \in 0..MaxCount, NEW s \in [1..n -> Samples], WriteBegin(s)
      PROVE  TypeOK'
  <2>1. n \in Nat
    BY Sizes
  <2>2. s \in Seq(Samples) /\ Len(s) \in Nat
    BY <2>1
  <2>3. Used \in 0..(Modulus - 1)
    BY UsedNat, Constants
  <2>4. Least(Len(s), Capacity - Used) <= Len(s) /\ Least(Len(s), Capacity - Used) \in Int
    BY <2>2, <2>3, Constants DEF Least
  <2>5. SubSeq(s, 1, Least(Len(s), Capacity - Used)) \in Seq(Samples)
    BY <2>2, <2>4, SubSeqProperties, Z3
  <2> QED BY <1>1, <2>5 DEF WriteBegin
<1>2. CASE WriteSample
  <2>1. Head(input) \in Samples /\ Tail(input) \in Seq(Samples)
    BY <1>2, HeadTailProperties DEF WriteSample
  <2>2. buffer' \in [Slots -> Samples]
    BY <1>2, <2>1 DEF WriteSample
  <2>3. input' \in Seq(Samples) /\ written' \in Nat
    BY <1>2, <2>1 DEF WriteSample
  <2> QED BY <1>2, <2>2, <2>3 DEF WriteSample
<1>3. CASE WritePublish
  <2>1. writePos + written \in Int
    BY Constants
  <2>2. writePos' \in 0..(Modulus - 1)
    BY <1>3, <2>1, Constants DEF WritePublish
  <2> QED BY <1>3, <2>2 DEF WritePublish
<1>4. ASSUME NEW n \in 0..MaxCount, ReadBegin(n) PROVE TypeOK'
  <2>1. n \in Nat /\ Used \in 0..(Modulus - 1)
    BY UsedNat, Constants, Sizes
  <2>2. Least(n, Used) \in Nat
    BY <2>1, Constants DEF Least
  <2> QED BY <1>4, <2>2 DEF ReadBegin
<1>5. CASE ReadSample
  <2>1. readPos + Len(output) \in Nat
    BY Constants
  <2>2. Slot(readPos, Len(output)) \in Slots
    BY <2>1, Constants DEF Slot
  <2>3. buffer[Slot(readPos, Len(output))] \in Samples
    BY <2>2
  <2> QED BY <1>5, <2>3, AppendProperties DEF ReadSample
<1>6. CASE ReadPublish
  <2>1. readPos + goal \in Int
    BY Constants
  <2>2. readPos' \in 0..(Modulus - 1)
    BY <1>6, <2>1, Constants DEF ReadPublish
  <2> QED BY <1>6, <2>2 DEF ReadPublish
<1>7. CASE Reset
  BY <1>7, Constants DEF Reset
<1>8. CASE UNCHANGED vars
  BY <1>8
<1> QED BY <1>1, <1>2, <1>3, <1>4, <1>5, <1>6, <1>7, <1>8 DEF Next, Write, Read

\* Every reachable state of a ring buffer is well typed, whatever its capacity:
\* in particular its positions stay in the range of size_t.
THEOREM RingTypeCorrect == Spec => []TypeOK
<1>1. Init => TypeOK
  BY Constants DEF Init, TypeOK
<1> QED BY <1>1, TypeStep, PTL DEF Spec

--------------------------------------------------------------------------------
(* The two sides keep out of each other's way                                   *)

\* What write() and read() preserve: the distance of the positions leaves room for
\* what is being written and holds what is being read.
WithinCapacity == Used + written + Len(input) <= Capacity /\ goal <= Used
Bounds == WithinCapacity /\ Len(output) <= goal

\* The distance by cases, before and after a step.
LEMMA UsedCases ==
  ASSUME TypeOK
  PROVE  Used = IF writePos >= readPos THEN writePos - readPos
                                       ELSE writePos - readPos + Modulus
BY Positive, Difference DEF TypeOK, Used

LEMMA UsedCasesNext ==
  ASSUME TypeOK'
  PROVE  Used' = IF writePos' >= readPos' THEN writePos' - readPos'
                                          ELSE writePos' - readPos' + Modulus
BY Positive, Difference DEF TypeOK, Used

\* One step preserves the bounds.
LEMMA BoundsStep == TypeOK /\ Bounds /\ [Next]_vars => Bounds'
<1> SUFFICES ASSUME TypeOK, Bounds, [Next]_vars PROVE Bounds'
  OBVIOUS
<1>t. TypeOK'
  BY TypeStep
<1>u. Used \in Nat /\ Used < Modulus
  BY UsedNat, Positive DEF TypeOK
<1>n. written \in Nat /\ goal \in Nat /\ Len(input) \in Nat /\ Len(output) \in Nat
  BY DEF TypeOK
<1>b. /\ Used + written + Len(input) <= Capacity
      /\ goal <= Used /\ Len(output) <= goal
  BY DEF Bounds, WithinCapacity
<1>s. SUFFICES /\ Used' \in Nat /\ Used' + written' + Len(input') <= Capacity
               /\ goal' <= Used' /\ Len(output') <= goal'
  <2>1. written' \in Nat /\ Len(input') \in Nat
    BY <1>t DEF TypeOK
  <2> QED BY <1>s, <2>1, Positive DEF Bounds, WithinCapacity
<1>1. ASSUME NEW n \in 0..MaxCount, NEW s \in [1..n -> Samples], WriteBegin(s)
      PROVE  Used' = Used /\ goal' = goal /\ output' = output /\ written' = written
             /\ Used + written + Len(input') <= Capacity
  <2> DEFINE toWrite == Least(Len(s), Capacity - Used)
  <2>1. s \in Seq(Samples) /\ Len(s) \in Nat
    BY Sizes
  <2>2. toWrite \in Nat /\ toWrite <= Len(s) /\ toWrite <= Capacity - Used
    BY <2>1, <1>u, <1>n, <1>b, Positive DEF Least
  <2>3. input' = SubSeq(s, 1, toWrite) /\ written = 0
    BY <1>1, <1>n DEF WriteBegin, Writing
  <2>4. Len(SubSeq(s, 1, toWrite)) = toWrite
    <3> HIDE DEF toWrite
    <3> QED BY <2>1, <2>2
  <2>5. Used + written + Len(input') <= Capacity
    <3> HIDE DEF toWrite
    <3> QED BY <2>2, <2>3, <2>4, <1>u, Positive
  <2> QED BY <1>1, <2>5 DEF WriteBegin, Used, consumer
<1>2. CASE WriteSample
  <2>1. Len(input') = Len(input) - 1
    BY <1>2, HeadTailProperties DEF WriteSample, TypeOK
  <2>2. Used' = Used /\ goal' = goal /\ output' = output /\ written' = written + 1
    BY <1>2 DEF WriteSample, Used, consumer
  <2> QED BY <1>u, <1>n, <1>b, <2>1, <2>2, Positive
<1>3. CASE WritePublish
  <2>1. Len(input) = 0 /\ input' = input /\ written' = 0
    BY <1>3 DEF WritePublish
  <2>2. written \in 0..(Modulus - 1)
    BY <1>u, <1>n, <1>b, <2>1, Positive
  <2>3. writePos' = IF writePos + written < Modulus THEN writePos + written
                                                   ELSE writePos + written - Modulus
    <3>1. writePos \in 0..(Modulus - 1)
      BY DEF TypeOK
    <3> QED BY <1>3, <2>2, <3>1, Advance, Positive DEF WritePublish
  <2>4. readPos' = readPos /\ goal' = goal /\ output' = output
    BY <1>3 DEF WritePublish, consumer
  <2>5. Used' = Used + written
    <3>1. writePos \in 0..(Modulus - 1) /\ readPos \in 0..(Modulus - 1)
      BY DEF TypeOK
    <3>2. Used' = IF writePos' >= readPos' THEN writePos' - readPos'
                                           ELSE writePos' - readPos' + Modulus
      BY <1>t, UsedCasesNext
    <3>3. Used + written < Modulus
      BY <1>u, <1>n, <1>b, <2>1, Positive
    <3> QED BY <1>n, <2>3, <2>4, <3>1, <3>2, <3>3, UsedCases, Positive
  <2> QED BY <1>u, <1>n, <1>b, <2>1, <2>4, <2>5, Positive
<1>4. ASSUME NEW n \in 0..MaxCount, ReadBegin(n)
      PROVE  Used' = Used /\ input' = input /\ written' = written
             /\ goal' \in Nat /\ goal' <= Used /\ Len(output') = 0
  <2>1. n \in Nat
    BY Sizes
  <2>2. goal' \in Nat /\ goal' <= Used
    BY <1>4, <2>1, <1>u DEF ReadBegin, Least
  <2> QED BY <1>4, <2>2 DEF ReadBegin, Used, producer
<1>5. CASE ReadSample
  <2>1. Len(output') = Len(output) + 1
    BY <1>5 DEF ReadSample, TypeOK
  <2>2. /\ Used' = Used /\ goal' = goal /\ input' = input /\ written' = written
        /\ Len(output) < goal
    BY <1>5 DEF ReadSample, Used, producer
  <2> QED BY <1>u, <1>n, <1>b, <2>1, <2>2, Positive
<1>6. CASE ReadPublish
  <2>1. goal \in 0..(Modulus - 1)
    BY <1>u, <1>n, <1>b, Positive
  <2>2. readPos' = IF readPos + goal < Modulus THEN readPos + goal
                                               ELSE readPos + goal - Modulus
    <3>1. readPos \in 0..(Modulus - 1)
      BY DEF TypeOK
    <3> QED BY <1>6, <2>1, <3>1, Advance, Positive DEF ReadPublish
  <2>3. writePos' = writePos /\ input' = input /\ written' = written
    BY <1>6 DEF ReadPublish, producer
  <2>4. Used' = Used - goal
    <3>1. writePos \in 0..(Modulus - 1) /\ readPos \in 0..(Modulus - 1)
      BY DEF TypeOK
    <3>2. Used' = IF writePos' >= readPos' THEN writePos' - readPos'
                                           ELSE writePos' - readPos' + Modulus
      BY <1>t, UsedCasesNext
    <3> QED BY <1>n, <1>b, <2>2, <2>3, <3>1, <3>2, UsedCases, Positive
  <2>5. goal' = 0 /\ Len(output') = 0
    BY <1>6 DEF ReadPublish
  <2> QED BY <1>u, <1>n, <1>b, <2>3, <2>4, <2>5, Positive
<1>7. CASE Reset
  <2>1. written = 0 /\ Len(input) = 0 /\ goal = 0 /\ Len(output) = 0
    <3>1. written = 0 /\ input = <<>> /\ goal = 0
      BY <1>7, <1>n DEF Reset, Writing, Reading
    <3>2. Len(output) = 0
      BY <1>n, <1>b, <3>1
    <3> QED BY <3>1, <3>2
  <2>2. writePos' = 0 /\ readPos' = 0
    BY <1>7 DEF Reset
  <2>3. Used' = 0
    BY <1>t, <2>2, UsedCasesNext
  <2>4. written' = written /\ input' = input /\ goal' = goal /\ output' = output
    BY <1>7 DEF Reset, producer, consumer
  <2> QED BY <2>1, <2>3, <2>4, Positive
<1>8. CASE UNCHANGED vars
  <2>1. /\ Used' = Used /\ written' = written /\ input' = input
        /\ goal' = goal /\ output' = output
    BY <1>8 DEF vars, producer, consumer, Used
  <2> QED BY <1>u, <1>b, <2>1
<1>9. CASE \E n \in 0..MaxCount : \E s \in [1..n -> Samples] : WriteBegin(s)
  BY <1>1, <1>9, <1>u, <1>b
<1>10. CASE \E n \in 0..MaxCount : ReadBegin(n)
  BY <1>4, <1>10, <1>u, <1>b
<1> QED BY <1>2, <1>3, <1>5, <1>6, <1>7, <1>8, <1>9, <1>10 DEF Next, Write, Read

\* A position and the same one a range further on have the same slot.
LEMMA SameSlot ==
  ASSUME NEW x \in Nat
  PROVE  (x + Modulus) % Capacity = x % Capacity
<1>1. PICK k \in 1..Modulus : Modulus = k * Capacity
  BY Sizes
<1>2. k \in Nat
  BY <1>1, Positive
<1>3. (x + k * Capacity) % Capacity = x % Capacity
  BY <1>2, Turns, Positive
<1> QED BY <1>1, <1>3

\* The slot a producer copies into is none of those that hold the contents: they
\* are fewer than the capacity apart, and never zero.
LEMMA Vacant ==
  TypeOK /\ Bounds /\ input # <<>> =>
    \A i \in 0..(Used - 1) : Slot(writePos, written) # Slot(readPos, i)
<1> SUFFICES ASSUME TypeOK, Bounds, input # <<>>, NEW i \in 0..(Used - 1)
             PROVE  Slot(writePos, written) # Slot(readPos, i)
  OBVIOUS
<1> DEFINE w == writePos + written
           r == readPos + i
<1>1. Used \in Nat /\ written \in Nat /\ i \in Nat
  BY UsedNat, Positive DEF TypeOK
<1>2. Len(input) \in Nat \ {0}
  BY EmptySeq DEF TypeOK
<1>3. i < Used /\ Used + written < Capacity
  BY <1>1, <1>2, Positive DEF Bounds, WithinCapacity
<1>4. writePos \in Nat /\ readPos \in Nat /\ w \in Nat /\ r \in Nat
  BY <1>1, Positive DEF TypeOK
<1>5. CASE writePos >= readPos
  <2>1. w - r = Used + written - i
    BY <1>1, <1>4, <1>5, UsedCases, Positive
  <2> HIDE DEF w, r
  <2>2. r < w /\ w - r < Capacity
    BY <1>1, <1>3, <1>4, <2>1, Positive
  <2>3. r % Capacity # w % Capacity
    BY <1>4, <2>2, Apart, Positive
  <2> QED BY <2>3 DEF Slot, w, r
<1>6. CASE writePos < readPos
  <2> DEFINE v == w + Modulus
  <2>1. v - r = Used + written - i /\ v \in Nat
    BY <1>1, <1>4, <1>6, UsedCases, Positive
  <2>2. v % Capacity = w % Capacity
    <3> HIDE DEF w
    <3> QED BY <1>4, SameSlot
  <2> HIDE DEF w, r, v
  <2>3. r < v /\ v - r < Capacity
    BY <1>1, <1>3, <1>4, <2>1, Positive
  <2>4. r % Capacity # v % Capacity
    BY <1>4, <2>1, <2>3, Apart, Positive
  <2> QED BY <2>2, <2>4 DEF Slot, w, r
<1> QED BY <1>4, <1>5, <1>6

\* Nor is it the slot a consumer copies out of.
LEMMA Disjoint == TypeOK /\ Bounds => RaceFree
<1> SUFFICES ASSUME TypeOK, Bounds, input # <<>>, Len(output) < goal
             PROVE  Slot(writePos, written) # Slot(readPos, Len(output))
  BY DEF RaceFree
<1>1. Used \in Nat /\ goal \in Nat /\ Len(output) \in Nat
  BY UsedNat, Positive DEF TypeOK
<1>2. Len(output) \in 0..(Used - 1)
  BY <1>1, Positive DEF Bounds, WithinCapacity
<1> QED BY <1>2, Vacant

\* For every capacity, every range of the positions and every interleaving of the
\* two sides: neither works beyond what the other has published, and they never
\* touch the same slot, so that write() and read() are free of data races.
THEOREM RingSafety == Spec => [](WithinCapacity /\ RaceFree)
<1>1. Init => Bounds
  <2> SUFFICES ASSUME Init PROVE Bounds
    OBVIOUS
  <2>1. Used = 0
    BY Constants, Difference DEF Init, Used
  <2> QED BY <2>1, Constants DEF Init, Bounds, WithinCapacity
<1>2. TypeOK /\ Bounds => WithinCapacity /\ RaceFree
  BY Disjoint DEF Bounds
<1> QED BY <1>1, <1>2, BoundsStep, RingTypeCorrect, PTL DEF Spec

--------------------------------------------------------------------------------
(* The ring buffer is a bounded queue                                           *)

\* What the consumer has copied is the front of the contents: nothing it has passed
\* is overwritten before it publishes its position.
Copied == \A i \in 1..Len(output) : output[i] = buffer[Slot(readPos, i - 1)]

\* The contents are as many samples as the positions are apart.
LEMMA ContentsAreSamples ==
  TypeOK => /\ Contents \in Seq(Samples)
            /\ Len(Contents) = Used
            /\ \A i \in 1..Used : Contents[i] = buffer[Slot(readPos, i - 1)]
<1> SUFFICES ASSUME TypeOK
             PROVE  /\ Contents \in Seq(Samples)
                    /\ Len(Contents) = Used
                    /\ \A i \in 1..Used : Contents[i] = buffer[Slot(readPos, i - 1)]
  OBVIOUS
<1>1. Used \in Nat /\ readPos \in Nat
  BY UsedNat, Positive DEF TypeOK
<1>2. ASSUME NEW i \in 1..Used PROVE buffer[Slot(readPos, i - 1)] \in Samples
  <2>1. readPos + (i - 1) \in Nat
    BY <1>1
  <2>2. Slot(readPos, i - 1) \in Slots
    BY <2>1, Constants DEF Slot
  <2> QED BY <2>2 DEF TypeOK
<1>3. Contents \in [1..Used -> Samples]
  BY <1>2 DEF Contents
<1> QED BY <1>1, <1>3 DEF Contents

\* The same of the contents after a step.
LEMMA ContentsAreSamplesNext ==
  TypeOK' => /\ Contents' \in Seq(Samples)
             /\ Len(Contents') = Used'
             /\ \A i \in 1..Used' : Contents'[i] = buffer'[Slot(readPos', i - 1)]
<1>1. (TypeOK => /\ Contents \in Seq(Samples)
                 /\ Len(Contents) = Used
                 /\ \A i \in 1..Used : Contents[i] = buffer[Slot(readPos, i - 1)])'
  BY ContentsAreSamples, PTL
<1> QED BY <1>1 DEF Slot

\* Publishing what was written moves the write position past it.
LEMMA Published ==
  TypeOK /\ Bounds /\ WritePublish => Used' = Used + written
<1> SUFFICES ASSUME TypeOK, Bounds, WritePublish PROVE Used' = Used + written
  OBVIOUS
<1>1. Used \in Nat /\ written \in Nat /\ written \in 0..(Modulus - 1)
      /\ Used + written < Modulus
  <2>1. Used \in Nat /\ written \in Nat
    BY UsedNat, Positive DEF TypeOK
  <2>2. Len(input) = 0
    BY DEF WritePublish
  <2> QED BY <2>1, <2>2, Positive DEF Bounds, WithinCapacity
<1>2. writePos \in 0..(Modulus - 1) /\ readPos \in 0..(Modulus - 1)
  BY DEF TypeOK
<1>3. writePos' = IF writePos + written < Modulus THEN writePos + written
                                                 ELSE writePos + written - Modulus
  BY <1>1, <1>2, Advance, Positive DEF WritePublish
<1>4. readPos' = readPos /\ TypeOK'
  BY TypeStep DEF WritePublish, Next, Write
<1>5. Used' = IF writePos' >= readPos' THEN writePos' - readPos'
                                       ELSE writePos' - readPos' + Modulus
  BY <1>4, UsedCasesNext
<1> QED BY <1>1, <1>2, <1>3, <1>4, <1>5, UsedCases, Positive

\* Publishing what was read moves the read position past it.
LEMMA Released ==
  TypeOK /\ Bounds /\ ReadPublish => Used' = Used - goal
<1> SUFFICES ASSUME TypeOK, Bounds, ReadPublish PROVE Used' = Used - goal
  OBVIOUS
<1>1. Used \in Nat /\ goal \in Nat /\ goal <= Used /\ goal \in 0..(Modulus - 1)
  <2>1. Used \in Nat /\ Used < Modulus /\ goal \in Nat
    BY UsedNat, Positive DEF TypeOK
  <2> QED BY <2>1, Positive DEF Bounds, WithinCapacity
<1>2. writePos \in 0..(Modulus - 1) /\ readPos \in 0..(Modulus - 1)
  BY DEF TypeOK
<1>3. readPos' = IF readPos + goal < Modulus THEN readPos + goal
                                             ELSE readPos + goal - Modulus
  BY <1>1, <1>2, Advance, Positive DEF ReadPublish
<1>4. writePos' = writePos /\ TypeOK'
  BY TypeStep DEF ReadPublish, Next, Read
<1>5. Used' = IF writePos' >= readPos' THEN writePos' - readPos'
                                       ELSE writePos' - readPos' + Modulus
  BY <1>4, UsedCasesNext
<1> QED BY <1>1, <1>2, <1>3, <1>4, <1>5, UsedCases, Positive

\* The contents depend on nothing but the slots they are in and the positions.
LEMMA SameContents ==
  ASSUME TypeOK, TypeOK', Used' = Used, readPos' = readPos,
         \A i \in 0..(Used - 1) : buffer'[Slot(readPos, i)] = buffer[Slot(readPos, i)]
  PROVE  Contents' = Contents
<1>1. Used \in Nat
  BY UsedNat, Positive DEF TypeOK
<1>2. /\ Contents \in Seq(Samples) /\ Len(Contents) = Used
      /\ Contents' \in Seq(Samples) /\ Len(Contents') = Used
  BY ContentsAreSamples, ContentsAreSamplesNext
<1>3. ASSUME NEW i \in 1..Used PROVE Contents'[i] = Contents[i]
  <2>1. i - 1 \in 0..(Used - 1)
    BY <1>1
  <2>2. buffer'[Slot(readPos, i - 1)] = buffer[Slot(readPos, i - 1)]
    BY <2>1
  <2> QED BY <2>2, ContentsAreSamples, ContentsAreSamplesNext
<1> QED BY <1>2, <1>3, SeqEqual

\* Copying into a vacant slot leaves the contents and what was copied out of them.
LEMMA WriteSampleStep ==
  TypeOK /\ Bounds /\ WriteSample =>
    \A i \in 0..(Used - 1) : buffer'[Slot(readPos, i)] = buffer[Slot(readPos, i)]
<1> SUFFICES ASSUME TypeOK, Bounds, WriteSample, NEW i \in 0..(Used - 1)
             PROVE  buffer'[Slot(readPos, i)] = buffer[Slot(readPos, i)]
  OBVIOUS
<1>1. Slot(writePos, written) # Slot(readPos, i)
  BY Vacant DEF WriteSample
<1>2. Used \in Nat /\ readPos + i \in Nat
  BY UsedNat, Positive DEF TypeOK
<1>3. Slot(readPos, i) \in Slots
  BY <1>2, Constants DEF Slot
<1> QED BY <1>1, <1>3 DEF WriteSample, TypeOK

\* One step preserves what the consumer has copied.
LEMMA CopiedStep == TypeOK /\ Bounds /\ Copied /\ [Next]_vars => Copied'
<1> SUFFICES ASSUME TypeOK, Bounds, Copied, [Next]_vars PROVE Copied'
  OBVIOUS
<1>n. Len(output) \in Nat /\ goal \in Nat /\ Used \in Nat
      /\ Len(output) <= goal /\ goal <= Used
  BY UsedNat, Positive DEF TypeOK, Bounds, WithinCapacity
<1>e. ASSUME output' = <<>> PROVE Copied'
  BY <1>e DEF Copied
<1>1. CASE WriteSample
  <2>1. output' = output /\ readPos' = readPos
    BY <1>1 DEF WriteSample, consumer
  <2>2. ASSUME NEW i \in 1..Len(output)
        PROVE  output[i] = buffer'[Slot(readPos, i - 1)]
    <3>1. i - 1 \in 0..(Used - 1)
      BY <1>n
    <3> QED BY <1>1, <3>1, WriteSampleStep DEF Copied
  <2> QED BY <2>1, <2>2 DEF Copied, Slot
<1>2. CASE ReadSample
  <2> DEFINE x == buffer[Slot(readPos, Len(output))]
  <2>1. output' = Append(output, x) /\ readPos' = readPos /\ buffer' = buffer
    BY <1>2 DEF ReadSample
  <2>2. x \in Samples
    <3>1. readPos + Len(output) \in Nat
      BY <1>n, Positive DEF TypeOK
    <3>2. Slot(readPos, Len(output)) \in Slots
      BY <3>1, Constants DEF Slot
    <3> QED BY <3>2 DEF TypeOK
  <2>3. /\ Len(output') = Len(output) + 1
        /\ \A i \in 1..Len(output) : output'[i] = output[i]
        /\ output'[Len(output) + 1] = x
    <3> HIDE DEF x
    <3>1. output \in Seq(Samples)
      BY DEF TypeOK
    <3> QED BY <2>1, <2>2, <3>1, AppendProperties
  <2>4. ASSUME NEW i \in 1..Len(output')
        PROVE  output'[i] = buffer[Slot(readPos, i - 1)]
    <3>1. CASE i = Len(output) + 1
      <4>1. i - 1 = Len(output)
        BY <1>n, <3>1
      <4> QED BY <2>3, <3>1, <4>1
    <3>2. CASE i # Len(output) + 1
      <4>1. i \in 1..Len(output)
        BY <1>n, <2>3, <3>2
      <4> QED BY <2>3, <4>1 DEF Copied
    <3> QED BY <3>1, <3>2
  <2> QED BY <2>1, <2>4 DEF Copied, Slot
<1>3. CASE ReadPublish
  BY <1>3, <1>e DEF ReadPublish
<1>4. CASE \E n \in 0..MaxCount : ReadBegin(n)
  BY <1>4, <1>e DEF ReadBegin
<1>5. CASE Reset
  <2>1. Len(output) = 0
    BY <1>5, <1>n DEF Reset, Reading
  <2>2. output = <<>>
    BY <2>1, EmptySeq DEF TypeOK
  <2> QED BY <1>5, <2>2, <1>e DEF Reset, consumer
<1>6. CASE UNCHANGED <<buffer, readPos, output>>
  BY <1>6 DEF Copied, Slot
<1>7. CASE (\E n \in 0..MaxCount : \E s \in [1..n -> Samples] : WriteBegin(s))
           \/ WritePublish \/ UNCHANGED vars
  BY <1>6, <1>7 DEF WriteBegin, WritePublish, vars, consumer
<1> QED BY <1>1, <1>2, <1>3, <1>4, <1>5, <1>7 DEF Next, Write, Read

\* Publishing appends what was copied to the contents.
LEMMA WritePublishIsPut ==
  TypeOK /\ Bounds /\ WritePublish => Queue!Put
<1> SUFFICES ASSUME TypeOK, Bounds, WritePublish PROVE Queue!Put
  OBVIOUS
<1> DEFINE s == [i \in 1..written |-> buffer[Slot(writePos, i - 1)]]
<1>t. TypeOK'
  BY TypeStep DEF Next, Write
<1>1. Used \in Nat /\ written \in Nat /\ Used' = Used + written
      /\ writePos \in 0..(Modulus - 1) /\ readPos \in 0..(Modulus - 1)
  BY UsedNat, Positive, Published DEF TypeOK
<1>2. ASSUME NEW i \in 1..written PROVE buffer[Slot(writePos, i - 1)] \in Samples
  <2>1. writePos + (i - 1) \in Nat
    BY <1>1, Positive
  <2>2. Slot(writePos, i - 1) \in Slots
    BY <2>1, Constants DEF Slot
  <2> QED BY <2>2 DEF TypeOK
<1>3. s \in [1..written -> Samples] /\ s \in Seq(Samples) /\ Len(s) = written
  BY <1>1, <1>2
<1>4. Contents \in Seq(Samples) /\ Len(Contents) = Used
      /\ Contents' \in Seq(Samples) /\ Len(Contents') = Used + written
  BY <1>t, <1>1, ContentsAreSamples, ContentsAreSamplesNext
<1>5. ASSUME NEW i \in 1..(Used + written)
      PROVE  Contents'[i] = (Contents \o s)[i]
  <2>1. Contents'[i] = buffer[Slot(readPos, i - 1)]
    BY <1>t, <1>1, ContentsAreSamplesNext DEF WritePublish
  <2>2. (Contents \o s)[i] = IF i <= Used THEN Contents[i] ELSE s[i - Used]
    <3> HIDE DEF s
    <3> QED BY <1>1, <1>3, <1>4, ConcatProperties
  <2>3. CASE i <= Used
    <3>1. i \in 1..Used
      BY <1>1, <2>3
    <3> QED BY <2>1, <2>2, <2>3, <3>1, ContentsAreSamples
  <2>4. CASE i > Used
    <3>1. i - Used \in 1..written
      BY <1>1, <2>4
    <3>2. s[i - Used] = buffer[Slot(writePos, (i - Used) - 1)]
      BY <3>1
    <3>3. Slot(writePos, (i - Used) - 1) = Slot(readPos, i - 1)
      <4> DEFINE x == writePos + ((i - Used) - 1)
                 y == readPos + (i - 1)
      <4>1. x \in Nat /\ y \in Nat
        BY <1>1, <2>4, Positive
      <4>2. y = x \/ y = x + Modulus
        BY <1>1, UsedCases, Positive
      <4>3. x % Capacity = y % Capacity
        <5> HIDE DEF x, y
        <5> QED BY <4>1, <4>2, SameSlot
      <4> QED BY <4>3 DEF Slot
    <3>4. ~(i <= Used)
      BY <1>1, <2>4
    <3> HIDE DEF s
    <3>5. (Contents \o s)[i] = s[i - Used]
      BY <2>2, <3>4
    <3> QED BY <2>1, <3>2, <3>3, <3>5
  <2>5. i <= Used \/ i > Used
    BY <1>1
  <2> HIDE DEF s
  <2> QED BY <2>3, <2>4, <2>5
<1>6. Contents' = Contents \o s
  <2> HIDE DEF s
  <2>1. Contents \o s \in Seq(Samples) /\ Len(Contents \o s) = Used + written
    BY <1>3, <1>4, ConcatProperties
  <2> QED BY <1>4, <1>5, <2>1, SeqEqual
<1>7. written \in 1..(Capacity - Len(Contents))
  <2>1. Len(input) = 0 /\ written > 0
    BY DEF WritePublish
  <2> QED BY <1>1, <1>4, <2>1, Positive DEF Bounds, WithinCapacity
<1> HIDE DEF s
<1> QED BY <1>3, <1>6, <1>7 DEF Queue!Put, WritePublish, consumer

\* Publishing takes what was copied off the front of the contents.
LEMMA ReadPublishIsGet ==
  TypeOK /\ Bounds /\ Copied /\ ReadPublish => Queue!Get
<1> SUFFICES ASSUME TypeOK, Bounds, Copied, ReadPublish PROVE Queue!Get
  OBVIOUS
<1>t. TypeOK'
  BY TypeStep DEF Next, Read
<1>1. Used \in Nat /\ goal \in Nat /\ goal <= Used /\ Used' = Used - goal
      /\ writePos \in 0..(Modulus - 1) /\ readPos \in 0..(Modulus - 1)
  BY UsedNat, Positive, Released DEF TypeOK, Bounds, WithinCapacity
<1>2. Contents \in Seq(Samples) /\ Len(Contents) = Used
      /\ (\A i \in 1..Used : Contents[i] = buffer[Slot(readPos, i - 1)])
      /\ Contents' \in Seq(Samples) /\ Len(Contents') = Used - goal
      /\ (\A i \in 1..(Used - goal) : Contents'[i] = buffer'[Slot(readPos', i - 1)])
  BY <1>t, <1>1, ContentsAreSamples, ContentsAreSamplesNext
<1>3. \A i \in 1..Used : Contents[i] \in Samples
  BY <1>2, ElementOfSeq
<1>4. output \in Seq(Samples) /\ Len(output) = goal /\ out' = output /\ buffer' = buffer
  BY DEF ReadPublish, TypeOK
<1>5. output = SubSeq(Contents, 1, goal)
  <2>1. \A i \in 1..goal : Contents[i] \in Samples
    BY <1>1, <1>3
  <2>2. /\ SubSeq(Contents, 1, goal) \in Seq(Samples)
        /\ Len(SubSeq(Contents, 1, goal)) = goal
        /\ \A i \in 1..goal : SubSeq(Contents, 1, goal)[i] = Contents[i]
    BY <1>1, <2>1, SubSeqProperties
  <2>3. ASSUME NEW i \in 1..goal PROVE output[i] = Contents[i]
    BY <1>1, <1>2, <1>4 DEF Copied
  <2> QED BY <1>4, <2>2, <2>3, SeqEqual
<1>6. Contents' = SubSeq(Contents, goal + 1, Used)
  <2>1. \A i \in (goal + 1)..Used : Contents[i] \in Samples
    BY <1>1, <1>3
  <2>2. /\ SubSeq(Contents, goal + 1, Used) \in Seq(Samples)
        /\ Len(SubSeq(Contents, goal + 1, Used)) = Used - goal
        /\ \A i \in 1..(Used - goal) :
             SubSeq(Contents, goal + 1, Used)[i] = Contents[goal + i]
    BY <1>1, <2>1, SubSeqProperties
  <2>3. ASSUME NEW i \in 1..(Used - goal) PROVE Contents'[i] = Contents[goal + i]
    <3> DEFINE x == readPos' + (i - 1)
               y == readPos + ((goal + i) - 1)
    <3>1. goal \in 0..(Modulus - 1)
      BY <1>1, UsedNat, Positive DEF TypeOK
    <3>2. readPos' = IF readPos + goal < Modulus THEN readPos + goal
                                                 ELSE readPos + goal - Modulus
      BY <1>1, <3>1, Advance, Positive DEF ReadPublish
    <3>3. x \in Nat /\ y \in Nat
      BY <1>1, <3>2, Positive
    <3>4. y = x \/ y = x + Modulus
      BY <1>1, <3>2, Positive
    <3>5. x % Capacity = y % Capacity
      <4> HIDE DEF x, y
      <4> QED BY <3>3, <3>4, SameSlot
    <3>6. Contents'[i] = buffer[Slot(readPos', i - 1)]
      BY <1>2, <1>4
    <3>7. goal + i \in 1..Used
      BY <1>1
    <3>8. Contents[goal + i] = buffer[Slot(readPos, (goal + i) - 1)]
      BY <1>2, <3>7
    <3> QED BY <3>5, <3>6, <3>8 DEF Slot
  <2> QED BY <1>1, <1>2, <2>2, <2>3, SeqEqual
<1>7. goal \in 0..Len(Contents)
  BY <1>1, <1>2
<1> QED BY <1>2, <1>4, <1>5, <1>6, <1>7 DEF Queue!Get

\* Every step is one of the queue's, or none: the steps that copy change nothing
\* the queue shows, and the steps that publish are its operations.
LEMMA RefinementStep ==
  TypeOK /\ Bounds /\ Copied /\ [Next]_vars => [Queue!Next]_<<Contents, out>>
<1> SUFFICES ASSUME TypeOK, Bounds, Copied, [Next]_vars
             PROVE  [Queue!Next]_<<Contents, out>>
  OBVIOUS
<1>t. TypeOK'
  BY TypeStep
<1>s. ASSUME UNCHANGED <<buffer, readPos, writePos>> PROVE Contents' = Contents
  BY <1>s DEF Contents, Used, Slot
<1>1. CASE \E n \in 0..MaxCount : \E s \in [1..n -> Samples] : WriteBegin(s)
  BY <1>1, <1>s DEF WriteBegin, consumer
<1>2. CASE WriteSample
  <2>1. Used' = Used /\ readPos' = readPos /\ out' = out
    BY <1>2 DEF WriteSample, Used, consumer
  <2>2. Contents' = Contents
    BY <1>t, <1>2, <2>1, WriteSampleStep, SameContents
  <2> QED BY <2>1, <2>2
<1>3. CASE WritePublish
  BY <1>3, WritePublishIsPut DEF Queue!Next
<1>4. ASSUME NEW n \in 0..MaxCount, ReadBegin(n)
      PROVE  [Queue!Next]_<<Contents, out>>
  <2>1. Contents' = Contents
    BY <1>4, <1>s DEF ReadBegin
  <2>2. CASE goal' = 0
    <3>1. out' = <<>>
      BY <1>4, <2>2 DEF ReadBegin
    <3>2. Contents \in Seq(Samples) /\ Len(Contents) \in Nat
      BY ContentsAreSamples, LenProperties
    <3>3. SubSeq(Contents, 1, 0) = <<>>
      BY SubSeqEmpty
    <3>4. SubSeq(Contents, 0 + 1, Len(Contents)) = Contents
      BY <3>2, SubSeqFull
    <3>5. 0 \in 0..Len(Contents)
      BY <3>2
    <3> QED BY <2>1, <3>1, <3>3, <3>4, <3>5 DEF Queue!Next, Queue!Get
  <2>3. CASE goal' # 0
    BY <1>4, <2>1, <2>3 DEF ReadBegin
  <2> QED BY <2>2, <2>3
<1>5. CASE ReadSample
  BY <1>5, <1>s DEF ReadSample
<1>6. CASE ReadPublish
  BY <1>6, ReadPublishIsGet DEF Queue!Next
<1>7. CASE Reset
  <2>1. writePos' = 0 /\ readPos' = 0 /\ out' = out
    BY <1>7 DEF Reset, consumer
  <2>2. Used' = 0
    BY <1>t, <2>1, UsedCasesNext
  <2>3. Contents' \in Seq(Samples) /\ Len(Contents') = 0
    BY <1>t, <2>2, ContentsAreSamplesNext
  <2>4. Contents' = <<>>
    BY <2>3, EmptySeq
  <2> QED BY <2>1, <2>4 DEF Queue!Next, Queue!Clear
<1>8. CASE UNCHANGED vars
  BY <1>8, <1>s DEF vars, consumer
<1> QED BY <1>1, <1>2, <1>3, <1>4, <1>5, <1>6, <1>7, <1>8 DEF Next, Write, Read

\* For every capacity, every range of the positions that is a multiple of it and
\* every interleaving of the two sides, the ring buffer is a bounded first-in
\* first-out queue: read() returns what write() took, in order, once and unchanged,
\* however often the positions wrap.
THEOREM RingImplementsQueue == Spec => ImplementsQueue
<1>1. Init => TypeOK /\ Bounds /\ Copied /\ Queue!Init
  <2> SUFFICES ASSUME Init PROVE TypeOK /\ Bounds /\ Copied /\ Queue!Init
    OBVIOUS
  <2>1. TypeOK
    BY Constants DEF Init, TypeOK
  <2>2. Used = 0
    BY Constants, Difference DEF Init, Used
  <2>3. Bounds
    BY <2>2, Constants DEF Init, Bounds, WithinCapacity
  <2>4. Copied
    BY DEF Init, Copied
  <2>5. Contents = <<>>
    <3>1. Contents \in Seq(Samples) /\ Len(Contents) = 0
      BY <2>1, <2>2, ContentsAreSamples
    <3> QED BY <3>1, EmptySeq
  <2> QED BY <2>1, <2>3, <2>4, <2>5 DEF Init, Queue!Init
<1> QED BY <1>1, TypeStep, BoundsStep, CopiedStep, RefinementStep, PTL
        DEF Spec, ImplementsQueue, Queue!Spec
================================================================================
