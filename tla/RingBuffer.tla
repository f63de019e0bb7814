------------------------------- MODULE RingBuffer -------------------------------
(* core/src/audio/ring_buffer.{h,cpp}: a single-producer single-consumer queue   *)
(* without locks.  Each side copies sample by sample between the slots, which    *)
(* are not atomic, and then publishes its position, which is.  The loads are     *)
(* acquire and the stores release, so that a side which sees a position also     *)
(* sees the copies made before it was stored: interleaving the steps of the two  *)
(* sides is enough.                                                              *)
EXTENDS Integers, Sequences

CONSTANTS Samples,   \* values of a sample
          Capacity,  \* m_capacity, a power of two
          Modulus,   \* 2^64: a size_t holds a position modulo it
          MaxCount   \* bound on the count given to write() and read()

\* The constructor rounds the capacity up to a power of two, and a vector of
\* samples is shorter than the range of size_t.
ASSUME Sizes ==
  /\ Capacity \in Nat \ {0} /\ Modulus \in Nat /\ MaxCount \in Nat
  /\ Capacity < Modulus
  /\ \E k \in 1..Modulus : Modulus = k * Capacity

ASSUME SomeSample == Samples # {}

VARIABLES
  buffer,    \* m_buffer
  writePos,  \* m_writePos
  readPos,   \* m_readPos
  input,     \* the producer: what is left to copy, <<>> when it is not writing
  written,   \* the producer: samples copied and not published
  goal,      \* the consumer: samples it is to copy, 0 when it is not reading
  output,    \* the consumer: what it has copied
  out        \* what the last read() returned

producer == <<input, written>>
consumer == <<goal, output, out>>
vars     == <<buffer, writePos, readPos, producer, consumer>>

Slots == 0..(Capacity - 1)

\* A wrong variant: the mask is one short.
SlotShort(pos, i) == (pos + i) % (Capacity - 1)

\* (pos + i) & m_mask
Slot(pos, i) == (pos + i) % Capacity

\* writePos - readPos in size_t
Used == (writePos - readPos) % Modulus

Least(m, n) == IF m < n THEN m ELSE n

TypeOK ==
  /\ buffer \in [Slots -> Samples]
  /\ writePos \in 0..(Modulus - 1) /\ readPos \in 0..(Modulus - 1)
  /\ input \in Seq(Samples) /\ written \in Nat
  /\ goal \in Nat /\ output \in Seq(Samples) /\ out \in Seq(Samples)

\* The buffer is filled with zeros.
Init ==
  /\ buffer \in {[s \in Slots |-> x] : x \in Samples}
  /\ writePos = 0 /\ readPos = 0
  /\ input = <<>> /\ written = 0
  /\ goal = 0 /\ output = <<>> /\ out = <<>>

Writing == input # <<>> \/ written > 0
Reading == goal > 0

--------------------------------------------------------------------------------
(* write()                                                                      *)

\* A wrong variant: one slot too many.
WriteBeginOverlong(samples) ==
  /\ ~Writing
  /\ LET toWrite == Least(Len(samples), Capacity - Used + 1)
     IN input' = SubSeq(samples, 1, toWrite)
  /\ UNCHANGED <<buffer, writePos, readPos, written, consumer>>

\* The positions are loaded and the samples that fit are chosen; a write that
\* takes none has no effect.
WriteBegin(samples) ==
  /\ ~Writing
  /\ LET toWrite == Least(Len(samples), Capacity - Used)
     IN input' = SubSeq(samples, 1, toWrite)
  /\ UNCHANGED <<buffer, writePos, readPos, written, consumer>>

WriteSample ==
  /\ input # <<>>
  /\ buffer' = [buffer EXCEPT ![Slot(writePos, written)] = Head(input)]
  /\ input' = Tail(input) /\ written' = written + 1
  /\ UNCHANGED <<writePos, readPos, consumer>>

WritePublish ==
  /\ input = <<>> /\ written > 0
  /\ writePos' = (writePos + written) % Modulus
  /\ written' = 0
  /\ UNCHANGED <<buffer, readPos, input, consumer>>

--------------------------------------------------------------------------------
(* read()                                                                       *)

ReadBegin(count) ==
  /\ ~Reading
  /\ goal' = Least(count, Used)
  /\ output' = <<>>
  /\ out' = IF goal' = 0 THEN <<>> ELSE out
  /\ UNCHANGED <<buffer, writePos, readPos, producer>>

ReadSample ==
  /\ Len(output) < goal
  /\ output' = Append(output, buffer[Slot(readPos, Len(output))])
  /\ UNCHANGED <<buffer, writePos, readPos, producer, goal, out>>

ReadPublish ==
  /\ Reading /\ Len(output) = goal
  /\ readPos' = (readPos + goal) % Modulus
  /\ out' = output /\ goal' = 0 /\ output' = <<>>
  /\ UNCHANGED <<buffer, writePos, producer>>

--------------------------------------------------------------------------------

\* reset(), "only when both producer and consumer are idle".
Reset ==
  /\ ~Writing /\ ~Reading
  /\ writePos' = 0 /\ readPos' = 0
  /\ UNCHANGED <<buffer, producer, consumer>>

Write == (\E n \in 0..MaxCount : \E s \in [1..n -> Samples] : WriteBegin(s))
         \/ WriteSample \/ WritePublish

Read == (\E n \in 0..MaxCount : ReadBegin(n)) \/ ReadSample \/ ReadPublish

Next == Write \/ Read \/ Reset

Spec == Init /\ [][Next]_vars

--------------------------------------------------------------------------------
(* Properties                                                                   *)

Contents == [i \in 1..Used |-> buffer[Slot(readPos, i - 1)]]

Queue == INSTANCE BoundedQueue WITH queue <- Contents

\* The buffer is a bounded queue: what read() returns is what write() took, in
\* order and once, whatever is interleaved and however often the positions wrap.
ImplementsQueue == Queue!Spec

\* The slots are not atomic: the two sides never touch the same slot between them,
\* which would be a data race.
RaceFree ==
  input # <<>> /\ Len(output) < goal =>
    Slot(writePos, written) # Slot(readPos, Len(output))
================================================================================
