----------------------------- MODULE BoundedQueue -----------------------------
(* What an audio ring buffer promises: a first-in first-out queue that holds at *)
(* most Capacity samples, never loses one it has taken and never makes one up.  *)
EXTENDS Naturals, Sequences

CONSTANTS Samples, Capacity

VARIABLES queue,  \* what has been written and not read
          out     \* what the last read returned

Init == queue = <<>> /\ out = <<>>

\* A write takes what fits, or less.
Put ==
  \E n \in 1..(Capacity - Len(queue)) : \E s \in [1..n -> Samples] :
    queue' = queue \o s /\ UNCHANGED out

Get ==
  \E n \in 0..Len(queue) :
    /\ out' = SubSeq(queue, 1, n)
    /\ queue' = SubSeq(queue, n + 1, Len(queue))

Clear == queue' = <<>> /\ UNCHANGED out

Next == Put \/ Get \/ Clear

Spec == Init /\ [][Next]_<<queue, out>>
================================================================================
