------------------------------ MODULE ByteFifo ------------------------------
(***************************************************************************)
(* What components/fifo promises: a bounded queue of bytes between one     *)
(* writing and one reading task, which the reading task may also empty.    *)
(* Bytes go in and come out in pieces.  A byte is its position in the      *)
(* stream that was written.                                                *)
(***************************************************************************)
EXTENDS Integers, Sequences

CONSTANT Capacity

VARIABLES queue, sent, out

Init == queue = <<>> /\ sent = 0 /\ out = <<>>

Put(n) ==
  /\ Len(queue) + n <= Capacity
  /\ queue' = queue \o [i \in 1 .. n |-> sent + i]
  /\ sent' = sent + n
  /\ UNCHANGED out

Get(n) ==
  /\ out' = SubSeq(queue, 1, n)
  /\ queue' = SubSeq(queue, n + 1, Len(queue))
  /\ UNCHANGED sent

Clear == queue' = <<>> /\ UNCHANGED <<sent, out>>

Next ==
  \/ \E n \in 1 .. Capacity : Put(n)
  \/ \E n \in 1 .. Len(queue) : Get(n)
  \/ Clear

Spec == Init /\ [][Next]_<<queue, sent, out>>
=============================================================================
