----------------------------- MODULE FifoQueue -----------------------------
(***************************************************************************)
(* What the queues of src/include/Concurrent.h promise: items leave in the *)
(* order in which they came, each once, and no more than Capacity of them  *)
(* are held.                                                               *)
(***************************************************************************)
EXTENDS Naturals, Sequences

CONSTANTS Values, Capacity

VARIABLES
  items,    \* what the queue holds
  taken     \* all that was taken from it, in order

Init == items = <<>> /\ taken = <<>>

Put ==
  /\ Len(items) < Capacity
  /\ \E v \in Values : items' = Append(items, v)
  /\ UNCHANGED taken

Take ==
  \E n \in 1 .. Len(items) :
    /\ taken' = taken \o SubSeq(items, 1, n)
    /\ items' = SubSeq(items, n + 1, Len(items))

Next == Put \/ Take

Spec == Init /\ [][Next]_<<items, taken>>
=============================================================================
