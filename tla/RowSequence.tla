---------------------------- MODULE RowSequence ----------------------------
(***************************************************************************)
(* What a column of arrays promises (FastArrayVector): a sequence of rows, *)
(* each a sequence of at least one value, to which rows are added and from *)
(* which they are removed.                                                 *)
(***************************************************************************)
EXTENDS Integers, Sequences, FiniteSets

CONSTANTS Row,      \* the rows there may be
          MaxRows   \* bound: rows of the column

VARIABLE rows

Size == Len(rows)

AddRows ==
  /\ Len(rows') \in Size + 1 .. MaxRows
  /\ SubSeq(rows', 1, Size) = rows
  /\ \A r \in DOMAIN rows' : rows'[r] \in Row

RemoveLast == \E n \in 1 .. Size : rows' = SubSeq(rows, 1, Size - n)

RemoveFirst == \E n \in 1 .. Size : rows' = SubSeq(rows, n + 1, Size)

RemoveAt(P) ==
  LET kept == SelectSeq([r \in 1 .. Size |-> r], LAMBDA r : r \notin P)
  IN  rows' = [k \in DOMAIN kept |-> rows[kept[k]]]

ReverseRows == rows' = [r \in 1 .. Size |-> rows[Size + 1 - r]]

Next ==
  \/ AddRows \/ RemoveLast \/ RemoveFirst \/ ReverseRows
  \/ \E P \in SUBSET (1 .. Size) : RemoveAt(P)
=============================================================================
