---------------------------- MODULE ArrayVector ----------------------------
(***************************************************************************)
(* A column whose cells are arrays (FastArrayVector in                     *)
(* src/src/ConstantImp.cpp): index_ holds for every row where it ends in   *)
(* value_, which holds the values of all rows.  Every operation moves the  *)
(* ends and the values separately.                                         *)
(*                                                                         *)
(* Rows are counted from 0, as in the code; index[r + 1] is pindex[r].     *)
(***************************************************************************)
EXTENDS Integers, Sequences, FiniteSets

CONSTANTS
  Values,     \* values of the cells
  Null,       \* the null value
  MaxRows,    \* bound: rows of the column
  MaxCells    \* bound: values of one row

(* What the constants must be. *)
ArrayAssumption ==
  /\ Null \notin Values
  /\ MaxRows \in Nat
  /\ MaxCells \in Nat \ {0}

VARIABLES
  index,      \* index_
  value,      \* value_, of valueSize_ values
  count,      \* size_
  (* history *)
  exact       \* no operation that mixes up the ends was made

vars == <<index, value, count, exact>>

Cells == Values \cup {Null}
Row == UNION {[1 .. n -> Cells] : n \in 1 .. MaxCells}

-----------------------------------------------------------------------------
(* Ends and values *)

(* Where row r starts.                                                      *)
StartOf(ix, r) == IF r = 0 THEN 0 ELSE ix[r]

RowAt(ix, val, r) == SubSeq(val, StartOf(ix, r) + 1, ix[r + 1])

(* The column as the application sees it.                                   *)
RowsOf(ix, val, n) == [k \in 1 .. n |-> RowAt(ix, val, k - 1)]

(* After an exception in append() the index may be longer than the column.  *)
Stale == Len(index) > count

(* append(vector, start, length) of a vector of numbers: a single one is    *)
(* taken from the front, whatever start is.                                 *)
Range(vec, start, len) == IF len = 1 THEN <<vec[1]>> ELSE SubSeq(vec, start + 1, start + len)

OneFromWithin(start, len) == len = 1 /\ start > 0

(* By how much the ends of appended rows move: by where they go and where   *)
(* they start in the column they come from.                                 *)
EndOffset(pre, start) == pre - start

(* The ends and values of rows, one after another.                          *)
FoldedEnds[rows \in Seq(Row)] ==
  IF rows = <<>> THEN <<>>
  ELSE LET before == FoldedEnds[SubSeq(rows, 1, Len(rows) - 1)]
       IN  Append(before, StartOf(before, Len(before)) + Len(rows[Len(rows)]))

FoldedValues[rows \in Seq(Row)] ==
  IF rows = <<>> THEN <<>>
  ELSE FoldedValues[SubSeq(rows, 1, Len(rows) - 1)] \o rows[Len(rows)]

(* An empty array is stored as one null.                                    *)
Stored(row) == IF row = <<>> THEN <<Null>> ELSE row

-----------------------------------------------------------------------------
(* Reading *)

(* getSubVector(start, length)                                              *)
(* Mutant: the values begin at the number of the row.                       *)
ValuesFromRow(start, len) ==
  LET offset == StartOf(index, start)
      ix == Range(index, start, len)
  IN  [ix |-> [k \in DOMAIN ix |-> ix[k] - offset],
       val |-> SubSeq(value, start + 1, start + index[start + len] - offset)]

SubVector(start, len) ==
  LET offset == StartOf(index, start)
      ix == Range(index, start, len)
  IN  [ix |-> [k \in DOMAIN ix |-> ix[k] - offset],
       val |-> SubSeq(value, offset + 1, index[start + len])]

(* sliceColumnRange(from, to, 0, size_): of every row the cells from .. to, *)
(* a null for a row that has none.  The positions are put into an array     *)
(* that was made for the lesser of all of them and all values.              *)
ColumnCells(r, from, to) ==
  LET start == StartOf(index, r)
      cells == index[r + 1] - start
      last == IF cells < to THEN cells ELSE to
  IN  IF from >= last THEN <<Null>> ELSE SubSeq(value, start + from + 1, start + last)

SliceColumns(from, to) ==
  LET parts == [k \in 1 .. count |-> ColumnCells(k - 1, from, to)]
  IN  [ix |-> FoldedEnds[parts], val |-> FoldedValues[parts]]

ColumnsRoom(from, to) ==
  IF count * (to - from) < Len(value) THEN count * (to - from) ELSE Len(value)

-----------------------------------------------------------------------------
(* Changing *)

Init ==
  /\ count \in {0, MaxRows}
  /\ index = [r \in 1 .. count |-> r]
  /\ value = [r \in 1 .. count |-> Null]
  /\ exact = TRUE

(* append(value) of one array.  resize() makes room for the end first, and  *)
(* drops what was left over.                                                *)
AppendRow(row) ==
  LET new == Stored(row)
  IN  /\ count < MaxRows
      /\ value' = value \o new
      /\ index' = Append(SubSeq(index, 1, count), StartOf(index, count) + Len(new))
      /\ count' = count + 1
      /\ UNCHANGED exact

(* Values of another type: those of a longer array are refused and the room *)
(* is given back, a single one throws and it is not.                        *)
RefuseRow(n) ==
  /\ count < MaxRows
  /\ \E garbage \in {0, 1} :
       index' = IF n = 1 THEN Append(SubSeq(index, 1, count), garbage)
                         ELSE SubSeq(index, 1, count)
  /\ UNCHANGED <<value, count, exact>>

(* append(tuple): its arrays, one after another; the one at `bad' is        *)
(* refused or throws, and all is given back.                                *)
AppendTuple(rows) ==
  LET stored == [k \in DOMAIN rows |-> Stored(rows[k])]
      pre == StartOf(index, count)
  IN  /\ count + Len(rows) <= MaxRows
      /\ value' = value \o FoldedValues[stored]
      /\ index' = SubSeq(index, 1, count) \o [k \in DOMAIN rows |-> pre + FoldedEnds[stored][k]]
      /\ count' = count + Len(rows)
      /\ UNCHANGED exact

RefuseTuple ==
  /\ index' = SubSeq(index, 1, count)
  /\ UNCHANGED <<value, count, exact>>

(* append(array vector, start, length)                                      *)
AppendVector(source, start, len) ==
  LET from == FoldedEnds[source]
      valueStart == StartOf(from, start)
      valueCount == from[start + len] - valueStart
      ends == Range(from, start, len)
      inc == EndOffset(StartOf(index, count), valueStart)
  IN  /\ count + len <= MaxRows
      /\ value' = value \o Range(FoldedValues[source], valueStart, valueCount)
      /\ index' = LET all == index \o ends
                  IN  [k \in DOMAIN all |->
                         IF k \in count + 1 .. count + len THEN all[k] + inc ELSE all[k]]
      /\ count' = count + len
      /\ exact' = (exact /\ ~Stale /\ ~OneFromWithin(start, len)
                         /\ ~OneFromWithin(valueStart, valueCount))

(* append(scalar)                                                           *)
AppendScalar(v) ==
  /\ count < MaxRows
  /\ value' = Append(value, v)
  /\ index' = Append(index, StartOf(index, count) + 1)
  /\ count' = count + 1
  /\ exact' = (exact /\ ~Stale)

(* remove(n): the last rows, remove(-n): the first ones                     *)
RemoveLast(n) ==
  /\ value' = SubSeq(value, 1, IF n = count THEN 0 ELSE index[count - n])
  /\ index' = SubSeq(index, 1, Len(index) - n)
  /\ count' = Len(index')
  /\ exact' = (exact /\ ~Stale)

MovedEnds(ix, n) ==
  [k \in 1 .. Len(ix) - n |-> IF k + n <= count THEN ix[k + n] - ix[n] ELSE ix[k + n]]

RemoveFirst(n) ==
  /\ value' = IF n = count THEN <<>> ELSE SubSeq(value, index[n] + 1, Len(value))
  /\ index' = IF n = count THEN SubSeq(index, n + 1, Len(index)) ELSE MovedEnds(index, n)
  /\ count' = Len(index')
  /\ exact' = (exact /\ ~Stale)

(* Mutant: the number of a row is taken for the position of its values.     *)
RowNumbers(P) == {r + 1 : r \in P}

(* remove(index): the values go by the positions that                       *)
(* convertRowIndexToValueIndex() gives, the ends are added up anew.         *)
CellsOf(P) == UNION {StartOf(index, r) + 1 .. index[r + 1] : r \in P}

KeptOf(seq, Gone) ==
  LET kept == SelectSeq([k \in DOMAIN seq |-> k], LAMBDA k : k \notin Gone)
  IN  [k \in DOMAIN kept |-> seq[kept[k]]]

RemoveRows(P) ==
  LET lengths == KeptOf([k \in 1 .. count |-> index[k] - StartOf(index, k - 1)],
                        {r + 1 : r \in P})
      newEnd[k \in 0 .. Len(lengths)] == IF k = 0 THEN 0 ELSE newEnd[k - 1] + lengths[k]
  IN  /\ value' = KeptOf(value, CellsOf(P))
      /\ index' = [k \in DOMAIN lengths |-> newEnd[k]]
      /\ count' = Len(lengths)
      /\ UNCHANGED exact

(* reverse() of the whole column: the values are fetched in the new order,  *)
(* the ends are exchanged from both sides towards the middle.               *)
Reverse ==
  LET total == StartOf(index, count)
      frontCount(i) == index[i + 1] - StartOf(index, i)
      backCount(i) == frontCount(count - 1 - i)
      half == count \div 2
      fromFront[i \in 0 .. half] == IF i = 0 THEN 0 ELSE fromFront[i - 1] + backCount(i - 1)
      fromBack[i \in 0 .. half] == IF i = 0 THEN total ELSE fromBack[i - 1] - frontCount(i - 1)
  IN  /\ count > 0
      /\ value' = FoldedValues[[k \in 1 .. count |-> RowAt(index, value, count - k)]]
      /\ index' = [k \in DOMAIN index |->
                     IF \E i \in 1 .. half : k = count - i THEN fromBack[count - k]
                     ELSE IF k <= half THEN fromFront[k] ELSE index[k]]
      /\ UNCHANGED <<count, exact>>

Clear ==
  /\ index' = <<>>
  /\ value' = <<>>
  /\ count' = 0
  /\ UNCHANGED exact

(* getValue(), for a table that grows: an index of another length is not    *)
(* copied.                                                                  *)
Copy ==
  /\ index' = IF Stale THEN [k \in 1 .. count |-> 0] ELSE index
  /\ exact' = (exact /\ ~Stale)
  /\ UNCHANGED <<value, count>>

Tuples == UNION {[1 .. n -> Row \cup {<<>>}] : n \in 1 .. 2}
Sources == [1 .. 2 -> Row]

(* A column whose ends are mixed up is not followed further.                *)
Next ==
  /\ exact
  /\ \/ \E row \in Row \cup {<<>>} : AppendRow(row)
     \/ \E n \in {1, 2} : RefuseRow(n)
     \/ \E rows \in Tuples : AppendTuple(rows)
     \/ RefuseTuple
     \/ \E source \in Sources : \E start \in 0 .. 1 : \E len \in 1 .. 2 - start :
          AppendVector(source, start, len)
     \/ \E v \in Cells : AppendScalar(v)
     \/ \E n \in 1 .. count : RemoveLast(n) \/ RemoveFirst(n)
     \/ \E P \in SUBSET (0 .. count - 1) \ {{}} : RemoveRows(P)
     \/ Reverse \/ Clear \/ Copy

Spec == Init /\ [][Next]_vars

-----------------------------------------------------------------------------
(* Properties *)

Rows == IF exact THEN RowsOf(index, value, count) ELSE <<>>

Abstract == INSTANCE RowSequence WITH rows <- Rows

(* Whatever is appended, refused, removed or reversed, the ends and the     *)
(* values together are a sequence of rows that changes as a sequence of     *)
(* rows does, and a refused call changes no row.  The code does not keep    *)
(* this when it appends a part of another column that is one row or one     *)
(* value and not the first, nor after an exception has left the index       *)
(* longer than the column.                                                  *)
ChangesAsRows == [][exact' => Abstract!Next]_Rows

(* A part of the column is what it says: rows start to start + length - 1,  *)
(* or of every row the cells from .. to, for which there is room.  Again    *)
(* not for a single row that is not the first.                              *)
ReadsAsRows ==
  exact =>
    /\ \A start \in 0 .. count - 1 : \A len \in 1 .. count - start :
         ~OneFromWithin(start, len) =>
           LET sub == SubVector(start, len)
           IN  RowsOf(sub.ix, sub.val, len) = SubSeq(Rows, start + 1, start + len)
    /\ count > 0 => \A from \in 0 .. MaxCells : \A to \in from + 1 .. MaxCells + 1 :
         LET slice == SliceColumns(from, to)
         IN  /\ Len(slice.val) <= ColumnsRoom(from, to)
             /\ \A k \in 1 .. count :
                  RowAt(slice.ix, slice.val, k - 1) =
                    Stored(SubSeq(Rows[k], from + 1, IF to < Len(Rows[k]) THEN to ELSE Len(Rows[k])))
=============================================================================
