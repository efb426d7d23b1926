--------------------------- MODULE ArrayMarshall ---------------------------
(***************************************************************************)
(* A column of arrays on its way (FastArrayVector::serialize() and         *)
(* deserialize() in src/src/ConstantImp.cpp).  It goes as blocks of rows:  *)
(* how many rows, how wide their counts are, the counts, and the cells.    *)
(* A block ends where the buffer does; the cells of a row too long for the *)
(* buffer go on in the next ones.                                          *)
(*                                                                         *)
(* A byte is a number: that of the first byte of what it belongs to, or 0. *)
(***************************************************************************)
EXTENDS ArrayVector

CONSTANTS
  Unit,        \* baseUnitLength_
  CountLimit,  \* the greatest count for each width: 255, 65535, ...
  Rooms        \* sizes of the buffer to be looked at

BlockHeader == 4

Bytes(n, width) == [k \in 1 .. width |-> IF k = 1 THEN n ELSE 0]

CountOf(r) == index[r + 1] - StartOf(index, r)

(* The cells from some position on, one after another.                      *)
CellBytes(from, n) ==
  [b \in 1 .. n * Unit |-> IF (b - 1) % Unit = 0 THEN value[from + 1 + (b - 1) \div Unit] ELSE 0]

-----------------------------------------------------------------------------
(* Which rows go into a block *)

LesserOf(a, b) == IF a < b THEN a ELSE b

(* The counts become wider for all rows when one of them needs it.          *)
WidthFor(cells, width) ==
  CHOOSE w \in {1, 2, 4} :
    /\ w >= width
    /\ cells <= CountLimit[w] \/ w = 4
    /\ \A u \in {1, 2, 4} : u >= width /\ u < w => cells > CountLimit[u]

(* What the constants must be: a buffer takes a cell at least.              *)
MarshallAssumption ==
  /\ Unit \in Nat \ {0}
  /\ DOMAIN CountLimit = {1, 2, 4}
  /\ CountLimit[1] < CountLimit[2] /\ CountLimit[2] < CountLimit[4]
  /\ MaxCells <= CountLimit[4]
  /\ \A room \in Rooms : room >= BlockHeader + WidthFor(MaxCells, 1) + Unit

(* What a row takes of the buffer.  Mutant: the counts of the rows before   *)
(* it take no more when they become wider.                                  *)
RequiredAlone(k, cells, width, wider) == wider + cells * Unit

Required(k, cells, width, wider) == k * (wider - width) + wider + cells * Unit

(* Rows as long as they fit.  The first may be cut, any other waits.        *)
Taken(start, room, mayCut) ==
  LET take[k \in Nat, left \in Int, width \in {1, 2, 4}] ==
        LET stop == [rows |-> k, whole |-> k, width |-> width, partial |-> 0]
        IN  IF start + k = count \/ left <= 0 THEN stop
            ELSE LET cells == CountOf(start + k)
                     wider == WidthFor(cells, width)
                     required == Required(k, cells, width, wider)
                 IN  IF required <= left THEN take[k + 1, left - required, wider]
                     ELSE IF k = 0 /\ mayCut /\ left - wider >= Unit
                          THEN [rows |-> 1, whole |-> 0, width |-> wider,
                                partial |-> (left - wider) \div Unit]
                          ELSE stop
  IN  take[0, room - BlockHeader, 1]

(* serializeFixedLength(): a block of the rows that were taken, ...          *)
BlockOf(start, t) ==
  LET counts[k \in 0 .. t.rows] ==
        IF k = 0 THEN <<>> ELSE counts[k - 1] \o Bytes(CountOf(start + k - 1), t.width)
      from == StartOf(index, start)
  IN  [bytes |-> IF t.rows = 0 THEN <<>>
                 ELSE Bytes(t.rows, 2) \o <<t.width, 0>> \o counts[t.rows]
                      \o CellBytes(from, StartOf(index, start + t.whole) + t.partial - from),
       rows |-> t.whole, partial |-> t.partial]

Block(start, room, mayCut) == BlockOf(start, Taken(start, room, mayCut))

(* ... after the rest of a row that was cut, or as much of it as fits.      *)
After(rest, b) == [bytes |-> rest \o b.bytes, rows |-> b.rows + 1, partial |-> b.partial]

Continued(start, offset, room, cells) ==
  LET rest == CellBytes(StartOf(index, start) + offset, cells)
  IN  IF cells < CountOf(start) - offset
      THEN [bytes |-> rest, rows |-> 0, partial |-> offset + cells]
      ELSE After(rest, Block(start + 1, room - cells * Unit, FALSE))

Serialized(start, offset, room) ==
  IF offset = 0 THEN Block(start, room, TRUE)
  ELSE Continued(start, offset, room, LesserOf(room \div Unit, CountOf(start) - offset))

(* The pieces, by VectorMarshall or CompressLZ4: from where the last one    *)
(* came to.                                                                 *)
Pieces(first, room) ==
  LET pieces[start \in Nat, offset \in Nat, r \in Nat] ==
        IF start = count THEN <<>>
        ELSE LET p == Serialized(start, offset, r)
             IN  <<p.bytes>> \o pieces[start + p.rows, p.partial, room]
  IN  pieces[0, 0, first]

-----------------------------------------------------------------------------
(* deserializeFixedLength(): blocks until all rows have come.               *)

Deserialized(bytes) ==
  LET read[from \in Nat, ix \in Seq(Nat), val \in Seq(Cells)] ==
        IF from = Len(bytes) THEN [ix |-> ix, val |-> val]
        ELSE LET rows == bytes[from + 1]
                 width == bytes[from + 3]
                 counts == [k \in 1 .. rows |-> bytes[from + BlockHeader + (k - 1) * width + 1]]
                 ends[k \in 0 .. rows] ==
                   IF k = 0 THEN StartOf(ix, Len(ix)) ELSE ends[k - 1] + counts[k]
                 cells == from + BlockHeader + rows * width
                 total == ends[rows] - ends[0]
             IN  read[cells + total * Unit,
                      ix \o [k \in 1 .. rows |-> ends[k]],
                      val \o [c \in 1 .. total |-> bytes[cells + (c - 1) * Unit + 1]]]
  IN  read[0, <<>>, <<>>]

-----------------------------------------------------------------------------
(* Properties *)

Joined(pieces) ==
  LET of[k \in 0 .. Len(pieces)] == IF k = 0 THEN <<>> ELSE of[k - 1] \o pieces[k]
  IN  of[Len(pieces)]

Fits(pieces, first, room) ==
  /\ Len(pieces[1]) <= first
  /\ \A k \in 2 .. Len(pieces) : Len(pieces[k]) <= room

Received(column) == RowsOf(column.ix, column.val, count)

(* A column of arrays arrives as it was sent, wherever the buffer cuts it:  *)
(* a row, the counts of a block whose width changed, or the cells.  No      *)
(* piece is longer than the buffer.  The first piece has less room, as the  *)
(* flag and the size of the column come before it.                          *)
ArrivesIn(pieces, first, room) ==
  Fits(pieces, first, room) /\ Received(Deserialized(Joined(pieces))) = Rows

ArrivesAsRows ==
  exact /\ ~Stale /\ count > 0 =>
    \A room \in Rooms, first \in Rooms :
      first <= room => ArrivesIn(Pieces(first, room), first, room)
=============================================================================
