----------------------------- MODULE BasicTable -----------------------------
(***************************************************************************)
(* An in-memory table (BasicTable in src/src/TableImp.cpp) over its        *)
(* columns: vectors of one type (AbstractFastVector, "fast") and vectors   *)
(* of anything (AnyVector, "tuple").  Every operation works column after   *)
(* column, and may be refused in the middle.                               *)
(*                                                                         *)
(* A cell is the row it was written for and whether it is null, so that    *)
(* what is compared is which rows are together.  A null is "told" when the *)
(* value it came with said so (getNullFlag(), or what set() looks at), and *)
(* "raw" when not: a value narrowed to the null of the column's type, one  *)
(* of a vector that does not know of its nulls, the bytes of shared memory *)
(* or setNull().  Names are those the map of the columns has, in lower     *)
(* case.                                                                   *)
(***************************************************************************)
EXTENDS Integers, Sequences, FiniteSets

CONSTANTS
  Names,      \* names of columns
  MaxCols,    \* bound: columns of the table
  MaxRows,    \* bound: rows written in one behaviour
  MaxChanges  \* bound: calls that concern the columns or flags of the table

ASSUME TableAssumption ==
  /\ MaxCols \in Nat \ {0}
  /\ MaxRows \in Nat
  /\ MaxChanges \in Nat

VARIABLES
  cols,        \* cols_
  colNames,    \* colNames_
  colMap,      \* colMap_: for some names the position of a column, from 1
  size,        \* size_
  capacity,    \* capacity_
  compresses,  \* the length of colCompresses_
  readOnly,    \* isReadOnly()
  (* history *)
  made,        \* rows written
  outside,     \* the row that is being written to the columns themselves, or 0
  twice,       \* two columns have had one name
  torn,        \* a removal has stopped in the middle
  mixed,       \* a tuple column was given other than one row
  changes      \* calls counted against MaxChanges

history == <<made, outside, twice, torn, mixed>>
tableVars == <<cols, colNames, colMap, size, capacity, compresses, readOnly>>
vars == <<tableVars, history, changes>>

IndexMax == 2147483647      \* INDEX_MAX

Tops(S) == CHOOSE m \in S : \A x \in S : x <= m
Lows(S) == CHOOSE m \in S : \A x \in S : m <= x

(* What a loop that copies the members of S, a set of positions, goes       *)
(* through: there is one such list.                                         *)
InOrder(S) ==
  {f \in [1 .. Cardinality(S) -> S] : \A i, j \in DOMAIN f : i < j => f[i] < f[j]}

At(seq, f) == [k \in DOMAIN f |-> seq[f[k]]]

-----------------------------------------------------------------------------
(* The columns *)

Nulls == {"none", "told", "raw"}
Cell(r, null) == [row |-> r, null |-> null]
FastColumn(data, flag) ==
  [tuple |-> FALSE, data |-> data, capacity |-> Len(data), flag |-> flag]
TupleColumn(data, flag) ==
  [tuple |-> TRUE, data |-> data, capacity |-> 0, flag |-> flag]

(* reserve() or getValue(capacity), which copies, for a table that grows.   *)
Grown(c, rows) ==
  IF rows > c.capacity THEN [c EXCEPT !.capacity = Tops({(rows * 12) \div 10, Len(c.data)})]
                       ELSE c

NewCells(n, null) == [k \in 1 .. n |-> Cell(made + k, null)]

(* Mutant: append() of a vector does not look at the null flag of what it   *)
(* appends. *)
ForgetsNull(c, n, null) ==
  IF c.tuple
    THEN [c EXCEPT !.data = Append(@, Cell(made + 1, "none"))]
    ELSE [c EXCEPT !.data = @ \o NewCells(n, null),
                   !.capacity = IF Len(c.data) + n > @ THEN ((Len(c.data) + n) * 12) \div 10
                                                       ELSE @]

(* append(): a tuple column takes what it is given as one cell; the others  *)
(* have the numbers narrowed to their type, and ask the value for its flag. *)
Appended(c, n, null) ==
  IF c.tuple
    THEN [c EXCEPT !.data = Append(@, Cell(made + 1, "none"))]
    ELSE [c EXCEPT !.data = @ \o NewCells(n, null),
                   !.capacity = IF Len(c.data) + n > @ THEN ((Len(c.data) + n) * 12) \div 10
                                                       ELSE @,
                   !.flag = @ \/ (null = "told" /\ n > 0)]

(* Mutant: the columns that were appended to keep the rows.                 *)
KeptCells(c, n) == c

(* remove(count): a fast column refuses to remove more than it has.         *)
Shortened(c, n) ==
  LET gone == IF n <= Len(c.data) THEN n ELSE IF c.tuple THEN Len(c.data) ELSE 0
  IN  [c EXCEPT !.data = SubSeq(@, 1, Len(@) - gone)]

HasNull(data) == \E k \in DOMAIN data : data[k].null # "none"

(* remove(index) of a fast column: the cells at the kept positions stay.    *)
OnlyAt(c, kept) ==
  [c EXCEPT !.data = At(@, kept), !.flag = @ /\ HasNull(At(c.data, kept))]

Cleared(c) == [c EXCEPT !.data = <<>>, !.flag = FALSE]

(* set(), fill() and assign(): the cells at P get the value.                *)
Overwritten(c, P, null) ==
  [c EXCEPT !.data = [k \in DOMAIN @ |-> IF k \in P THEN Cell(@[k].row, null) ELSE @[k]],
            !.flag = @ \/ (null = "told" /\ P # {})]

-----------------------------------------------------------------------------
(* The table *)

Positions == 1 .. size

(* What is called on a table whose columns disagree, but for what puts them *)
(* right, is not followed further: the code reads and writes past their end. *)
Whole == outside = 0 /\ \A i \in DOMAIN cols : Len(cols[i].data) = size

(* The first column of a name is the one the map has.                       *)
MapOf(names) ==
  [n \in {names[i] : i \in DOMAIN names} |-> Lows({i \in DOMAIN names : names[i] = n})]

Repeats(names) == \E i, j \in DOMAIN names : i # j /\ names[i] = names[j]

NameLists(n) == UNION {[1 .. k -> Names] : k \in 1 .. n}

(* The constructor, of columns of equal length.                             *)
Init ==
  /\ colNames \in NameLists(2)
  /\ \E n \in {0, 1}, null \in Nulls, tuple \in BOOLEAN :
       /\ tuple => Len(colNames) > 1
       /\ made = n
       /\ size = n
       /\ cols = [i \in DOMAIN colNames |->
                    LET data == [k \in 1 .. n |-> Cell(k, null)]
                    IN  IF tuple /\ i = 2 THEN TupleColumn(data, null = "told")
                                          ELSE FastColumn(data, null = "told" /\ n > 0)]
  /\ colMap = MapOf(colNames)
  /\ capacity = Lows({cols[i].capacity : i \in DOMAIN cols})
  /\ compresses = 0
  /\ readOnly = FALSE
  /\ outside = 0
  /\ twice = Repeats(colNames)
  /\ torn = FALSE
  /\ mixed = FALSE
  /\ changes = 0

Renamed(i, name) ==
  [n \in (DOMAIN colMap \ {colNames[i]}) \cup {name} |-> IF n = name THEN i ELSE colMap[n]]

SetColumnName(i, name) ==
  /\ colNames' = [colNames EXCEPT ![i] = name]
  /\ colMap' = Renamed(i, name)
  /\ twice' = (twice \/ Repeats(colNames'))
  /\ UNCHANGED <<cols, size, capacity, compresses, readOnly, made, outside, torn, mixed>>

(* append() grows the columns first; of a tuple it cannot, and those before *)
(* it have grown when it says so.                                           *)
FirstTuple == Lows({i \in DOMAIN cols : cols[i].tuple} \cup {Len(cols) + 1})
MustGrow(n) == size + n > capacity
ColsGrown(n) ==
  [i \in DOMAIN cols |->
     IF MustGrow(n) /\ i < FirstTuple THEN Grown(cols[i], size + n) ELSE cols[i]]

AppendCannotGrow(n) ==
  /\ ~readOnly
  /\ Whole
  /\ MustGrow(n)
  /\ FirstTuple <= Len(cols)
  /\ cols' = ColsGrown(n)
  /\ UNCHANGED <<colNames, colMap, size, capacity, compresses, readOnly, history>>

(* All columns take their part of n rows: of a table, of a tuple or of      *)
(* columns that are given.  Column z gets nulls.                            *)
AppendRows(n, z, null) ==
  /\ ~readOnly
  /\ Whole
  /\ made + n <= MaxRows
  /\ MustGrow(n) => FirstTuple > Len(cols)
  /\ LET grown == ColsGrown(n)
     IN  /\ cols' = [i \in DOMAIN cols |-> Appended(grown[i], n, IF i = z THEN null ELSE "none")]
         /\ capacity' = IF MustGrow(n) THEN Lows({grown[i].capacity : i \in DOMAIN cols} \cup {IndexMax})
                                       ELSE capacity
  /\ size' = size + n
  /\ made' = made + n
  /\ mixed' = (mixed \/ (n # 1 /\ FirstTuple <= Len(cols)))
  /\ UNCHANGED <<colNames, colMap, compresses, readOnly, outside, twice, torn>>

(* Column b refuses its part, by its type or by an exception: the columns   *)
(* before it drop what they took.                                           *)
AppendRefused(n, b) ==
  /\ ~readOnly
  /\ Whole
  /\ made + n <= MaxRows
  /\ MustGrow(n) => FirstTuple > Len(cols)
  /\ LET grown == ColsGrown(n)
     IN  /\ cols' = [i \in DOMAIN cols |->
                       IF i < b THEN Shortened(Appended(grown[i], n, "none"), n) ELSE grown[i]]
         /\ capacity' = IF MustGrow(n) THEN Lows({grown[i].capacity : i \in DOMAIN cols} \cup {IndexMax})
                                       ELSE capacity
  /\ mixed' = (mixed \/ (n # 1 /\ FirstTuple < b))
  /\ UNCHANGED <<colNames, colMap, size, compresses, readOnly, made, outside, twice, torn>>

(* update() of the rows at P, in the columns of the names that are there    *)
(* and in a new column for each of the others.  The place of a new name is  *)
(* the number of names the map has by then.                                 *)
Missing(names) == {i \in DOMAIN names : names[i] \notin DOMAIN colMap}
FirstOf(seq, n) == Lows({i \in DOMAIN seq : seq[i] = n})
NamesBefore(seq, i) == {seq[j] : j \in 1 .. i - 1}

(* Mutant: a new name is mapped to the last column there was.               *)
LastPlace(seq, n) == Cardinality(DOMAIN colMap)

NewPlace(seq, n) ==
  Cardinality(DOMAIN colMap \cup NamesBefore(seq, FirstOf(seq, n))) + 1

Update(names, P, null, new) ==
  LET Old == {colMap[names[i]] : i \in {j \in DOMAIN names : names[j] \in DOMAIN colMap}}
      fresh == FastColumn([k \in Positions |-> Cell(cols[1].data[k].row, null)],
                          null = "told" /\ size > 0)
  IN  /\ ~readOnly
      /\ Whole
      /\ new # <<>> => P = Positions
      /\ Len(cols) + Len(new) <= MaxCols
      /\ Old \subseteq DOMAIN cols           \* else what it finds is no column
      /\ \A i \in Old : ~cols[i].tuple
      /\ cols' = [i \in DOMAIN cols |->
                    IF i \in Old THEN Overwritten(cols[i], P, null) ELSE cols[i]]
                 \o [j \in DOMAIN new |-> fresh]
      /\ colNames' = colNames \o new
      /\ colMap' = [n \in DOMAIN colMap \cup {new[j] : j \in DOMAIN new} |->
                      IF n \in DOMAIN colMap THEN colMap[n] ELSE NewPlace(new, n)]
      /\ twice' = (twice \/ Repeats(colNames'))
      /\ UNCHANGED <<size, capacity, compresses, readOnly, made, outside, torn, mixed>>

(* set(): a dictionary has the row's values, none for column z; it looks at *)
(* what is in the cell then.                                                *)
SetRow(p, z) ==
  /\ Whole
  /\ cols' = [i \in DOMAIN cols |-> Overwritten(cols[i], {p}, IF i = z THEN "told" ELSE "none")]
  /\ UNCHANGED <<colNames, colMap, size, capacity, compresses, readOnly, history>>

(* The application makes one cell null through its column.                  *)
SetNull(i, p) ==
  /\ Whole
  /\ cols' = [cols EXCEPT ![i].data[p].null = "raw"]
  /\ UNCHANGED <<colNames, colMap, size, capacity, compresses, readOnly, history>>

(* remove() of the rows but those that are kept: a tuple column refuses,    *)
(* and an exception leaves the columns before it without the rows.          *)
Remove(kept) ==
  /\ ~readOnly
  /\ Whole
  /\ cols' = [i \in DOMAIN cols |-> IF i < FirstTuple THEN OnlyAt(cols[i], kept) ELSE cols[i]]
  /\ IF FirstTuple > Len(cols) THEN size' = Len(cols'[1].data) ELSE size' = size
  /\ torn' = (torn \/ FirstTuple \in 2 .. Len(cols))
  /\ UNCHANGED <<colNames, colMap, capacity, compresses, readOnly, made, outside, twice, mixed>>

(* remove() without an index, and clear().                                  *)
Clear ==
  /\ ~readOnly
  /\ cols' = [i \in DOMAIN cols |-> Cleared(cols[i])]
  /\ size' = 0
  /\ outside' = 0
  /\ torn' = FALSE
  /\ mixed' = FALSE
  /\ UNCHANGED <<colNames, colMap, capacity, compresses, readOnly, made, twice>>

(* drop() makes names and map anew; the methods of compression may be fewer *)
(* than the columns, and then it throws before it has changed anything.     *)
Drop(kept) ==
  /\ ~readOnly
  /\ kept # <<>>
  /\ compresses # 0 => \A i \in DOMAIN kept : kept[i] <= compresses
  /\ cols' = At(cols, kept)
  /\ colNames' = At(colNames, kept)
  /\ colMap' = MapOf(colNames')
  /\ compresses' = IF compresses = 0 THEN 0 ELSE Len(kept)
  /\ twice' = Repeats(colNames')
  /\ UNCHANGED <<size, capacity, readOnly, made, outside, torn, mixed>>

(* join() compares the names with those of the table, not with each other.  *)
Join(names, tuple) ==
  LET data == [k \in Positions |-> Cell(cols[1].data[k].row, "none")]
      joined == [i \in DOMAIN names |->
                   IF tuple THEN TupleColumn(data, FALSE) ELSE FastColumn(data, FALSE)]
  IN  /\ ~readOnly
      /\ Whole
      /\ Len(cols) + Len(names) <= MaxCols
      /\ \A i \in DOMAIN names : names[i] \notin DOMAIN colMap
      /\ cols' = cols \o joined
      /\ colNames' = colNames \o names
      /\ colMap' = [n \in DOMAIN colMap \cup {names[i] : i \in DOMAIN names} |->
                      IF n \in DOMAIN colMap THEN colMap[n] ELSE Len(cols) + FirstOf(names, n)]
      /\ twice' = (twice \/ Repeats(colNames'))
      /\ UNCHANGED <<size, capacity, compresses, readOnly, made, outside, torn, mixed>>

SetColumnCompressMethods(n) ==
  /\ n \in {0, Len(colNames)}
  /\ compresses' = n
  /\ UNCHANGED <<cols, colNames, colMap, size, capacity, readOnly, history>>

SetReadOnly(val) ==
  /\ readOnly' = val
  /\ UNCHANGED <<cols, colNames, colMap, size, capacity, compresses, history>>

(* A reader of shared memory writes a row to the columns, one by one, as    *)
(* bytes or strings, and then calls updateSize(), which throws as long as   *)
(* they differ; mergeTable() of a stream appends, and a null is told.       *)
WriteColumn(i, null) ==
  /\ Whole \/ outside # 0
  /\ ~cols[i].tuple
  /\ Len(cols[i].data) = size
  /\ outside = 0 => made < MaxRows
  /\ outside' = IF outside = 0 THEN made + 1 ELSE outside
  /\ made' = Tops({made, outside'})
  /\ cols' = [cols EXCEPT ![i].data = Append(@, Cell(outside', null)),
                          ![i].capacity = Tops({@, Len(cols[i].data) + 1}),
                          ![i].flag = @ \/ null = "told"]
  /\ UNCHANGED <<colNames, colMap, size, capacity, compresses, readOnly, twice, torn, mixed>>

(* The reader overwrites the rows that are there before it appends any:     *)
(* what it does to two columns commutes.                                    *)
RewriteColumn(i, p, null) ==
  /\ Whole
  /\ ~cols[i].tuple
  /\ cols' = [cols EXCEPT ![i].data[p].null = null]
  /\ UNCHANGED <<colNames, colMap, size, capacity, compresses, readOnly, history>>

UpdateSize ==
  /\ ~readOnly
  /\ \A i \in DOMAIN cols : Len(cols[i].data) = Len(cols[1].data)
  /\ size' = Len(cols[1].data)
  /\ outside' = 0
  /\ UNCHANGED <<cols, colNames, colMap, capacity, compresses, readOnly, made, twice, torn, mixed>>

RowsNext ==
  \/ \E n \in 0 .. 2 :
       \/ AppendCannotGrow(n)
       \/ \E null \in Nulls : AppendRows(n, 1, null)
       \/ \E i \in DOMAIN cols : AppendRefused(n, i)
  \/ \E P \in (SUBSET Positions) \ {{}} : \E f \in InOrder(Positions \ P) : Remove(f)
  \/ \E p \in Positions, i \in DOMAIN cols : SetRow(p, i)
  \/ \E i \in DOMAIN cols : WriteColumn(i, "none")
  \/ \* bound: one column, and of those there are one cell, stand for all
     LET i == Len(cols)
     IN  \/ \E null \in Nulls : WriteColumn(i, null)
         \/ size > 0 /\ SetNull(i, size)
         \/ size > 0 /\ \E null \in {"none", "raw"} : RewriteColumn(i, size, null)
  \/ Clear \/ UpdateSize

ColumnsNext ==
  \/ \E i \in DOMAIN cols, name \in Names : SetColumnName(i, name)
  \/ \* bound: what append() has narrowed stands for what update() has
     \E names \in NameLists(2), null \in {"none", "told"} :
       \E P \in {Positions} \cup {{p} : p \in Positions}, f \in InOrder(Missing(names)) :
         Update(names, P, null, At(names, f))
  \/ \E D \in SUBSET DOMAIN cols \ {{}} : \E f \in InOrder(DOMAIN cols \ D) : Drop(f)
  \/ \E names \in NameLists(2), tuple \in BOOLEAN : Join(names, tuple)
  \/ \E n \in {0, Len(colNames)} : SetColumnCompressMethods(n)
  \/ \E val \in BOOLEAN : SetReadOnly(val)

Next ==
  \/ RowsNext /\ UNCHANGED changes
  \/ changes < MaxChanges /\ ColumnsNext /\ changes' = changes + 1

Spec == Init /\ [][Next]_vars

-----------------------------------------------------------------------------
(* Properties *)

(* Whatever is refused in whichever column: every column has size_ cells,   *)
(* the same rows in the same order.  The code does not keep this when a     *)
(* removal meets a tuple column, when a tuple column is given other than    *)
(* one row, and while the columns themselves are written.                   *)
RowsTogether ==
  ~torn /\ ~mixed =>
    \A i \in DOMAIN cols :
      /\ Len(cols[i].data) >= size
      /\ outside = 0 => Len(cols[i].data) = size
      /\ \A k \in Positions : cols[i].data[k].row = cols[1].data[k].row

(* Every column is found by its name, and no other: getColumn(name), update *)
(* and set go through the map.  The code keeps this as long as no two       *)
(* columns have had one name, which drop() alone puts right.                *)
MapFindsColumns ==
  ~twice =>
    /\ DOMAIN colMap = {colNames[i] : i \in DOMAIN colNames}
    /\ \A i \in DOMAIN colNames : colMap[colNames[i]] = i

(* A column into which a null has come that was told says that it has one,  *)
(* as long as it has that null: whatever is appended, refused, overwritten, *)
(* merged, removed or moved to another place before and after.  Of raw      *)
(* nulls the flag knows nothing, whichever way they came.                   *)
NullFlagSound ==
  \A i \in DOMAIN cols : \A k \in DOMAIN cols[i].data :
    cols[i].data[k].null = "told" => cols[i].flag
=============================================================================
